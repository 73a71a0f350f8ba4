---------------------------- MODULE CommandsProofs ----------------------------
(***************************************************************************)
(* What the commands of the main thread promise, for every machine, file,  *)
(* count and word width.  Each command's part of the invariant is kept by  *)
(* the command's own steps; the others are steps that leave it alone.      *)
(***************************************************************************)
EXTENDS Commands, FiniteSetTheorems, SequenceTheorems, TLAPS

-----------------------------------------------------------------------------
(* MemoryMap.                                                              *)

UintMax == 2^UintWidth - 1

MemoryTypeOK ==
  /\ job \in Jobs
  /\ section \in BOOLEAN /\ buffer \in BOOLEAN
  /\ chunk \in Nat /\ views \in Nat /\ done \in Nat /\ mapped \in Nat
  /\ left \in 0..UintMax
  /\ memoryAt \in {"begin", "iterate", "create", "map", "use", "chunk", "destroy", "end"}

Asked == IF job.count = 0 THEN UintMax ELSE job.count

\* What is mapped, by place and subcommand.
ViewsInv ==
  /\ memoryAt \in {"begin", "iterate", "create", "map"} => views = 0 /\ buffer = FALSE
  /\ memoryAt \in {"begin", "iterate", "create", "end"} => section = FALSE
  /\ memoryAt \in {"use", "chunk", "destroy"} =>
       /\ job.op = "pte"  => views = IF buffer THEN 1 ELSE 0
       /\ job.op = "pte2" => views = mapped /\ (mapped = 0 => buffer = FALSE) /\ (mapped # 0 => buffer = TRUE)
       /\ job.op = "pte3" => views = IF memoryAt = "chunk" THEN 1 ELSE 0
  /\ job.op = "pte3" => buffer = FALSE /\ memoryAt \notin {"iterate", "map"}
  /\ job.op # "pte3" => memoryAt # "chunk"
  /\ job.op = "pte2" => memoryAt # "iterate"
  /\ job.op # "pte2" \/ memoryAt \in {"begin", "iterate", "create", "map"} => mapped = 0
  /\ memoryAt = "end" => views = IF mapped = 0 THEN 0 ELSE mapped - 1

\* Iterations made and iterations to come are those asked for.
CountInv ==
  /\ memoryAt = "begin" => left = job.count /\ done = 0
  /\ job.op = "pte" /\ memoryAt # "begin" => done + left = Asked
  /\ job.op = "pte" /\ memoryAt = "end" => left = 0
  /\ job.op = "pte3" => done <= job.count
  /\ job.op = "pte3" /\ memoryAt \in {"create", "use", "chunk"} => done + left = job.count

MemoryInv == NoMemory \/ (MemoryTypeOK /\ ViewsInv /\ CountInv)

\* The counters of the command are UINTs: counting down stops nowhere.
LEMMA DecrementIs ==
  ASSUME NEW n \in 0..UintMax
  PROVE  Decrement(n) \in 0..UintMax /\ Decrement(n) = IF n = 0 THEN UintMax ELSE n - 1
<1>1. 2^UintWidth \in Nat \ {0}
  BY MemoryMapAssumption
<1>2. ASSUME NEW w \in Nat \ {0}, NEW k \in 0..(w - 1)  PROVE (k - 1) % w = IF k = 0 THEN w - 1 ELSE k - 1
  OBVIOUS
<1>3. (n - 1) % 2^UintWidth = IF n = 0 THEN 2^UintWidth - 1 ELSE n - 1
  BY <1>1, <1>2 DEF UintMax
<1>. QED  BY <1>1, <1>3 DEF Decrement, UintMax

\* A job is one of three, and asks for no more than a UINT can count.
LEMMA JobIs == ASSUME job \in Jobs
               PROVE  job.op \in {"pte", "pte2", "pte3"} /\ job.count \in 0..UintMax
BY MemoryMapAssumption DEF Jobs, UintMax

\* The command begins with nothing mapped; nor has it anything when it is not run.
LEMMA MemoryBegins == MemoryInit => MemoryInv
<1>. SUFFICES ASSUME MemoryInit PROVE MemoryTypeOK /\ ViewsInv /\ CountInv
  BY DEF MemoryInv
<1>1. job.op \in {"pte", "pte2", "pte3"} /\ job.count \in 0..UintMax /\ UintMax \in Nat
  BY JobIs, MemoryMapAssumption DEF MemoryInit, UintMax
<1>2. MemoryTypeOK
  BY <1>1 DEF MemoryInit, MemoryTypeOK
<1>3. ViewsInv
  BY <1>1 DEF MemoryInit, ViewsInv
<1>4. CountInv
  BY <1>1 DEF MemoryInit, CountInv
<1>. QED  BY <1>2, <1>3, <1>4

\* A step of the memory command keeps views and counts.
LEMMA MemoryKeeps == MemoryInv /\ [MemoryNext]_memoryVars => MemoryInv'
<1>. SUFFICES ASSUME MemoryInv, [MemoryNext]_memoryVars  PROVE MemoryInv'
  OBVIOUS
<1>0. CASE NoMemory
  BY <1>0 DEF MemoryInv, NoMemory, MemoryNext, memoryVars, Begin, Iterate, CreateSection, MapBuffer,
              Poke, MapAndForget, MapChunk, UnmapChunk, EndOfPass, Destroy
<1>1. CASE MemoryTypeOK /\ ViewsInv /\ CountInv
  <2>. SUFFICES MemoryTypeOK' /\ ViewsInv' /\ CountInv'
    BY DEF MemoryInv
  <2>0. /\ job.op \in {"pte", "pte2", "pte3"} /\ job.count \in 0..UintMax /\ UintMax \in Nat
        /\ Decrement(left) \in 0..UintMax /\ Decrement(left) = IF left = 0 THEN UintMax ELSE left - 1
    BY <1>1, JobIs, DecrementIs, MemoryMapAssumption DEF MemoryTypeOK, UintMax
  <2>. USE <1>1, <2>0 DEF MemoryTypeOK, ViewsInv, CountInv, Asked
  <2>1. CASE UNCHANGED memoryVars
    BY <2>1 DEF memoryVars
  <2>2. CASE Begin
    BY <2>2 DEF Begin
  <2>3. CASE Iterate
    BY <2>3 DEF Iterate
  <2>4. CASE CreateSection
    BY <2>4 DEF CreateSection, MapAll
  <2>5. CASE MapBuffer
    <3>1. /\ memoryAt = "map" /\ memoryAt' = "use"
          /\ mapped' = IF job.op = "pte2" THEN views' ELSE 0
          /\ UNCHANGED <<job, section, chunk, left, done>>
      BY <2>5 DEF MapBuffer
    <3>2. (views' = 1 /\ buffer' = TRUE) \/ (views' = 0 /\ buffer' = FALSE)
      BY <2>5 DEF MapBuffer, View
    <3>3. MemoryTypeOK'
      <4>1. views' \in Nat /\ mapped' \in Nat
        BY <3>1, <3>2
      <4>2. section' \in BOOLEAN /\ buffer' \in BOOLEAN
        BY <3>1, <3>2
      <4>. QED  BY <3>1, <4>1, <4>2
    <3>4. ViewsInv'
      BY <3>1, <3>2
    <3>5. CountInv'
      BY <3>1, <3>2
    <3>. QED  BY <3>3, <3>4, <3>5
  <2>6. CASE Poke
    BY <2>6 DEF Poke
  <2>7. CASE MapAndForget
    BY <2>7 DEF MapAndForget, View
  <2>8. CASE MapChunk
    BY <2>8 DEF MapChunk
  <2>9. CASE UnmapChunk
    BY <2>9 DEF UnmapChunk
  <2>10. CASE EndOfPass
    BY <2>10 DEF EndOfPass
  <2>11. CASE Destroy
    <3>1. /\ memoryAt = "destroy" /\ memoryAt' = IF job.op = "pte" THEN "iterate" ELSE "end"
          /\ section' = FALSE /\ buffer' = FALSE
          /\ UNCHANGED <<job, chunk, left, done, mapped>>
      BY <2>11 DEF Destroy
    <3>2. views' = IF job.op = "pte2" /\ mapped # 0 THEN mapped - 1 ELSE 0
      <4>1. CASE buffer = TRUE
        BY <2>11, <3>1, <4>1 DEF Destroy
      <4>2. CASE buffer = FALSE
        BY <2>11, <3>1, <4>2 DEF Destroy
      <4>. QED  BY <4>1, <4>2
    <3>3. MemoryTypeOK'
      <4>1. views' \in Nat /\ mapped' \in Nat
        BY <3>1, <3>2
      <4>2. section' \in BOOLEAN /\ buffer' \in BOOLEAN
        BY <3>1, <3>2
      <4>. QED  BY <3>1, <4>1, <4>2
    <3>4. ViewsInv'
      BY <3>1, <3>2
    <3>5. CountInv'
      BY <3>1, <3>2
    <3>. QED  BY <3>3, <3>4, <3>5
  <2>. QED  BY <2>1, <2>2, <2>3, <2>4, <2>5, <2>6, <2>7, <2>8, <2>9, <2>10, <2>11 DEF MemoryNext
<1>. QED  BY <1>0, <1>1 DEF MemoryInv

-----------------------------------------------------------------------------
(* Devices.                                                                *)

DevicesTypeOK ==
  /\ machine \in Seq(DeviceKinds) /\ drivers \in Seq(DriverKinds)
  /\ matched \in Seq(Nat)
  /\ nextDevice \in 1..(Len(machine) + 1) /\ nextDriver \in 1..(Len(drivers) + 1)
  /\ found \in Nat /\ selected \in Nat /\ installed \in Nat

Matching  == {d \in 1..(nextDevice - 1) : Match(machine[d])}
Suitable  == {d \in 1..(nextDriver - 1) : drivers[d].detail /\ drivers[d].named}
Discarded == {d \in 1..(nextDriver - 1) : drivers[d].detail /\ ~drivers[d].named /\ drivers[d].markable}

\* What is counted and marked is what was enumerated so far.
EnumeratedInv == /\ Len(matched) = Cardinality(Matching)
                 /\ found = Cardinality(Suitable)
                 /\ bad = Discarded

\* How far the command comes only with one device and one driver.
ChoiceInv ==
  /\ pnp \in {"drivers", "select", "install", "installed", "not installed"} => Len(matched) = 1
  /\ pnp \in {"select", "install", "installed", "not installed"} => found = 1
  /\ pnp \in {"devices", "drivers", "select"} => selected = 0 /\ installed = 0
  /\ selected # 0 => selected \in DOMAIN drivers \ bad
  /\ installed # 0 => installed \in DOMAIN drivers \ bad /\ pnp = "installed"

DevicesInv == NoPnp \/ (DevicesTypeOK /\ EnumeratedInv /\ ChoiceInv)

\* A machine is what the system has, up to the model's bound.
LEMMA BoundedIsSeq == ASSUME NEW S, NEW n \in Nat  PROVE BoundedSeq(S, n) \subseteq Seq(S)
<1>. SUFFICES ASSUME NEW m \in 0..n, NEW s \in [1..m -> S]  PROVE s \in Seq(S)
  BY DEF BoundedSeq, SeqOf
<1>. QED  BY SeqDef

\* One more number counted.
LEMMA OneMore ==
  ASSUME NEW n \in Nat \ {0}, NEW P, NEW Q, P \subseteq 1..(n - 1),
         Q = P \cup {n} \/ Q = P
  PROVE  /\ Cardinality(P) \in Nat
         /\ Cardinality(Q) = IF n \in Q THEN Cardinality(P) + 1 ELSE Cardinality(P)
<1>1. IsFiniteSet(1..(n - 1)) /\ n \notin P
  BY FS_Interval
<1>2. IsFiniteSet(P)
  BY <1>1, FS_Subset
<1>. QED  BY <1>1, <1>2, FS_AddElement, FS_CardinalityType

\* The command begins with nothing enumerated.
LEMMA DevicesBegin == DevicesInit => DevicesInv
<1>. SUFFICES ASSUME DevicesInit PROVE DevicesTypeOK /\ EnumeratedInv /\ ChoiceInv
  BY DEF DevicesInv
<1>1. machine \in Seq(DeviceKinds) /\ drivers \in Seq(DriverKinds)
  BY BoundedIsSeq, DevicesAssumption DEF DevicesInit
<1>2. DevicesTypeOK
  BY <1>1 DEF DevicesInit, DevicesTypeOK
<1>3. Matching = {} /\ Suitable = {} /\ Discarded = {}
  BY DEF DevicesInit, Matching, Suitable, Discarded
<1>4. EnumeratedInv
  BY <1>3, FS_EmptySet DEF DevicesInit, EnumeratedInv
<1>. QED  BY <1>2, <1>4 DEF DevicesInit, ChoiceInv

\* A step of the pnp command keeps the counts and what depends on them.
LEMMA DevicesKeep == DevicesInv /\ [DevicesNext]_pnpVars => DevicesInv'
<1>. SUFFICES ASSUME DevicesInv, [DevicesNext]_pnpVars  PROVE DevicesInv'
  OBVIOUS
<1>0. CASE NoPnp
  BY <1>0 DEF DevicesInv, NoPnp, DevicesNext, pnpVars, EnumDevice, EndOfDevices, EnumDriver,
              EndOfDrivers, SelectBest, Install
<1>1. CASE DevicesTypeOK /\ EnumeratedInv /\ ChoiceInv
  <2>. SUFFICES DevicesTypeOK' /\ EnumeratedInv' /\ ChoiceInv'
    BY DEF DevicesInv
  <2>0. ASSUME UNCHANGED <<machine, drivers, matched, nextDevice, nextDriver, found, bad>>
        PROVE  EnumeratedInv'
    BY <1>1, <2>0 DEF EnumeratedInv, Matching, Suitable, Discarded, Match
  <2>1. CASE UNCHANGED pnpVars
    BY <1>1, <2>0, <2>1 DEF pnpVars, DevicesTypeOK, ChoiceInv
  <2>2. CASE EnumDevice
    <3>1. DevicesTypeOK'
      BY <1>1, <2>2 DEF EnumDevice, DevicesTypeOK
    <3>2. Len(matched)' = Cardinality(Matching)'
      <4>1. Matching' = IF Match(machine[nextDevice]) THEN Matching \cup {nextDevice} ELSE Matching
        BY <1>1, <2>2 DEF EnumDevice, DevicesTypeOK, Matching, Match
      <4>2. Len(matched') = IF Match(machine[nextDevice]) THEN Len(matched) + 1 ELSE Len(matched)
        BY <1>1, <2>2 DEF EnumDevice, DevicesTypeOK
      <4>3. nextDevice \in Nat \ {0} /\ Matching \subseteq 1..(nextDevice - 1) /\ nextDevice \notin Matching
        BY <1>1 DEF DevicesTypeOK, Matching
      <4>4. Cardinality(Matching') = IF nextDevice \in Matching' THEN Cardinality(Matching) + 1 ELSE Cardinality(Matching)
        BY <4>1, <4>3, OneMore
      <4>. QED  BY <1>1, <4>1, <4>2, <4>3, <4>4 DEF EnumeratedInv
    <3>3. EnumeratedInv'
      BY <1>1, <2>2, <3>2 DEF EnumDevice, EnumeratedInv, Suitable, Discarded
    <3>. QED  BY <1>1, <2>2, <3>1, <3>3 DEF EnumDevice, ChoiceInv
  <2>3. CASE EndOfDevices
    BY <1>1, <2>0, <2>3 DEF EndOfDevices, DevicesTypeOK, ChoiceInv
  <2>4. CASE EnumDriver
    <3>. DEFINE driver == drivers[nextDriver]
    <3>0. /\ nextDriver \in Nat \ {0} /\ nextDriver \in DOMAIN drivers /\ nextDriver' = nextDriver + 1
          /\ UNCHANGED <<machine, drivers, matched, nextDevice, selected, installed, pnp>>
          /\ found' = IF driver.detail /\ driver.named THEN found + 1 ELSE found
          /\ bad' = IF driver.detail /\ ~driver.named /\ driver.markable THEN bad \cup {nextDriver} ELSE bad
          /\ pnp = "drivers"
      BY <1>1, <2>4 DEF EnumDriver, DevicesTypeOK
    <3>1. DevicesTypeOK'
      BY <1>1, <3>0 DEF DevicesTypeOK
    <3>2. found' = Cardinality(Suitable')
      <4>1. Suitable' = IF driver.detail /\ driver.named THEN Suitable \cup {nextDriver} ELSE Suitable
        BY <1>1, <3>0 DEF DevicesTypeOK, Suitable
      <4>2. Suitable \subseteq 1..(nextDriver - 1) /\ nextDriver \notin Suitable
        BY <3>0 DEF Suitable
      <4>3. Cardinality(Suitable') = IF nextDriver \in Suitable' THEN Cardinality(Suitable) + 1 ELSE Cardinality(Suitable)
        BY <3>0, <4>1, <4>2, OneMore
      <4>. QED  BY <1>1, <3>0, <4>1, <4>2, <4>3 DEF EnumeratedInv
    <3>3. bad' = Discarded'
      BY <1>1, <3>0 DEF DevicesTypeOK, EnumeratedInv, Discarded
    <3>4. EnumeratedInv'
      BY <1>1, <3>0, <3>2, <3>3 DEF EnumeratedInv, Matching, Match
    <3>. QED  BY <1>1, <3>0, <3>1, <3>4 DEF ChoiceInv
  <2>5. CASE EndOfDrivers
    <3>1. found = 1 \/ pnp' \in {"no suitable driver", "several drivers"}
      BY <1>1, <2>5, Zenon DEF EndOfDrivers
    <3>2. pnp' \in {"no suitable driver", "several drivers", "select"}
      BY <2>5, Zenon DEF EndOfDrivers
    <3>3. /\ UNCHANGED <<machine, drivers, matched, nextDevice, nextDriver, found, bad, selected, installed>>
          /\ pnp = "drivers"
      BY <2>5, Zenon DEF EndOfDrivers
    <3>. QED  BY <1>1, <2>0, <3>1, <3>2, <3>3 DEF DevicesTypeOK, ChoiceInv
  <2>6. CASE SelectBest
    BY <1>1, <2>0, <2>6 DEF SelectBest, DevicesTypeOK, ChoiceInv
  <2>7. CASE Install
    <3>1. /\ pnp = "install" /\ pnp' \in {"installed", "not installed"}
          /\ UNCHANGED <<machine, drivers, matched, nextDevice, nextDriver, found, bad, selected>>
      BY <2>7 DEF Install
    <3>2. DOMAIN drivers \subseteq Nat \ {0}
      BY <1>1 DEF DevicesTypeOK
    <3>3. installed' = 0 \/ (pnp' = "installed" /\ installed' \in DOMAIN drivers \ bad)
      <4>1. installed = 0 \/ pnp = "installed"
        BY <1>1 DEF ChoiceInv
      <4>2. CASE selected # 0
        BY <1>1, <2>7, <3>1, <4>1, <4>2 DEF Install, ChoiceInv
      <4>3. CASE selected = 0
        BY <1>1, <2>7, <3>1, <4>1, <4>3 DEF Install, ChoiceInv
      <4>. QED  BY <4>2, <4>3
    <3>4. DevicesTypeOK'
      <4>1. installed' \in Nat
        BY <3>2, <3>3
      <4>. QED  BY <1>1, <3>1, <4>1 DEF DevicesTypeOK
    <3>5. ChoiceInv'
      BY <1>1, <3>1, <3>3 DEF ChoiceInv
    <3>. QED  BY <2>0, <3>1, <3>4, <3>5
  <2>. QED  BY <2>1, <2>2, <2>3, <2>4, <2>5, <2>6, <2>7 DEF DevicesNext
<1>. QED  BY <1>0, <1>1 DEF DevicesInv

\* What is installed was chosen by both patterns.
LEMMA DevicesPromise == DevicesInv => InstalledOnPurpose
<1>. SUFFICES ASSUME DevicesInv, pnp = "installed"  PROVE InstalledOnPurpose
  BY DEF InstalledOnPurpose
<1>1. DevicesTypeOK /\ EnumeratedInv /\ ChoiceInv
  BY DEF DevicesInv, NoPnp
<1>. DEFINE target(d) == machine[d].hardware = "yes" \/ (machine[d].hardware # "no IDs" /\ machine[d].instance)
            queried == {d \in 1..(nextDriver - 1) : drivers[d].detail}
            nothingMissed == /\ nextDevice > Len(machine) /\ nextDriver > Len(drivers)
                             /\ \A d \in DOMAIN drivers : drivers[d].detail /\ drivers[d].markable
<1>2. {d \in 1..(nextDevice - 1) : target(d)} = Matching
  <2>1. ASSUME NEW d \in 1..(nextDevice - 1)  PROVE target(d) <=> Match(machine[d])
    <3>1. machine[d] \in DeviceKinds
      BY <1>1 DEF DevicesTypeOK
    <3>. QED  BY <3>1 DEF DeviceKinds, Match
  <2>. QED  BY <2>1 DEF Matching
<1>3. {d \in queried : drivers[d].named} = Suitable
  BY DEF Suitable
<1>4. Len(matched) = 1 /\ found = 1 /\ (installed # 0 => installed \in DOMAIN drivers \ bad)
  BY <1>1 DEF ChoiceInv
<1>5. installed # 0 => drivers[installed].named \/ installed \notin queried \/ ~drivers[installed].markable
  BY <1>1, <1>4 DEF EnumeratedInv, Discarded
<1>6. Cardinality(Matching) = 1 /\ Cardinality(Suitable) = 1
  BY <1>1, <1>4 DEF EnumeratedInv
<1>7. ASSUME nothingMissed
      PROVE  /\ Cardinality({d \in DOMAIN machine : target(d)}) = 1
             /\ installed # 0 => {d \in DOMAIN drivers : drivers[d].named} = {installed}
  <2>1. /\ DOMAIN machine = 1..(nextDevice - 1)
        /\ DOMAIN drivers = 1..(nextDriver - 1)
    BY <1>1, <1>7 DEF DevicesTypeOK
  <2>2. Suitable = {d \in DOMAIN drivers : drivers[d].named}
    BY <1>7, <2>1 DEF Suitable
  <2>3. PICK only : Suitable = {only}
    <3>1. IsFiniteSet(1..(nextDriver - 1)) /\ Suitable \subseteq 1..(nextDriver - 1)
      <4>1. nextDriver \in Nat
        BY <1>1 DEF DevicesTypeOK
      <4>2. nextDriver - 1 \in Int
        BY <4>1
      <4>. QED  BY <4>2, FS_Interval DEF Suitable
    <3>2. IsFiniteSet(Suitable)
      BY <3>1, FS_Subset
    <3>. QED  BY <1>6, <3>2, FS_Singleton
  <2>4. installed # 0 => installed \in Suitable
    BY <1>4, <1>5, <1>7, <2>1, <2>2
  <2>. QED  BY <1>2, <1>6, <2>1, <2>2, <2>3, <2>4
<1>. QED  BY <1>2, <1>3, <1>5, <1>6, <1>7 DEF InstalledOnPurpose

-----------------------------------------------------------------------------
(* TextParser.                                                             *)

ParserTypeOK ==
  /\ ini \in Inis
  /\ text \in Seq(TextLines) /\ lines \in Seq(Nat) /\ printed \in Seq(Nat)
  /\ started \in BOOLEAN /\ included \in BOOLEAN

\* NothingLost, from before the file is opened.
KeptInv == parsing \in {"ini", "reading"} =>
             \A n \in DOMAIN text : Matches(n) =>
               \/ n \in ToSet(printed)
               \/ started = TRUE /\ included = TRUE /\ n \in ToSet(lines)

ParserInv == NoParser \/ (ParserTypeOK /\ KeptInv)

\* What is put behind a sequence is there, as well as what was there.
LEMMA InConcat ==
  ASSUME NEW S, NEW s \in Seq(S), NEW t \in Seq(S)
  PROVE  s \o t \in Seq(S) /\ ToSet(s \o t) = ToSet(s) \cup ToSet(t)
<1>1. s \o t \in Seq(S)
  BY ConcatProperties
<1>2. ToSet(s \o t) \subseteq ToSet(s) \cup ToSet(t)
  BY ConcatProperties DEF ToSet
<1>3. ASSUME NEW i \in DOMAIN s  PROVE s[i] \in ToSet(s \o t)
  <2>1. i \in DOMAIN (s \o t) /\ (s \o t)[i] = s[i]
    BY ConcatProperties
  <2>. QED  BY <2>1 DEF ToSet
<1>4. ASSUME NEW i \in DOMAIN t  PROVE t[i] \in ToSet(s \o t)
  <2>1. Len(s) + i \in DOMAIN (s \o t) /\ (s \o t)[Len(s) + i] = t[i]
    BY ConcatProperties
  <2>. QED  BY <2>1 DEF ToSet
<1>. QED  BY <1>1, <1>2, <1>3, <1>4 DEF ToSet

\* Likewise for one more element.
LEMMA InAppend ==
  ASSUME NEW S, NEW s \in Seq(S), NEW e \in S
  PROVE  Append(s, e) \in Seq(S) /\ ToSet(Append(s, e)) = ToSet(s) \cup {e}
<1>1. Append(s, e) \in Seq(S) /\ Len(Append(s, e)) = Len(s) + 1
  BY AppendProperties
<1>2. Append(s, e)[Len(s) + 1] = e /\ \A i \in 1..Len(s) : Append(s, e)[i] = s[i]
  BY AppendProperties
<1>. QED  BY <1>1, <1>2 DEF ToSet

\* A sequence is its first element and the rest.
LEMMA InTail ==
  ASSUME NEW S, NEW s \in Seq(S), s # << >>
  PROVE  /\ Head(s) \in S /\ Tail(s) \in Seq(S) /\ Len(Tail(s)) = Len(s) - 1
         /\ ToSet(s) = {Head(s)} \cup ToSet(Tail(s))
<1>1. /\ Head(s) \in S /\ Tail(s) \in Seq(S) /\ Len(Tail(s)) = Len(s) - 1
      /\ \A i \in 1..Len(Tail(s)) : Tail(s)[i] = s[i + 1]
  BY HeadTailProperties
<1>2. Head(s) = s[1] /\ Len(s) \in Nat \ {0}
  OBVIOUS
<1>3. ASSUME NEW i \in DOMAIN s  PROVE s[i] \in {Head(s)} \cup ToSet(Tail(s))
  <2>1. CASE i = 1
    BY <1>2, <2>1
  <2>2. CASE i # 1
    <3>1. i - 1 \in DOMAIN Tail(s) /\ Tail(s)[i - 1] = s[i]
      BY <1>1, <1>2, <1>3, <2>2
    <3>. QED  BY <3>1 DEF ToSet
  <2>. QED  BY <2>1, <2>2
<1>4. ASSUME NEW i \in DOMAIN Tail(s)  PROVE Tail(s)[i] \in ToSet(s)
  BY <1>1, <1>2, <1>4 DEF ToSet
<1>. QED  BY <1>1, <1>2, <1>3, <1>4 DEF ToSet

\* The command begins with nothing read.
LEMMA ParserBegins == ParserInit => ParserInv
<1>. SUFFICES ASSUME ParserInit PROVE ParserTypeOK /\ KeptInv
  BY DEF ParserInv
<1>1. text = <<>> /\ DOMAIN text = {}
  BY DEF ParserInit
<1>2. ParserTypeOK
  <2>1. text \in Seq(TextLines) /\ lines \in Seq(Nat) /\ printed \in Seq(Nat)
    BY DEF ParserInit
  <2>2. started \in BOOLEAN /\ included \in BOOLEAN
    BY DEF ParserInit
  <2>. QED  BY <2>1, <2>2 DEF ParserInit, ParserTypeOK
<1>3. KeptInv
  BY <1>1 DEF KeptInv
<1>. QED  BY <1>2, <1>3

\* A line that matches a filter matches some number of them.
LEMMA HitsCount ==
  ASSUME ini \in Inis, NEW line, Hits(line) # {}
  PROVE  Cardinality(Hits(line)) \in Nat \ {0}
<1>1. Hits(line) \subseteq 1..NumFilters /\ IsFiniteSet(1..NumFilters)
  BY FS_Interval, TextParserAssumption DEF Inis, Hits, Filters, FilterNumbers
<1>2. IsFiniteSet(Hits(line))
  BY <1>1, FS_Subset
<1>. QED  BY <1>2, FS_EmptySet, FS_CardinalityType

\* A step of the parser keeps what matches.
LEMMA ParserKeeps == ParserInv /\ [ParserNext]_parserVars => ParserInv'
<1>. SUFFICES ASSUME ParserInv, [ParserNext]_parserVars  PROVE ParserInv'
  OBVIOUS
<1>0. CASE NoParser
  BY <1>0 DEF ParserInv, NoParser, ParserNext, parserVars, Open, ReadLine, Fgets, Eof
<1>1. CASE ParserTypeOK /\ KeptInv
  <2>. SUFFICES ParserTypeOK' /\ KeptInv'
    BY DEF ParserInv
  <2>0. ASSUME UNCHANGED <<ini, text>>
        PROVE  \A n \in DOMAIN text : Matches(n)' <=> Matches(n)
    BY <2>0 DEF Matches, IsText, IsStart, IsEnd, Filters
  <2>1. CASE UNCHANGED parserVars
    BY <1>1, <2>0, <2>1 DEF parserVars, ParserTypeOK, KeptInv
  <2>2. CASE Open
    BY <1>1, <2>0, <2>2 DEF Open, ParserTypeOK, KeptInv
  <2>3. CASE Eof
    BY <1>1, <2>3 DEF Eof, ParserTypeOK, KeptInv
  <2>4. ASSUME NEW line \in TextLines, Fgets(line), StartLine(line) \/ EndLine(line) \/ TextLine(line)
        PROVE  ParserTypeOK' /\ KeptInv'
    <3>1. /\ Current \in Nat /\ text' \in Seq(TextLines) /\ ini' = ini
          /\ DOMAIN text' = DOMAIN text \cup {Current} /\ text'[Current] = line
          /\ \A n \in DOMAIN text : text'[n] = text[n]
      BY <1>1, <2>4, AppendProperties DEF Fgets, ParserTypeOK, Current
    <3>2. ASSUME NEW n \in DOMAIN text, Matches(n)'
          PROVE  n \in ToSet(printed) \/ (started = TRUE /\ included = TRUE /\ n \in ToSet(lines))
      <4>1. Matches(n)
        BY <3>1, <3>2 DEF Matches, IsText, IsStart, IsEnd, Filters
      <4>. QED  BY <1>1, <2>4, <4>1 DEF KeptInv, Fgets
    <3>3. ASSUME NEW n, n = Current, Matches(n)'
          PROVE  ~IsStart(line) /\ ~IsEnd(line) /\ Hits(line) # {}
      <4>1. text'[n] = line
        BY <3>1, <3>3
      <4>. QED  BY <3>1, <3>3, <4>1 DEF Matches, IsText, IsStart, IsEnd, Filters, Hits
    <3>4. CASE StartLine(line)
      <4>1. /\ printed' \in Seq(Nat) /\ ToSet(printed) \subseteq ToSet(printed')
            /\ included = TRUE => ToSet(lines) \subseteq ToSet(printed')
        BY <1>1, <3>4, InConcat DEF StartLine, Flush, ParserTypeOK
      <4>2. ParserTypeOK'
        <5>1. lines' \in Seq(Nat)
          BY <3>1, <3>4 DEF StartLine
        <5>2. started' \in BOOLEAN /\ included' \in BOOLEAN
          BY <1>1, <3>4 DEF StartLine, ParserTypeOK
        <5>. QED  BY <1>1, <3>1, <4>1, <5>1, <5>2 DEF ParserTypeOK
      <4>3. ASSUME NEW n \in DOMAIN text', Matches(n)'  PROVE n \in ToSet(printed')
        BY <3>1, <3>2, <3>3, <3>4, <4>1, <4>3 DEF StartLine
      <4>. QED  BY <4>2, <4>3 DEF KeptInv
    <3>5. CASE EndLine(line)
      <4>1. Append(lines, Current) \in Seq(Nat) /\ ToSet(lines) \subseteq ToSet(Append(lines, Current))
        BY <1>1, <3>1, InAppend DEF ParserTypeOK
      <4>2. /\ printed' \in Seq(Nat) /\ ToSet(printed) \subseteq ToSet(printed')
            /\ included = TRUE => ToSet(lines) \subseteq ToSet(printed')
        <5>. DEFINE block == Append(lines, Current)
        <5>1. printed' = IF included THEN printed \o block ELSE printed
          BY <3>5 DEF EndLine, Flush
        <5>. HIDE DEF block
        <5>2. printed \in Seq(Nat) /\ block \in Seq(Nat) /\ ToSet(lines) \subseteq ToSet(block)
          BY <1>1, <4>1 DEF ParserTypeOK, block
        <5>3. printed \o block \in Seq(Nat) /\ ToSet(printed \o block) = ToSet(printed) \cup ToSet(block)
          BY <5>2, InConcat
        <5>. QED  BY <5>1, <5>2, <5>3
      <4>3. ParserTypeOK'
        <5>1. lines' \in Seq(Nat)
          BY <3>1, <3>5 DEF EndLine
        <5>2. started' \in BOOLEAN /\ included' \in BOOLEAN
          BY <1>1, <3>5 DEF EndLine, ParserTypeOK
        <5>. QED  BY <1>1, <3>1, <4>2, <5>1, <5>2 DEF ParserTypeOK
      <4>4. ASSUME NEW n \in DOMAIN text', Matches(n)'  PROVE n \in ToSet(printed')
        BY <3>1, <3>2, <3>3, <3>5, <4>2, <4>4 DEF EndLine
      <4>. QED  BY <4>3, <4>4 DEF KeptInv
    <3>6. CASE TextLine(line) /\ started
      <4>1. /\ started = TRUE /\ UNCHANGED <<started, printed>>
            /\ included' = (included \/ Hits(line) # {})
            /\ lines' = Append(lines, Current)
        BY <1>1, <3>6 DEF TextLine, ParserTypeOK
      <4>2. lines' \in Seq(Nat) /\ ToSet(lines) \cup {Current} \subseteq ToSet(lines')
        BY <1>1, <3>1, <4>1, InAppend DEF ParserTypeOK
      <4>3. included' \in BOOLEAN /\ (included = TRUE \/ Hits(line) # {} => included' = TRUE)
        BY <4>1
      <4>4. ParserTypeOK'
        BY <1>1, <3>1, <4>1, <4>2, <4>3 DEF ParserTypeOK
      <4>5. ASSUME NEW n \in DOMAIN text', Matches(n)'
            PROVE  n \in ToSet(printed') \/ (started' = TRUE /\ included' = TRUE /\ n \in ToSet(lines'))
        <5>1. CASE n \in DOMAIN text
          BY <3>2, <4>1, <4>2, <4>3, <4>5, <5>1
        <5>2. CASE n = Current
          BY <3>3, <4>1, <4>2, <4>3, <4>5, <5>2
        <5>. QED  BY <3>1, <5>1, <5>2
      <4>. QED  BY <4>4, <4>5 DEF KeptInv
    <3>7. CASE TextLine(line) /\ ~started
      <4>. DEFINE copies == [i \in 1..Cardinality(Hits(line)) |-> Current]
      <4>1. /\ started = FALSE /\ UNCHANGED <<started, included, lines>>
            /\ printed' = printed \o copies
        BY <1>1, <3>7 DEF TextLine, ParserTypeOK
      <4>2. copies \in Seq(Nat) /\ (Hits(line) # {} => Current \in ToSet(copies))
        <5>1. CASE Hits(line) = {}
          BY <5>1, FS_EmptySet
        <5>2. CASE Hits(line) # {}
          <6>1. Cardinality(Hits(line)) \in Nat \ {0}
            BY <1>1, <5>2, HitsCount DEF ParserTypeOK
          <6>2. copies[1] = Current /\ 1 \in DOMAIN copies
            BY <6>1
          <6>. QED  BY <3>1, <6>1, <6>2 DEF ToSet
        <5>. QED  BY <5>1, <5>2
      <4>. HIDE DEF copies
      <4>3. /\ printed' \in Seq(Nat) /\ ToSet(printed) \subseteq ToSet(printed')
            /\ Hits(line) # {} => Current \in ToSet(printed')
        BY <1>1, <4>1, <4>2, InConcat DEF ParserTypeOK
      <4>4. ParserTypeOK'
        BY <1>1, <3>1, <4>1, <4>3 DEF ParserTypeOK
      <4>5. ASSUME NEW n \in DOMAIN text', Matches(n)'  PROVE n \in ToSet(printed')
        BY <3>1, <3>2, <3>3, <4>1, <4>3, <4>5
      <4>. QED  BY <4>4, <4>5 DEF KeptInv
    <3>. QED  BY <2>4, <3>4, <3>5, <3>6, <3>7
  <2>5. CASE ReadLine
    BY <2>4, <2>5 DEF ReadLine
  <2>. QED  BY <2>1, <2>2, <2>3, <2>5 DEF ParserNext
<1>. QED  BY <1>0, <1>1 DEF ParserInv

\* What matches is printed, or pending.
LEMMA ParserPromise == ParserInv => NothingLost
BY DEF ParserInv, NoParser, KeptInv, NothingLost

-----------------------------------------------------------------------------
(* TextParser: what is printed, and in which order.                        *)

\* The block the parser is in, found in the text.
OpenBlock == {s \in DOMAIN text : IsStart(text[s]) /\ \A k \in (s + 1)..Len(text) : IsText(k)}

\* The lines from s to last.
FromTo(new, s, last) == Len(new) = last + 1 - s /\ \A k \in DOMAIN new : new[k] = s + k - 1

\* As long as the parser reads, the pending lines are the open block from its
\* start to the last line read, behind everything that is printed.
PendingInv == parsing \in {"ini", "reading"} =>
  /\ started = FALSE => lines = <<>> /\ OpenBlock = {}
  /\ started = TRUE => \E s \in OpenBlock :
       /\ OpenBlock = {s} /\ FromTo(lines, s, Len(text)) /\ (included = TRUE <=> Wanted(s))
       /\ \A i \in DOMAIN printed : printed[i] < s

\* What PrintedOnPurpose asks of a line: a reason, and a number of times.
OnPurpose(n) == \/ BlockOf(n) = {} /\ (Matches(n) \/ ~IsText(n))
                \/ \E s \in BlockOf(n) : Wanted(s)

Times(n) == IF BlockOf(n) = {} /\ IsText(n) THEN Cardinality(text[n].hits \cap Filters) ELSE 1

\* What is printed has been read, and was asked for.
PrintedInv == \A i \in DOMAIN printed : \E n \in DOMAIN text :
  /\ printed[i] = n /\ OnPurpose(n)
  /\ \A j \in 1..(i - 1) : printed[j] <= n
  /\ Cardinality({j \in DOMAIN printed : printed[j] = n}) = Times(n)

\* The lines up to last of the block that begins with line s lie together in
\* the output.
Together(s, last) ==
  LET here == {i \in DOMAIN printed : printed[i] \in s..last} IN
  \E first \in DOMAIN printed : /\ here = first..(first + last - s)
                                /\ \A i \in here : printed[i] = s + i - first

\* A block that is over has a last line, and is printed when it is wanted.
WholeInv == \A s \in DOMAIN text : IsStart(text[s]) /\ s \notin OpenBlock =>
  \E last \in s..Len(text) : Members(s) = s..last /\ (Wanted(s) => Together(s, last))

BlocksInv == NoParser \/ (ParserTypeOK /\ PendingInv /\ PrintedInv /\ WholeInv)

\* Line number c is read, and it is line.
Reads(line, c) == /\ text \in Seq(TextLines) /\ line \in TextLines
                  /\ text' = Append(text, line) /\ c = Len(text) + 1
                  /\ ini' = ini

\* The lines new are printed.
Prints(new) == printed \in Seq(Nat) /\ new \in Seq(Nat) /\ printed' = printed \o new

\* A line that is read is behind the others and changes nothing about them.
LEMMA LineRead ==
  ASSUME text \in Seq(TextLines), NEW line \in TextLines, text' = Append(text, line), ini' = ini,
         NEW c \in Nat, c = Len(text) + 1
  PROVE  /\ Len(text) \in Nat /\ DOMAIN text = 1..Len(text)
         /\ Len(text') = c /\ DOMAIN text' = DOMAIN text \cup {c}
         /\ text'[c] = line /\ (IsText(c)' <=> ~IsStart(line) /\ ~IsEnd(line))
         /\ (Matches(c)' <=> ~IsStart(line) /\ ~IsEnd(line) /\ Hits(line) # {})
         /\ \A n \in DOMAIN text : /\ text'[n] = text[n]
                                   /\ IsText(n)' <=> IsText(n)
                                   /\ Matches(n)' <=> Matches(n)
<1>1. /\ Len(text) \in Nat /\ DOMAIN text = 1..Len(text)
      /\ Len(text') = c /\ DOMAIN text' = DOMAIN text \cup {c}
      /\ text'[c] = line /\ \A n \in DOMAIN text : text'[n] = text[n]
  BY AppendProperties
<1>2. /\ IsText(c)' <=> ~IsStart(line) /\ ~IsEnd(line)
      /\ \A n \in DOMAIN text : IsText(n)' <=> IsText(n)
  BY <1>1 DEF IsText, IsStart, IsEnd
<1>3. /\ Matches(c)' <=> ~IsStart(line) /\ ~IsEnd(line) /\ Hits(line) # {}
      /\ \A n \in DOMAIN text : Matches(n)' <=> Matches(n)
  BY <1>1, <1>2 DEF Matches, Hits, Filters
<1>. QED  BY <1>1, <1>2, <1>3

\* The lines before it lie in the blocks they lay in; the line itself begins a
\* block or lies in the open one.
LEMMA BlocksStay ==
  ASSUME text \in Seq(TextLines), NEW line \in TextLines, text' = Append(text, line), ini' = ini,
         NEW c \in Nat, c = Len(text) + 1
  PROVE  /\ \A n \in DOMAIN text : BlockOf(n)' = BlockOf(n)
         /\ BlockOf(c)' = IF IsStart(line) THEN {c} ELSE OpenBlock
         /\ OpenBlock' = IF IsStart(line) THEN {c} ELSE IF IsEnd(line) THEN {} ELSE OpenBlock
<1>1. ASSUME NEW n \in DOMAIN text  PROVE BlockOf(n)' = BlockOf(n)
  BY <1>1, LineRead DEF BlockOf, IsEnd
<1>2. BlockOf(c)' = IF IsStart(line) THEN {c} ELSE OpenBlock
  <2>1. c \in BlockOf(c)' <=> IsStart(line)
    BY LineRead DEF BlockOf
  <2>2. ASSUME NEW s \in DOMAIN text
        PROVE  s \in BlockOf(c)' <=> ~IsStart(line) /\ s \in OpenBlock
    <3>1. ASSUME s \in BlockOf(c)'  PROVE ~IsStart(line) /\ s \in OpenBlock
      <4>1. IsStart(text[s]) /\ ~IsStart(line) /\ \A k \in (s + 1)..Len(text) : ~IsStart(text[k])
        BY <3>1, LineRead DEF BlockOf
      <4>2. \A k \in s..Len(text) : ~IsEnd(text[k])
        BY <3>1, LineRead DEF BlockOf, IsEnd
      <4>. QED  BY <4>1, <4>2, LineRead DEF OpenBlock, IsText
    <3>2. ASSUME ~IsStart(line), s \in OpenBlock  PROVE s \in BlockOf(c)'
      <4>1. IsStart(text[s]) /\ \A k \in (s + 1)..Len(text) : ~IsStart(text[k]) /\ ~IsEnd(text[k])
        BY <3>2 DEF OpenBlock, IsText
      <4>2. ~IsEnd(text[s])
        BY <4>1 DEF IsStart, IsEnd
      <4>3. s \in 1..c /\ IsStart(text'[s]) /\ \A k \in (s + 1)..c : ~IsStart(text'[k])
        BY <3>2, <4>1, LineRead
      <4>4. \A k \in s..(c - 1) : ~IsEnd(text[k])' 
        BY <4>1, <4>2, LineRead DEF IsEnd
      <4>. QED  BY <4>3, <4>4 DEF BlockOf
    <3>. QED  BY <3>1, <3>2
  <2>3. BlockOf(c)' \subseteq DOMAIN text \cup {c}
    BY LineRead DEF BlockOf
  <2>4. OpenBlock \subseteq DOMAIN text /\ c \notin DOMAIN text
    BY LineRead DEF OpenBlock
  <2>5. CASE IsStart(line)
    BY <2>1, <2>2, <2>3, <2>5
  <2>6. CASE ~IsStart(line)
    <3>1. BlockOf(c)' \subseteq OpenBlock /\ OpenBlock \subseteq BlockOf(c)'
      BY <2>1, <2>2, <2>3, <2>4, <2>6
    <3>. QED  BY <2>6, <3>1
  <2>. QED  BY <2>5, <2>6
<1>3. OpenBlock' = IF IsStart(line) THEN {c} ELSE IF IsEnd(line) THEN {} ELSE OpenBlock
  <2>1. c \in OpenBlock' <=> IsStart(line)
    BY LineRead DEF OpenBlock
  <2>2. ASSUME NEW s \in DOMAIN text
        PROVE  s \in OpenBlock' <=> ~IsStart(line) /\ ~IsEnd(line) /\ s \in OpenBlock
    BY LineRead DEF OpenBlock
  <2>3. OpenBlock' \subseteq DOMAIN text \cup {c} /\ c \notin DOMAIN text /\ OpenBlock \subseteq DOMAIN text
    BY LineRead DEF OpenBlock
  <2>4. IsStart(line) => ~IsEnd(line)
    BY DEF IsStart, IsEnd
  <2>5. CASE IsStart(line)
    BY <2>1, <2>2, <2>3, <2>5
  <2>6. CASE IsEnd(line)
    BY <2>1, <2>2, <2>3, <2>4, <2>6
  <2>7. CASE ~IsStart(line) /\ ~IsEnd(line)
    <3>1. OpenBlock' \subseteq OpenBlock /\ OpenBlock \subseteq OpenBlock'
      BY <2>1, <2>2, <2>3, <2>7
    <3>. QED  BY <2>7, <3>1
  <2>. QED  BY <2>5, <2>6, <2>7
<1>. QED  BY <1>1, <1>2, <1>3

\* The open block gets the line, unless a block begins with it; what is in a
\* block stays in it.
LEMMA MembersGrow ==
  ASSUME text \in Seq(TextLines), NEW line \in TextLines, text' = Append(text, line), ini' = ini,
         NEW c \in Nat, c = Len(text) + 1, NEW s \in DOMAIN text
  PROVE  /\ Members(s)' = IF s \in OpenBlock /\ ~IsStart(line) THEN Members(s) \cup {c} ELSE Members(s)
         /\ Wanted(s) => Wanted(s)'
         /\ Wanted(s)' => Wanted(s) \/ (Members(s)' # Members(s) /\ Matches(c)')
<1>1. Members(s) \subseteq DOMAIN text /\ c \notin Members(s)
  BY LineRead DEF Members
<1>2. Members(s)' = IF s \in OpenBlock /\ ~IsStart(line) THEN Members(s) \cup {c} ELSE Members(s)
  <2>1. \A n \in DOMAIN text : n \in Members(s)' <=> n \in Members(s)
    BY BlocksStay, LineRead DEF Members
  <2>2. c \in Members(s)' <=> s \in OpenBlock /\ ~IsStart(line)
    BY BlocksStay, LineRead DEF Members
  <2>3. Members(s)' \subseteq DOMAIN text \cup {c}
    BY LineRead DEF Members
  <2>4. CASE s \in OpenBlock /\ ~IsStart(line)
    BY <1>1, <2>1, <2>2, <2>3, <2>4
  <2>5. CASE ~(s \in OpenBlock /\ ~IsStart(line))
    <3>1. Members(s)' \subseteq Members(s) /\ Members(s) \subseteq Members(s)'
      BY <1>1, <2>1, <2>2, <2>3, <2>5
    <3>. QED  BY <2>5, <3>1
  <2>. QED  BY <2>4, <2>5
<1>. QED  BY <1>1, <1>2, LineRead DEF Wanted

\* The open block reaches to the last line read, and the blocks before it end
\* before it begins.
LEMMA OpenIsLast ==
  ASSUME text \in Seq(TextLines), NEW s \in OpenBlock
  PROVE  /\ s \in DOMAIN text /\ IsStart(text[s]) /\ Members(s) = s..Len(text)
         /\ \A r \in DOMAIN text, last \in DOMAIN text :
              IsStart(text[r]) /\ r # s /\ Members(r) = r..last => r < s /\ last < s
<1>1. /\ s \in DOMAIN text /\ DOMAIN text = 1..Len(text) /\ Len(text) \in Nat
      /\ IsStart(text[s]) /\ ~IsEnd(text[s])
      /\ \A k \in (s + 1)..Len(text) : ~IsStart(text[k]) /\ ~IsEnd(text[k])
  BY DEF OpenBlock, IsText, IsStart, IsEnd
<1>2. \A n \in s..Len(text) : s \in BlockOf(n)
  BY <1>1 DEF BlockOf
<1>3. ASSUME NEW r \in DOMAIN text, NEW last \in DOMAIN text,
             IsStart(text[r]), r # s, Members(r) = r..last
      PROVE  r < s /\ last < s
  <2>1. r < s
    BY <1>1, <1>3
  <2>2. s \notin Members(r)
    BY <1>1, <2>1 DEF Members, BlockOf
  <2>. QED  BY <1>1, <1>3, <2>1, <2>2
<1>. QED  BY <1>1, <1>2, <1>3 DEF Members

\* Numbers put behind smaller ones: none of either is met among the others.
LEMMA PrintBehind ==
  ASSUME NEW p \in Seq(Nat), NEW q \in Seq(Nat), \A i \in DOMAIN p, j \in DOMAIN q : p[i] < q[j]
  PROVE  /\ DOMAIN (p \o q) = 1..(Len(p) + Len(q))
         /\ \A i \in DOMAIN p : /\ (p \o q)[i] = p[i]
                                /\ {j \in DOMAIN (p \o q) : (p \o q)[j] = p[i]} = {j \in DOMAIN p : p[j] = p[i]}
         /\ \A k \in DOMAIN q : /\ (p \o q)[Len(p) + k] = q[k]
                                /\ \A j \in DOMAIN (p \o q) : (p \o q)[j] = q[k] =>
                                     j - Len(p) \in DOMAIN q /\ q[j - Len(p)] = q[k]
<1>1. /\ Len(p) \in Nat /\ Len(q) \in Nat /\ DOMAIN p = 1..Len(p) /\ DOMAIN q = 1..Len(q)
      /\ \A i \in DOMAIN p : p[i] \in Nat
      /\ \A i \in DOMAIN q : q[i] \in Nat
  OBVIOUS
<1>2. PICK r : r = p \o q
  OBVIOUS
<1>3. /\ DOMAIN r = 1..(Len(p) + Len(q))
      /\ \A i \in DOMAIN p : r[i] = p[i]
      /\ \A k \in DOMAIN q : r[Len(p) + k] = q[k]
  BY <1>1, <1>2, ConcatProperties
<1>4. \A j \in DOMAIN r : j \in DOMAIN p \/ (j - Len(p) \in DOMAIN q /\ r[j] = q[j - Len(p)])
  <2>1. ASSUME NEW j \in DOMAIN r, j \notin DOMAIN p  PROVE j - Len(p) \in DOMAIN q /\ r[j] = q[j - Len(p)]
    <3>1. j - Len(p) \in DOMAIN q /\ j = Len(p) + (j - Len(p))
      BY <1>1, <1>3, <2>1
    <3>. QED  BY <1>3, <3>1
  <2>. QED  BY <2>1
<1>5. ASSUME NEW i \in DOMAIN p  PROVE {j \in DOMAIN r : r[j] = p[i]} = {j \in DOMAIN p : p[j] = p[i]}
  <2>1. ASSUME NEW j \in DOMAIN r, r[j] = p[i]  PROVE j \in DOMAIN p
    BY <1>1, <1>4, <2>1
  <2>. QED  BY <1>1, <1>3, <2>1
<1>6. ASSUME NEW k \in DOMAIN q, NEW j \in DOMAIN r, r[j] = q[k]
      PROVE  j - Len(p) \in DOMAIN q /\ q[j - Len(p)] = q[k]
  <2>1. j \notin DOMAIN p
    BY <1>1, <1>3, <1>6
  <2>. QED  BY <1>4, <1>6, <2>1
<1>. QED  BY <1>2, <1>3, <1>5, <1>6

\* What is printed behind the rest for a purpose keeps PrintedInv.
LEMMA PurposeKept ==
  ASSUME PrintedInv, NEW line, NEW c \in Nat, Reads(line, c), NEW new, Prints(new),
         \A i \in DOMAIN printed, k \in DOMAIN new : printed[i] < new[k],
         \A k \in DOMAIN new : /\ new[k] \in DOMAIN text \cup {c} /\ OnPurpose(new[k])'
                               /\ \A l \in 1..(k - 1) : new[l] <= new[k]
                               /\ \E a, b \in Nat : /\ {j \in DOMAIN new : new[j] = new[k]} = a..b
                                                    /\ a <= b + 1 /\ b + 1 - a = Times(new[k])'
  PROVE  PrintedInv'
<1>1. ASSUME NEW n \in DOMAIN text  PROVE Times(n)' = Times(n) /\ (OnPurpose(n) => OnPurpose(n)')
  <2>1. /\ BlockOf(n)' = BlockOf(n) /\ text'[n] = text[n] /\ Filters' = Filters
        /\ IsText(n)' <=> IsText(n)
        /\ Matches(n)' <=> Matches(n)
    BY LineRead, BlocksStay DEF Filters, Reads
  <2>2. Times(n)' = Times(n)
    BY <2>1 DEF Times
  <2>3. \A s \in BlockOf(n) : s \in DOMAIN text
    BY LineRead DEF BlockOf, Reads
  <2>4. \A s \in BlockOf(n) : Wanted(s) => Wanted(s)'
    BY <2>3, MembersGrow DEF Reads
  <2>. QED  BY <2>1, <2>2, <2>4 DEF OnPurpose
<1>2. \A i \in DOMAIN printed :
        /\ printed[i] \in DOMAIN text /\ OnPurpose(printed[i])
        /\ \A j \in 1..(i - 1) : printed[j] <= printed[i]
        /\ Cardinality({j \in DOMAIN printed : printed[j] = printed[i]}) = Times(printed[i])
  BY DEF PrintedInv
<1>3. PICK p \in Seq(Nat) : p = printed
  BY DEF Prints
<1>4. PICK r : r = printed'
  OBVIOUS
<1>5. r = p \o new /\ new \in Seq(Nat)
  BY <1>3, <1>4 DEF Prints
<1>6. \A i \in DOMAIN p, k \in DOMAIN new : p[i] < new[k]
  BY <1>3
<1>7. /\ DOMAIN r = 1..(Len(p) + Len(new))
      /\ \A i \in DOMAIN p : r[i] = p[i] /\ {j \in DOMAIN r : r[j] = p[i]} = {j \in DOMAIN p : p[j] = p[i]}
      /\ \A k \in DOMAIN new : /\ r[Len(p) + k] = new[k]
                               /\ \A j \in DOMAIN r : r[j] = new[k] =>
                                    j - Len(p) \in DOMAIN new /\ new[j - Len(p)] = new[k]
  <2>1. /\ DOMAIN (p \o new) = 1..(Len(p) + Len(new))
        /\ \A i \in DOMAIN p : /\ (p \o new)[i] = p[i]
                               /\ {j \in DOMAIN (p \o new) : (p \o new)[j] = p[i]} = {j \in DOMAIN p : p[j] = p[i]}
        /\ \A k \in DOMAIN new : /\ (p \o new)[Len(p) + k] = new[k]
                                 /\ \A j \in DOMAIN (p \o new) : (p \o new)[j] = new[k] =>
                                      j - Len(p) \in DOMAIN new /\ new[j - Len(p)] = new[k]
    BY <1>5, <1>6, PrintBehind
  <2>. QED  BY <1>5, <2>1
<1>8. /\ Len(p) \in Nat /\ Len(new) \in Nat /\ DOMAIN p = 1..Len(p) /\ DOMAIN new = 1..Len(new)
      /\ \A i \in DOMAIN p : p[i] \in Nat
      /\ \A k \in DOMAIN new : new[k] \in Nat
  BY <1>5
<1>9. \A i \in DOMAIN r : i \in DOMAIN p \/ \E k \in DOMAIN new : i = Len(p) + k
  <2>1. ASSUME NEW i \in DOMAIN r, i \notin DOMAIN p  PROVE i - Len(p) \in DOMAIN new /\ i = Len(p) + (i - Len(p))
    BY <1>7, <1>8, <2>1
  <2>. QED  BY <2>1
<1>10. ASSUME NEW i \in DOMAIN r, NEW n, n = r[i]
       PROVE  /\ n \in DOMAIN text \cup {c} /\ OnPurpose(n)'
              /\ \A j \in 1..(i - 1) : r[j] <= n
              /\ Cardinality({j \in DOMAIN r : r[j] = n}) = Times(n)'
  <2>1. CASE i \in DOMAIN p
    <3>1. n \in DOMAIN text /\ OnPurpose(n)' /\ Times(n)' = Times(n)
      BY <1>1, <1>2, <1>3, <1>7, <1>10, <2>1
    <3>2. ASSUME NEW j \in 1..(i - 1)  PROVE r[j] <= n
      <4>1. j \in DOMAIN p
        BY <1>8, <2>1, <3>2
      <4>2. p[j] <= p[i]
        BY <1>2, <1>3, <2>1, <3>2
      <4>. QED  BY <1>7, <1>10, <2>1, <4>1, <4>2
    <3>3. Cardinality({j \in DOMAIN r : r[j] = n}) = Times(n)
      BY <1>2, <1>3, <1>7, <1>10, <2>1
    <3>. QED  BY <3>1, <3>2, <3>3
  <2>2. ASSUME NEW k \in DOMAIN new, i = Len(p) + k
        PROVE  /\ n \in DOMAIN text \cup {c} /\ OnPurpose(n)'
               /\ \A j \in 1..(i - 1) : r[j] <= n
               /\ Cardinality({j \in DOMAIN r : r[j] = n}) = Times(n)'
    <3>1. n = new[k]
      BY <1>7, <1>10, <2>2
    <3>2. ASSUME NEW j \in 1..(i - 1)  PROVE r[j] <= n
      <4>1. CASE j \in DOMAIN p
        BY <1>6, <1>7, <1>8, <3>1, <4>1
      <4>2. ASSUME NEW l \in DOMAIN new, j = Len(p) + l  PROVE r[j] <= n
        <5>1. r[j] = new[l]
          BY <1>7, <4>2
        <5>2. l \in 1..(k - 1)
          BY <1>8, <2>2, <3>2, <4>2
        <5>. QED  BY <3>1, <5>1, <5>2
      <4>3. j \in DOMAIN r
        BY <1>7, <1>8, <3>2
      <4>. QED  BY <1>9, <4>1, <4>2, <4>3
    <3>3. PICK a \in Nat, b \in Nat : /\ {j \in DOMAIN new : new[j] = new[k]} = a..b
                                      /\ a <= b + 1 /\ b + 1 - a = Times(new[k])'
      OBVIOUS
    <3>4. {j \in DOMAIN r : r[j] = n} = (Len(p) + a)..(Len(p) + b)
      <4>1. ASSUME NEW j \in DOMAIN r, r[j] = n  PROVE j \in (Len(p) + a)..(Len(p) + b)
        <5>1. j - Len(p) \in a..b
          BY <1>7, <3>1, <3>3, <4>1
        <5>2. j \in Int /\ Len(p) \in Nat
          BY <1>7, <1>8
        <5>. QED  BY <5>1, <5>2
      <4>2. ASSUME NEW j \in (Len(p) + a)..(Len(p) + b)  PROVE j \in DOMAIN r /\ r[j] = n
        <5>1. PICK l \in a..b : j = Len(p) + l
          <6>1. j - Len(p) \in a..b /\ j = Len(p) + (j - Len(p))
            BY <1>8, <4>2
          <6>. QED  BY <6>1
        <5>2. l \in DOMAIN new /\ new[l] = new[k]
          BY <3>3
        <5>3. r[j] = new[l]
          BY <1>7, <5>1, <5>2
        <5>4. j \in 1..(Len(p) + Len(new))
          <6>1. Len(p) \in Nat /\ Len(new) \in Nat /\ l \in 1..Len(new)
            BY <1>8, <5>2
          <6>. QED  BY <5>1, <6>1
        <5>. QED  BY <1>7, <3>1, <5>2, <5>3, <5>4
      <4>. QED  BY <4>1, <4>2
    <3>5. Cardinality((Len(p) + a)..(Len(p) + b)) = b + 1 - a
      <4>1. Len(p) + a \in Int /\ Len(p) + b \in Int
        BY <1>8
      <4>2. Cardinality((Len(p) + a)..(Len(p) + b)) =
              IF Len(p) + a > Len(p) + b THEN 0 ELSE (Len(p) + b) - (Len(p) + a) + 1
        BY <4>1, FS_Interval
      <4>. QED  BY <1>8, <3>3, <4>2
    <3>. QED  BY <3>1, <3>2, <3>3, <3>4, <3>5
  <2>. QED  BY <1>9, <2>1, <2>2
<1>11. DOMAIN text' = DOMAIN text \cup {c}
  BY LineRead DEF Reads
<1>12. ASSUME NEW i \in DOMAIN printed'
       PROVE  \E n \in DOMAIN text' :
                /\ printed'[i] = n /\ OnPurpose(n)'
                /\ \A j \in 1..(i - 1) : printed'[j] <= n
                /\ Cardinality({j \in DOMAIN printed' : printed'[j] = n}) = Times(n)'
  <2>1. PICK n : n = r[i]
    OBVIOUS
  <2>2. /\ n \in DOMAIN text \cup {c} /\ OnPurpose(n)'
        /\ \A j \in 1..(i - 1) : r[j] <= n
        /\ Cardinality({j \in DOMAIN r : r[j] = n}) = Times(n)'
    BY <1>4, <1>10, <2>1
  <2>3. n \in DOMAIN text' /\ printed'[i] = n
    BY <1>4, <1>11, <2>1, <2>2
  <2>. QED  BY <1>4, <2>2, <2>3
<1>. QED  BY <1>12 DEF PrintedInv

\* What lies together stays so when lines behind it are printed.
LEMMA TogetherKept ==
  ASSUME NEW new, Prints(new), NEW s \in Nat, NEW last \in Nat, Together(s, last),
         \A k \in DOMAIN new : last < new[k]
  PROVE  Together(s, last)'
<1>1. PICK p, r : p \in Seq(Nat) /\ p = printed /\ r = printed' /\ r = p \o new /\ new \in Seq(Nat)
  BY DEF Prints
<1>2. /\ DOMAIN r = 1..(Len(p) + Len(new)) /\ DOMAIN p = 1..Len(p) /\ Len(p) \in Nat /\ Len(new) \in Nat
      /\ \A i \in DOMAIN p : r[i] = p[i]
      /\ \A k \in DOMAIN new : r[Len(p) + k] = new[k] /\ new[k] \in Nat
  BY <1>1, ConcatProperties
<1>3. PICK first \in DOMAIN p :
        /\ {i \in DOMAIN p : p[i] \in s..last} = first..(first + last - s)
        /\ \A i \in {i \in DOMAIN p : p[i] \in s..last} : p[i] = s + i - first
  BY <1>1 DEF Together
<1>4. ASSUME NEW i \in DOMAIN r, r[i] \in s..last  PROVE i \in DOMAIN p
  <2>1. ASSUME i \notin DOMAIN p  PROVE FALSE
    <3>1. PICK k \in DOMAIN new : i = Len(p) + k
      <4>1. i - Len(p) \in DOMAIN new /\ i = Len(p) + (i - Len(p))
        BY <1>2, <2>1
      <4>. QED  BY <4>1
    <3>2. last < r[i] /\ r[i] \in Nat
      BY <1>2, <3>1
    <3>. QED  BY <1>4, <3>2
  <2>. QED  BY <2>1
<1>5. {i \in DOMAIN r : r[i] \in s..last} = {i \in DOMAIN p : p[i] \in s..last}
  BY <1>2, <1>4
<1>6. first \in DOMAIN r /\ \A i \in {i \in DOMAIN r : r[i] \in s..last} : r[i] = s + i - first
  BY <1>2, <1>3, <1>5
<1>. QED  BY <1>1, <1>3, <1>5, <1>6 DEF Together

\* Consecutive lines printed behind smaller ones lie together.
LEMMA TogetherNew ==
  ASSUME NEW new, Prints(new), NEW s \in Nat, NEW last \in Nat, s <= last, FromTo(new, s, last),
         \A i \in DOMAIN printed : printed[i] < s
  PROVE  Together(s, last)'
<1>1. PICK p, r : p \in Seq(Nat) /\ p = printed /\ r = printed' /\ r = p \o new /\ new \in Seq(Nat)
  BY DEF Prints
<1>2. /\ DOMAIN r = 1..(Len(p) + Len(new)) /\ DOMAIN p = 1..Len(p) /\ Len(p) \in Nat /\ Len(new) \in Nat
      /\ \A i \in DOMAIN p : r[i] = p[i]
      /\ \A k \in DOMAIN new : r[Len(p) + k] = new[k] /\ new[k] = s + k - 1
      /\ DOMAIN new = 1..Len(new) /\ Len(new) = last + 1 - s
  <2>1. /\ DOMAIN r = 1..(Len(p) + Len(new)) /\ DOMAIN p = 1..Len(p) /\ Len(p) \in Nat /\ Len(new) \in Nat
        /\ \A i \in DOMAIN p : r[i] = p[i]
        /\ \A k \in DOMAIN new : r[Len(p) + k] = new[k]
    BY <1>1, ConcatProperties
  <2>2. DOMAIN new = 1..Len(new)
    BY <1>1
  <2>. QED  BY <2>1, <2>2 DEF FromTo
<1>3. PICK first \in Nat : first = Len(p) + 1
  BY <1>2
<1>4. ASSUME NEW i \in first..(first + last - s)  PROVE i \in DOMAIN r /\ r[i] = s + i - first
  <2>1. PICK k \in DOMAIN new : i = Len(p) + k
    <3>1. i - Len(p) \in DOMAIN new /\ i = Len(p) + (i - Len(p))
      BY <1>2, <1>3
    <3>. QED  BY <3>1
  <2>2. r[i] = new[k] /\ new[k] = s + k - 1 /\ k \in Nat
    BY <1>2, <2>1
  <2>3. i \in 1..(Len(p) + Len(new))
    BY <1>2, <1>3
  <2>. QED  BY <1>2, <1>3, <2>1, <2>2, <2>3
<1>5. ASSUME NEW i \in DOMAIN r, r[i] \in s..last  PROVE i \in first..(first + last - s)
  <2>1. i \notin DOMAIN p
    BY <1>1, <1>2, <1>5
  <2>. QED  BY <1>2, <1>3, <2>1
<1>6. {i \in DOMAIN r : r[i] \in s..last} = first..(first + last - s)
  <2>1. ASSUME NEW i \in first..(first + last - s)  PROVE r[i] \in s..last
    BY <1>3, <1>4
  <2>. QED  BY <1>4, <1>5, <2>1
<1>7. first \in DOMAIN r
  <2>1. first \in first..(first + last - s)
    BY <1>3
  <2>. QED  BY <1>4, <2>1
<1>. QED  BY <1>1, <1>4, <1>6, <1>7 DEF Together

\* Consecutive numbers are increasing ones.
LEMMA Consecutive ==
  ASSUME NEW s \in Nat, NEW last \in Nat, s <= last, NEW new \in Seq(Nat), FromTo(new, s, last)
  PROVE  \A k \in DOMAIN new :
           /\ k \in Nat \ {0} /\ k <= k + 1 /\ k + 1 - k = 1
           /\ new[k] \in s..last /\ \A n \in Nat : n < s => n < new[k]
           /\ \A l \in 1..(k - 1) : new[l] <= new[k]
           /\ k..k = {k} /\ \A j \in DOMAIN new : new[j] = new[k] => j = k
<1>1. DOMAIN new = 1..(last + 1 - s) /\ \A k \in DOMAIN new : new[k] = s + k - 1
  BY DEF FromTo
<1>2. ASSUME NEW k \in DOMAIN new
      PROVE  /\ k \in Nat \ {0} /\ k <= k + 1 /\ k + 1 - k = 1
             /\ new[k] \in s..last /\ \A n \in Nat : n < s => n < new[k]
  <2>1. k \in 1..(last + 1 - s) /\ new[k] = s + k - 1
    BY <1>1
  <2>. QED  BY <2>1
<1>3. ASSUME NEW k \in DOMAIN new, NEW l \in 1..(k - 1)  PROVE new[l] <= new[k]
  <2>1. l \in DOMAIN new /\ l < k /\ k \in Nat
    BY <1>1
  <2>2. new[l] = s + l - 1 /\ new[k] = s + k - 1
    BY <1>1, <2>1
  <2>. QED  BY <2>1, <2>2
<1>4. ASSUME NEW k \in DOMAIN new  PROVE k..k = {k} /\ \A j \in DOMAIN new : new[j] = new[k] => j = k
  <2>1. ASSUME NEW j \in DOMAIN new  PROVE new[j] = new[k] <=> j = k
    <3>1. j \in Nat /\ k \in Nat /\ new[j] = s + j - 1 /\ new[k] = s + k - 1
      BY <1>1
    <3>. QED  BY <3>1
  <2>2. k..k = {k}
    BY <1>1
  <2>. QED  BY <2>1, <2>2
<1>. QED  BY <1>2, <1>3, <1>4

\* A whole wanted block is printed, with the line just read or without.
LEMMA BlockPrinted ==
  ASSUME PrintedInv, NEW line, NEW c \in Nat, Reads(line, c), NEW s \in OpenBlock, Wanted(s)',
         NEW last, last = Len(text) \/ (last = c /\ ~IsStart(line)),
         NEW new, Prints(new), FromTo(new, s, last), \A i \in DOMAIN printed : printed[i] < s
  PROVE  PrintedInv' /\ Together(s, last)'
<1>1. /\ s \in DOMAIN text /\ Members(s) = s..Len(text) /\ DOMAIN text = 1..Len(text)
      /\ Len(text) \in Nat /\ c = Len(text) + 1
  BY OpenIsLast, LineRead DEF Reads
<1>2. s \in Nat /\ last \in Nat /\ s <= last
  BY <1>1
<1>3. \A k \in DOMAIN new :
        /\ k \in Nat \ {0} /\ k <= k + 1 /\ k + 1 - k = 1
        /\ new[k] \in s..last /\ \A n \in Nat : n < s => n < new[k]
        /\ \A l \in 1..(k - 1) : new[l] <= new[k]
        /\ k..k = {k} /\ \A j \in DOMAIN new : new[j] = new[k] => j = k
  <2>1. new \in Seq(Nat)
    BY DEF Prints
  <2>. QED  BY <1>2, <2>1, Consecutive
<1>4. ASSUME NEW n \in s..last
      PROVE  n \in DOMAIN text \cup {c} /\ OnPurpose(n)' /\ Times(n)' = 1
  <2>1. n \in s..Len(text) \/ (n = c /\ ~IsStart(line))
    BY <1>1
  <2>2. s \in BlockOf(n)'
    <3>1. CASE n \in s..Len(text)
      <4>1. n \in DOMAIN text /\ s \in BlockOf(n)
        BY <1>1, <3>1 DEF Members
      <4>. QED  BY <4>1, BlocksStay DEF Reads
    <3>2. CASE n = c /\ ~IsStart(line)
      BY <3>2, BlocksStay DEF Reads
    <3>. QED  BY <2>1, <3>1, <3>2
  <2>3. OnPurpose(n)' /\ Times(n)' = 1
    BY <2>2 DEF OnPurpose, Times
  <2>. QED  BY <1>1, <2>1, <2>3
<1>5. \A i \in DOMAIN printed, k \in DOMAIN new : printed[i] < new[k]
  <2>1. \A i \in DOMAIN printed : printed[i] \in Nat
    BY DEF Prints
  <2>. QED  BY <1>3, <2>1
<1>6. ASSUME NEW k \in DOMAIN new
      PROVE  /\ new[k] \in DOMAIN text \cup {c} /\ OnPurpose(new[k])'
             /\ \A l \in 1..(k - 1) : new[l] <= new[k]
             /\ \E a, b \in Nat : /\ {j \in DOMAIN new : new[j] = new[k]} = a..b
                                  /\ a <= b + 1 /\ b + 1 - a = Times(new[k])'
  <2>1. PICK n : n = new[k]
    OBVIOUS
  <2>2. n \in DOMAIN text \cup {c} /\ OnPurpose(n)' /\ Times(n)' = 1
    BY <1>3, <1>4, <2>1
  <2>3. {j \in DOMAIN new : new[j] = n} = k..k
    <3>1. k..k = {k}
      BY <1>3
    <3>2. \A j \in DOMAIN new : new[j] = n <=> j = k
      BY <1>3, <2>1, <3>1
    <3>. QED  BY <3>1, <3>2
  <2>. QED  BY <1>3, <2>1, <2>2, <2>3
<1>7. PrintedInv'
  BY <1>5, <1>6, PurposeKept
<1>8. Together(s, last)'
  BY <1>2, TogetherNew
<1>. QED  BY <1>7, <1>8

\* Blocks that are over stay as they are, and what is printed behind them does
\* not part them.
LEMMA OldBlocksKept ==
  ASSUME WholeInv, NEW line, NEW c \in Nat, Reads(line, c), NEW new, Prints(new),
         \A k \in DOMAIN new : new[k] = c \/ \E s \in OpenBlock : s <= new[k],
         NEW r \in DOMAIN text, IsStart(text[r]), r \notin OpenBlock
  PROVE  \E last \in r..c : Members(r)' = r..last /\ (Wanted(r)' => Together(r, last)')
<1>1. PICK last \in r..Len(text) : Members(r) = r..last /\ (Wanted(r) => Together(r, last))
  BY DEF WholeInv
<1>2. /\ DOMAIN text = 1..Len(text) /\ Len(text) \in Nat /\ c = Len(text) + 1 /\ r \in Nat
      /\ text \in Seq(TextLines) /\ new \in Seq(Nat) /\ last \in Nat /\ last \in DOMAIN text
  BY <1>1 DEF Reads, Prints
<1>3. Members(r)' = r..last /\ (Wanted(r)' => Wanted(r))
  BY <1>1, MembersGrow DEF Reads
<1>4. ASSUME NEW k \in DOMAIN new  PROVE last < new[k]
  <2>1. new[k] \in Nat
    BY <1>2
  <2>2. CASE new[k] = c
    BY <1>1, <1>2, <2>2
  <2>3. ASSUME NEW s \in OpenBlock, s <= new[k]  PROVE last < new[k]
    <3>1. s \in DOMAIN text /\ last < s
      BY <1>1, <1>2, <2>3, OpenIsLast
    <3>. QED  BY <1>2, <2>1, <2>3, <3>1
  <2>. QED  BY <2>2, <2>3
<1>5. Wanted(r)' => Together(r, last)'
  BY <1>1, <1>2, <1>3, <1>4, TogetherKept
<1>6. last \in r..c
  BY <1>1, <1>2
<1>. QED  BY <1>3, <1>5, <1>6

\* So WholeInv is kept when the open block is printed as it ends, if wanted.
LEMMA WholeKept ==
  ASSUME WholeInv, NEW line, NEW c \in Nat, Reads(line, c), NEW new, Prints(new),
         \A k \in DOMAIN new : new[k] = c \/ \E s \in OpenBlock : s <= new[k],
         ASSUME NEW s \in OpenBlock, IsStart(line) \/ IsEnd(line)
         PROVE  \E last \in s..c : Members(s)' = s..last /\ (Wanted(s)' => Together(s, last)')
  PROVE  WholeInv'
<1>1. ASSUME NEW s \in DOMAIN text', IsStart(text'[s]), s \notin OpenBlock'
      PROVE  \E last \in s..Len(text') : Members(s)' = s..last /\ (Wanted(s)' => Together(s, last)')
  <2>1. /\ Len(text') = c /\ DOMAIN text' = DOMAIN text \cup {c} /\ text'[c] = line
        /\ \A n \in DOMAIN text : text'[n] = text[n]
        /\ OpenBlock' = IF IsStart(line) THEN {c} ELSE IF IsEnd(line) THEN {} ELSE OpenBlock
    BY LineRead, BlocksStay DEF Reads
  <2>2. s \in DOMAIN text /\ IsStart(text[s])
    BY <1>1, <2>1
  <2>3. CASE s \in OpenBlock
    BY <1>1, <2>1, <2>3
  <2>4. CASE s \notin OpenBlock
    BY <2>1, <2>2, <2>4, OldBlocksKept
  <2>. QED  BY <2>3, <2>4
<1>. QED  BY <1>1 DEF WholeInv

\* Nothing is printed.
LEMMA NothingPrinted ==
  ASSUME PrintedInv, NEW line, NEW c \in Nat, Reads(line, c), printed \in Seq(Nat), UNCHANGED printed
  PROVE  Prints(<<>>) /\ PrintedInv'
<1>1. printed \o <<>> = printed /\ <<>> \in Seq(Nat)
  OBVIOUS
<1>2. Prints(<<>>)
  BY <1>1 DEF Prints
<1>. QED  BY <1>2, PurposeKept

\* What is printed below c is below c.
LEMMA PrintsBelow ==
  ASSUME NEW new, Prints(new), NEW c \in Nat,
         \A i \in DOMAIN printed : printed[i] < c, \A k \in DOMAIN new : new[k] < c
  PROVE  \A i \in DOMAIN printed' : printed'[i] < c
<1>1. PICK p, r : p \in Seq(Nat) /\ p = printed /\ r = printed' /\ r = p \o new /\ new \in Seq(Nat)
  BY DEF Prints
<1>2. /\ DOMAIN r = 1..(Len(p) + Len(new)) /\ DOMAIN p = 1..Len(p) /\ Len(p) \in Nat /\ Len(new) \in Nat
      /\ \A i \in DOMAIN p : r[i] = p[i]
      /\ \A k \in DOMAIN new : r[Len(p) + k] = new[k]
  BY <1>1, ConcatProperties
<1>3. ASSUME NEW i \in DOMAIN r, i \notin DOMAIN p  PROVE r[i] < c
  <2>1. i - Len(p) \in DOMAIN new /\ i = Len(p) + (i - Len(p))
    BY <1>1, <1>2, <1>3
  <2>2. PICK k \in DOMAIN new : i = Len(p) + k
    BY <2>1
  <2>. QED  BY <1>2, <2>2
<1>. QED  BY <1>1, <1>2, <1>3

\* One more line.
LEMMA OneMoreLine ==
  ASSUME NEW l \in Seq(Nat), NEW s \in Nat, NEW t \in Nat, s <= t + 1, FromTo(l, s, t)
  PROVE  Append(l, t + 1) \in Seq(Nat) /\ FromTo(Append(l, t + 1), s, t + 1)
<1>1. PICK a : a = Append(l, t + 1)
  OBVIOUS
<1>2. a \in Seq(Nat) /\ Len(a) = Len(l) + 1 /\ a[Len(l) + 1] = t + 1 /\ \A i \in 1..Len(l) : a[i] = l[i]
  BY <1>1, AppendProperties
<1>3. Len(l) = t + 1 - s /\ \A k \in 1..Len(l) : l[k] = s + k - 1
  BY DEF FromTo
<1>4. ASSUME NEW k \in DOMAIN a  PROVE a[k] = s + k - 1
  <2>1. k \in 1..Len(l) \/ k = Len(l) + 1
    BY <1>2
  <2>. QED  BY <1>2, <1>3, <2>1
<1>. QED  BY <1>1, <1>2, <1>3, <1>4 DEF FromTo

\* A block begins; what was pending is printed if its block is wanted.
LEMMA BlockStarts ==
  ASSUME ParserTypeOK, PendingInv, PrintedInv, WholeInv,
         NEW line \in TextLines, Fgets(line), StartLine(line)
  PROVE  PendingInv' /\ PrintedInv' /\ WholeInv'
<1>0. PICK t \in Nat : t = Len(text)
  BY DEF ParserTypeOK
<1>1. PICK c \in Nat : c = Current /\ Reads(line, c)
  BY DEF Fgets, Current, Reads, ParserTypeOK
<1>2. /\ text \in Seq(TextLines) /\ DOMAIN text = 1..Len(text) /\ Len(text) \in Nat /\ c = Len(text) + 1
      /\ Len(text') = c /\ OpenBlock' = {c} /\ ~Matches(c)' /\ IsStart(line)
  BY <1>1, LineRead, BlocksStay DEF Reads, StartLine
<1>3. /\ lines \in Seq(Nat) /\ printed \in Seq(Nat) /\ started \in BOOLEAN /\ included \in BOOLEAN
      /\ printed' = IF included THEN printed \o lines ELSE printed
      /\ lines' = <<c>> /\ started' = TRUE /\ included' = FALSE
  BY <1>1 DEF StartLine, Flush, ParserTypeOK
<1>4. \E new : /\ Prints(new) /\ PrintedInv'
               /\ \A k \in DOMAIN new : new[k] < c /\ \E s \in OpenBlock : s <= new[k]
               /\ \A s \in OpenBlock : Wanted(s)' => Together(s, t)'
  <2>1. CASE started = FALSE
    <3>1. printed' = printed /\ OpenBlock = {}
      BY <1>3, <2>1 DEF PendingInv, Fgets
    <3>2. Prints(<<>>) /\ PrintedInv'
      BY <1>1, <1>3, <3>1, NothingPrinted
    <3>. QED  BY <3>1, <3>2
  <2>2. CASE started = TRUE
    <3>1. PICK s \in OpenBlock :
            /\ OpenBlock = {s} /\ FromTo(lines, s, Len(text)) /\ (included = TRUE <=> Wanted(s))
            /\ \A i \in DOMAIN printed : printed[i] < s
      BY <2>2 DEF PendingInv, Fgets
    <3>2. s \in DOMAIN text /\ s \in Nat /\ s <= Len(text)
      BY <1>2, OpenIsLast
    <3>3. Wanted(s)' <=> Wanted(s)
      BY <1>1, <1>2, <3>2, MembersGrow DEF Reads
    <3>4. CASE included = FALSE
      <4>1. printed' = printed
        BY <1>3, <3>4
      <4>2. Prints(<<>>) /\ PrintedInv'
        BY <1>1, <1>3, <4>1, NothingPrinted
      <4>3. ~Wanted(s)'
        BY <3>1, <3>3, <3>4
      <4>. QED  BY <3>1, <4>2, <4>3
    <3>5. CASE included = TRUE
      <4>1. PICK new : new = lines
        OBVIOUS
      <4>2. Prints(new) /\ FromTo(new, s, t)
        BY <1>0, <1>3, <3>1, <3>5, <4>1 DEF Prints
      <4>3. PrintedInv' /\ Together(s, t)'
        BY <1>0, <1>1, <3>1, <3>3, <3>5, <4>2, BlockPrinted
      <4>4. ASSUME NEW k \in DOMAIN new  PROVE new[k] \in s..t
        BY <1>0, <3>2, <4>2, Consecutive DEF Prints
      <4>5. ASSUME NEW k \in DOMAIN new  PROVE new[k] < c /\ s <= new[k]
        BY <1>0, <1>2, <3>2, <4>4
      <4>. QED  BY <3>1, <4>2, <4>3, <4>5
    <3>. QED  BY <1>3, <3>4, <3>5
  <2>. QED  BY <1>3, <2>1, <2>2
<1>5. PICK new : /\ Prints(new) /\ PrintedInv'
                 /\ \A k \in DOMAIN new : new[k] < c /\ \E s \in OpenBlock : s <= new[k]
                 /\ \A s \in OpenBlock : Wanted(s)' => Together(s, t)'
  BY <1>4
<1>6. ASSUME NEW s \in OpenBlock
      PROVE  \E last \in s..c : Members(s)' = s..last /\ (Wanted(s)' => Together(s, last)')
  <2>1. s \in DOMAIN text /\ Members(s) = s..t
    BY <1>0, <1>2, OpenIsLast
  <2>2. Members(s)' = s..t
    BY <1>1, <1>2, <2>1, MembersGrow DEF Reads
  <2>3. t \in s..c
    BY <1>0, <1>2, <2>1
  <2>. QED  BY <1>5, <2>2, <2>3
<1>7. WholeInv'
  BY <1>1, <1>5, <1>6, WholeKept
<1>8. PendingInv'
  <2>1. FromTo(lines', c, Len(text'))
    BY <1>2, <1>3 DEF FromTo
  <2>2. ~Wanted(c)'
    <3>1. Members(c)' \subseteq {c}
      BY <1>2 DEF Members
    <3>. QED  BY <1>2, <3>1 DEF Wanted
  <2>3. \A i \in DOMAIN printed : printed[i] < c
    <3>1. \A i \in DOMAIN printed : printed[i] \in DOMAIN text
      BY DEF PrintedInv
    <3>. QED  BY <1>2, <3>1
  <2>4. \A i \in DOMAIN printed' : printed'[i] < c
    BY <1>5, <2>3, PrintsBelow
  <2>. QED  BY <1>2, <1>3, <2>1, <2>2, <2>4 DEF PendingInv
<1>. QED  BY <1>5, <1>7, <1>8

\* A block ends, or a marker stands alone, which is printed when the block
\* before was.
LEMMA BlockEnds ==
  ASSUME ParserTypeOK, PendingInv, PrintedInv, WholeInv,
         NEW line \in TextLines, Fgets(line), EndLine(line)
  PROVE  PendingInv' /\ PrintedInv' /\ WholeInv'
<1>0. PICK t \in Nat : t = Len(text)
  BY DEF ParserTypeOK
<1>1. PICK c \in Nat : c = Current /\ Reads(line, c)
  BY DEF Fgets, Current, Reads, ParserTypeOK
<1>2. ~IsStart(line) /\ IsEnd(line)
  BY DEF EndLine, IsStart, IsEnd
<1>3. /\ text \in Seq(TextLines) /\ DOMAIN text = 1..t /\ c = t + 1
      /\ Len(text') = c /\ ~IsText(c)' /\ ~Matches(c)' /\ OpenBlock' = {} /\ BlockOf(c)' = OpenBlock
  BY <1>0, <1>1, <1>2, LineRead, BlocksStay DEF Reads
<1>4. /\ lines \in Seq(Nat) /\ printed \in Seq(Nat) /\ started \in BOOLEAN /\ included \in BOOLEAN
      /\ printed' = IF included THEN printed \o Append(lines, c) ELSE printed
      /\ lines' = <<>> /\ started' = FALSE
  BY <1>1 DEF EndLine, Flush, ParserTypeOK
<1>5. \E new : /\ Prints(new) /\ PrintedInv'
               /\ \A k \in DOMAIN new : new[k] = c \/ \E s \in OpenBlock : s <= new[k]
               /\ \A s \in OpenBlock : Wanted(s)' => Together(s, c)'
  <2>1. CASE included = FALSE
    <3>1. Prints(<<>>) /\ PrintedInv'
      BY <1>1, <1>4, <2>1, NothingPrinted
    <3>2. ASSUME NEW s \in OpenBlock  PROVE ~Wanted(s)'
      <4>1. started = TRUE /\ ~Wanted(s) /\ s \in DOMAIN text
        BY <1>0, <1>3, <1>4, <2>1, OpenIsLast DEF PendingInv, Fgets
      <4>. QED  BY <1>1, <1>3, <4>1, MembersGrow DEF Reads
    <3>. QED  BY <3>1, <3>2
  <2>2. CASE included = TRUE /\ started = FALSE
    <3>1. lines = <<>> /\ OpenBlock = {}
      BY <2>2 DEF PendingInv, Fgets
    <3>2. PICK new \in Seq(Nat) : new = <<c>>
      <4>1. <<c>> \in Seq(Nat)
        OBVIOUS
      <4>. QED  BY <4>1
    <3>3. Prints(new) /\ DOMAIN new = 1..1 /\ new[1] = c
      BY <1>4, <2>2, <3>1, <3>2 DEF Prints
    <3>4. OnPurpose(c)' /\ Times(c)' = 1
      BY <1>3, <3>1 DEF OnPurpose, Times
    <3>5. \A i \in DOMAIN printed : printed[i] \in DOMAIN text
      BY DEF PrintedInv
    <3>6. \A i \in DOMAIN printed, k \in DOMAIN new : printed[i] < new[k]
      BY <1>3, <3>3, <3>5
    <3>7. ASSUME NEW k \in DOMAIN new
          PROVE  /\ new[k] \in DOMAIN text \cup {c} /\ OnPurpose(new[k])'
                 /\ \A l \in 1..(k - 1) : new[l] <= new[k]
                 /\ \E a, b \in Nat : /\ {j \in DOMAIN new : new[j] = new[k]} = a..b
                                      /\ a <= b + 1 /\ b + 1 - a = Times(new[k])'
      <4>1. k = 1 /\ {j \in DOMAIN new : new[j] = c} = 1..1 /\ 1..(k - 1) = {}
        BY <3>3
      <4>2. PICK n : n = new[k]
        OBVIOUS
      <4>3. n = c
        BY <3>3, <4>1, <4>2
      <4>4. OnPurpose(n)' /\ Times(n)' = 1
        BY <3>4, <4>3
      <4>. QED  BY <4>1, <4>2, <4>3, <4>4
    <3>8. PrintedInv'
      BY <1>1, <3>3, <3>6, <3>7, PurposeKept
    <3>. QED  BY <3>1, <3>3, <3>8
  <2>3. CASE included = TRUE /\ started = TRUE
    <3>1. PICK s \in OpenBlock :
            /\ OpenBlock = {s} /\ FromTo(lines, s, t) /\ Wanted(s)
            /\ \A i \in DOMAIN printed : printed[i] < s
      BY <1>0, <2>3 DEF PendingInv, Fgets
    <3>2. s \in DOMAIN text /\ s \in Nat /\ s <= t
      BY <1>3, OpenIsLast
    <3>3. Wanted(s)'
      BY <1>1, <3>1, <3>2, MembersGrow DEF Reads
    <3>4. PICK l \in Seq(Nat) : l = lines
      BY <1>4
    <3>5. PICK new \in Seq(Nat) : new = Append(l, c) /\ FromTo(new, s, c)
      <4>1. Append(l, t + 1) \in Seq(Nat) /\ FromTo(Append(l, t + 1), s, t + 1)
        BY <3>1, <3>2, <3>4, OneMoreLine
      <4>. QED  BY <1>3, <4>1
    <3>6. Prints(new)
      BY <1>4, <2>3, <3>4, <3>5 DEF Prints
    <3>7. PrintedInv' /\ Together(s, c)'
      BY <1>1, <1>2, <3>1, <3>3, <3>5, <3>6, BlockPrinted
    <3>8. ASSUME NEW k \in DOMAIN new  PROVE new[k] \in s..c
      <4>1. s <= c
        BY <1>3, <3>2
      <4>. QED  BY <3>2, <3>5, <4>1, Consecutive
    <3>9. ASSUME NEW k \in DOMAIN new  PROVE s <= new[k]
      BY <3>2, <3>8
    <3>. QED  BY <3>1, <3>6, <3>7, <3>9
  <2>. QED  BY <1>4, <2>1, <2>2, <2>3
<1>6. PICK new : /\ Prints(new) /\ PrintedInv'
                 /\ \A k \in DOMAIN new : new[k] = c \/ \E s \in OpenBlock : s <= new[k]
                 /\ \A s \in OpenBlock : Wanted(s)' => Together(s, c)'
  BY <1>5
<1>7. ASSUME NEW s \in OpenBlock
      PROVE  \E last \in s..c : Members(s)' = s..last /\ (Wanted(s)' => Together(s, last)')
  <2>1. s \in DOMAIN text /\ Members(s) = s..t
    BY <1>0, <1>3, OpenIsLast
  <2>2. Members(s)' = s..c
    <3>1. Members(s)' = Members(s) \cup {c}
      BY <1>1, <1>2, <2>1, MembersGrow DEF Reads
    <3>. QED  BY <1>3, <2>1, <3>1
  <2>3. c \in s..c
    BY <1>3, <2>1
  <2>. QED  BY <1>6, <2>2, <2>3
<1>8. WholeInv'
  BY <1>1, <1>6, <1>7, WholeKept
<1>9. PendingInv'
  BY <1>3, <1>4 DEF PendingInv
<1>. QED  BY <1>6, <1>8, <1>9

\* A line of the open block is pending with it.
LEMMA LineInBlock ==
  ASSUME ParserTypeOK, PendingInv, PrintedInv, WholeInv,
         NEW line \in TextLines, Fgets(line), TextLine(line), started = TRUE
  PROVE  PendingInv' /\ PrintedInv' /\ WholeInv'
<1>0. PICK t \in Nat : t = Len(text)
  BY DEF ParserTypeOK
<1>1. PICK c \in Nat : c = Current /\ Reads(line, c)
  BY DEF Fgets, Current, Reads, ParserTypeOK
<1>2. ~IsStart(line) /\ ~IsEnd(line)
  BY DEF TextLine
<1>3. /\ DOMAIN text = 1..t /\ c = t + 1 /\ Len(text') = c
      /\ Matches(c)' <=> Hits(line) # {}
      /\ OpenBlock' = OpenBlock
  BY <1>0, <1>1, <1>2, LineRead, BlocksStay DEF Reads
<1>4. /\ lines \in Seq(Nat) /\ printed \in Seq(Nat) /\ included \in BOOLEAN
      /\ UNCHANGED <<printed, started>> /\ lines' = Append(lines, c)
      /\ included' = (included \/ Hits(line) # {})
  BY <1>1 DEF TextLine, ParserTypeOK
<1>5. Prints(<<>>) /\ PrintedInv'
  BY <1>1, <1>4, NothingPrinted
<1>6. WholeInv'
  <2>1. \A k \in DOMAIN <<>> : <<>>[k] = c \/ \E s \in OpenBlock : s <= <<>>[k]
    OBVIOUS
  <2>2. ASSUME NEW s \in OpenBlock, IsStart(line) \/ IsEnd(line)
        PROVE  \E last \in s..c : Members(s)' = s..last /\ (Wanted(s)' => Together(s, last)')
    BY <1>2, <2>2
  <2>. QED  BY <1>1, <1>5, <2>1, <2>2, WholeKept
<1>7. PICK s \in OpenBlock :
        /\ OpenBlock = {s} /\ FromTo(lines, s, t) /\ (included = TRUE <=> Wanted(s))
        /\ \A i \in DOMAIN printed : printed[i] < s
  BY <1>0 DEF PendingInv, Fgets
<1>8. s \in DOMAIN text /\ s \in Nat /\ s <= t
  BY <1>0, <1>1, <1>3, OpenIsLast DEF Reads
<1>9. FromTo(lines', s, Len(text'))
  <2>1. PICK l \in Seq(Nat) : l = lines
    BY <1>4
  <2>2. FromTo(Append(l, t + 1), s, t + 1)
    BY <1>7, <1>8, <2>1, OneMoreLine
  <2>. QED  BY <1>3, <1>4, <2>1, <2>2
<1>10. included' = TRUE <=> Wanted(s)'
  <2>1. /\ Members(s)' = Members(s) \cup {c}
        /\ Wanted(s) => Wanted(s)'
        /\ Wanted(s)' => Wanted(s) \/ Matches(c)'
    BY <1>1, <1>2, <1>8, MembersGrow DEF Reads
  <2>2. Matches(c)' => Wanted(s)'
    BY <2>1 DEF Wanted
  <2>. QED  BY <1>3, <1>4, <1>7, <2>1, <2>2
<1>11. PendingInv'
  BY <1>3, <1>4, <1>7, <1>9, <1>10 DEF PendingInv
<1>. QED  BY <1>5, <1>6, <1>11

\* A line outside all blocks is printed for each filter it matches.
LEMMA LineOutside ==
  ASSUME ParserTypeOK, PendingInv, PrintedInv, WholeInv,
         NEW line \in TextLines, Fgets(line), TextLine(line), started = FALSE
  PROVE  PendingInv' /\ PrintedInv' /\ WholeInv'
<1>1. PICK c \in Nat : c = Current /\ Reads(line, c)
  BY DEF Fgets, Current, Reads, ParserTypeOK
<1>2. ~IsStart(line) /\ ~IsEnd(line) /\ OpenBlock = {} /\ lines = <<>>
  BY DEF TextLine, PendingInv, Fgets
<1>3. /\ DOMAIN text = 1..Len(text) /\ Len(text) \in Nat /\ c = Len(text) + 1
      /\ text'[c] = line /\ IsText(c)' /\ (Matches(c)' <=> Hits(line) # {})
      /\ OpenBlock' = {} /\ BlockOf(c)' = {}
  BY <1>1, <1>2, LineRead, BlocksStay DEF Reads
<1>4. PICK q : q = Cardinality(Hits(line))
  OBVIOUS
<1>5. q \in Nat /\ (q # 0 => Hits(line) # {})
  <2>1. CASE Hits(line) = {}
    BY <1>4, <2>1, FS_EmptySet
  <2>2. CASE Hits(line) # {}
    BY <1>4, <2>2, HitsCount DEF ParserTypeOK
  <2>. QED  BY <2>1, <2>2
<1>6. PICK new : new = [i \in 1..q |-> c]
  OBVIOUS
<1>7. new \in Seq(Nat) /\ DOMAIN new = 1..q /\ \A k \in DOMAIN new : new[k] = c
  BY <1>5, <1>6
<1>8. /\ printed \in Seq(Nat) /\ printed' = printed \o new
      /\ UNCHANGED <<started, included, lines, parsing>>
  BY <1>1, <1>4, <1>6 DEF TextLine, ParserTypeOK, Fgets
<1>9. Prints(new)
  BY <1>7, <1>8 DEF Prints
<1>10. Times(c)' = q
  <2>1. Filters' = Filters
    BY <1>1 DEF Filters, Reads
  <2>. QED  BY <1>3, <1>4, <2>1 DEF Times, Hits
<1>11. \A i \in DOMAIN printed, k \in DOMAIN new : printed[i] < new[k]
  <2>1. \A i \in DOMAIN printed : printed[i] \in DOMAIN text
    BY DEF PrintedInv
  <2>. QED  BY <1>3, <1>7, <2>1
<1>12. ASSUME NEW k \in DOMAIN new
       PROVE  /\ new[k] \in DOMAIN text \cup {c} /\ OnPurpose(new[k])'
              /\ \A l \in 1..(k - 1) : new[l] <= new[k]
              /\ \E a, b \in Nat : /\ {j \in DOMAIN new : new[j] = new[k]} = a..b
                                   /\ a <= b + 1 /\ b + 1 - a = Times(new[k])'
  <2>1. PICK n : n = new[k]
    OBVIOUS
  <2>2. n = c /\ q # 0
    BY <1>5, <1>7, <2>1
  <2>3. OnPurpose(n)' /\ Times(n)' = q
    BY <1>3, <1>5, <1>10, <2>2 DEF OnPurpose
  <2>4. {j \in DOMAIN new : new[j] = n} = 1..q /\ 1 <= q + 1 /\ q + 1 - 1 = q
    BY <1>5, <1>7, <2>2
  <2>5. \A l \in 1..(k - 1) : new[l] <= n
    <3>1. \A l \in 1..(k - 1) : l \in DOMAIN new
      BY <1>5, <1>7
    <3>. QED  BY <1>7, <2>2, <3>1
  <2>. QED  BY <1>5, <2>1, <2>2, <2>3, <2>4, <2>5
<1>13. PrintedInv'
  BY <1>1, <1>9, <1>11, <1>12, PurposeKept
<1>14. WholeInv'
  BY <1>1, <1>2, <1>7, <1>9, WholeKept
<1>15. PendingInv'
  BY <1>2, <1>3, <1>8 DEF PendingInv
<1>. QED  BY <1>13, <1>14, <1>15

\* The command begins with nothing read and nothing printed.
LEMMA BlocksBegin == ParserInit => BlocksInv
<1>. SUFFICES ASSUME ParserInit PROVE ParserTypeOK /\ PendingInv /\ PrintedInv /\ WholeInv
  BY DEF BlocksInv
<1>1. text = <<>> /\ DOMAIN text = {} /\ lines = <<>> /\ printed = <<>> /\ DOMAIN printed = {} /\ started = FALSE
  BY DEF ParserInit
<1>2. ParserTypeOK
  <2>1. text \in Seq(TextLines) /\ lines \in Seq(Nat) /\ printed \in Seq(Nat)
    BY <1>1
  <2>. QED  BY <2>1 DEF ParserInit, ParserTypeOK
<1>3. OpenBlock = {}
  BY <1>1 DEF OpenBlock
<1>. QED  BY <1>1, <1>2, <1>3 DEF PendingInv, PrintedInv, WholeInv

\* A step of the parser keeps the blocks together and in order.
LEMMA BlocksKeep == ParserInv' /\ BlocksInv /\ [ParserNext]_parserVars => BlocksInv'
<1>. SUFFICES ASSUME ParserInv', BlocksInv, [ParserNext]_parserVars  PROVE BlocksInv'
  OBVIOUS
<1>0. CASE NoParser
  BY <1>0 DEF BlocksInv, NoParser, ParserNext, parserVars, Open, ReadLine, Fgets, Eof
<1>1. CASE ParserTypeOK /\ PendingInv /\ PrintedInv /\ WholeInv
  <2>1. ASSUME UNCHANGED <<ini, text, printed>>  PROVE PrintedInv' /\ WholeInv' /\ OpenBlock' = OpenBlock
    <3>1. Filters' = Filters /\ OpenBlock' = OpenBlock
      BY <2>1 DEF Filters, OpenBlock, IsText, IsStart, IsEnd
    <3>2. ASSUME NEW n
          PROVE  /\ IsText(n)' <=> IsText(n)
                 /\ Matches(n)' <=> Matches(n)
                 /\ BlockOf(n)' = BlockOf(n)
      BY <2>1, <3>1 DEF IsText, Matches, BlockOf, IsStart, IsEnd
    <3>3. ASSUME NEW n  PROVE Members(n)' = Members(n) /\ (Wanted(n)' <=> Wanted(n))
      BY <2>1, <3>2 DEF Members, Wanted
    <3>4. ASSUME NEW n  PROVE (OnPurpose(n)' <=> OnPurpose(n)) /\ Times(n)' = Times(n)
      BY <2>1, <3>1, <3>2, <3>3 DEF OnPurpose, Times
    <3>5. ASSUME NEW s, NEW last  PROVE Together(s, last)' <=> Together(s, last)
      BY <2>1 DEF Together
    <3>6. PrintedInv'
      BY <1>1, <2>1, <3>4 DEF PrintedInv
    <3>7. WholeInv'
      BY <1>1, <2>1, <3>1, <3>3, <3>5 DEF WholeInv, IsStart
    <3>. QED  BY <3>1, <3>6, <3>7
  <2>2. ASSUME UNCHANGED <<ini, text, printed, started, included, lines>>,
               parsing' \in {"ini", "reading"} => parsing \in {"ini", "reading"}
        PROVE  PendingInv'
    BY <1>1, <2>1, <2>2 DEF PendingInv, FromTo, Wanted, Members, BlockOf, Matches, IsText, IsStart, IsEnd, Filters
  <2>3. CASE UNCHANGED parserVars \/ Open
    BY <1>1, <2>1, <2>2, <2>3 DEF parserVars, Open, BlocksInv, ParserTypeOK
  <2>4. CASE Eof
    BY <1>1, <2>1, <2>4 DEF Eof, PendingInv, BlocksInv, ParserTypeOK
  <2>5. CASE ReadLine
    <3>1. PICK line \in TextLines : Fgets(line) /\ (StartLine(line) \/ EndLine(line) \/ TextLine(line))
      BY <2>5 DEF ReadLine
    <3>2. started = TRUE \/ started = FALSE
      BY <1>1 DEF ParserTypeOK
    <3>3. PendingInv' /\ PrintedInv' /\ WholeInv'
      BY <1>1, <3>1, <3>2, BlockStarts, BlockEnds, LineInBlock, LineOutside
    <3>4. ParserTypeOK'
      BY <3>1 DEF ParserInv, NoParser, Fgets
    <3>. QED  BY <3>3, <3>4 DEF BlocksInv
  <2>. QED  BY <2>3, <2>4, <2>5 DEF ParserNext
<1>. QED  BY <1>0, <1>1 DEF BlocksInv

\* What is printed was asked for, and wanted blocks come out whole.
LEMMA BlocksPromise == BlocksInv => PrintedOnPurpose /\ BlocksWhole
<1>. SUFFICES ASSUME BlocksInv PROVE PrintedOnPurpose /\ BlocksWhole
  OBVIOUS
<1>0. CASE NoParser
  <2>1. DOMAIN printed = {} /\ DOMAIN text = {}
    BY <1>0 DEF NoParser
  <2>. QED  BY <2>1 DEF PrintedOnPurpose, BlocksWhole
<1>1. CASE ParserTypeOK /\ PendingInv /\ PrintedInv /\ WholeInv
  <2>1. PrintedOnPurpose
    BY <1>1 DEF PrintedInv, PrintedOnPurpose, OnPurpose, Times
  <2>2. ASSUME NEW s \in DOMAIN text, IsStart(text[s]), Wanted(s), Complete(s)
        PROVE  \E last \in s..Len(text) : Members(s) = s..last /\ Together(s, last)
    <3>1. s \notin OpenBlock
      BY <2>2 DEF Complete, OpenBlock
    <3>. QED  BY <1>1, <2>2, <3>1 DEF WholeInv
  <2>3. ASSUME NEW s \in DOMAIN text, NEW last \in s..Len(text), Members(s) = s..last
        PROVE  last = CHOOSE n \in Members(s) : \A m \in Members(s) : m <= n
    <3>1. s \in Nat /\ last \in Nat /\ last \in s..last /\ \A m \in s..last : m <= last
      BY <1>1 DEF ParserTypeOK
    <3>2. \A n \in s..last : (\A m \in s..last : m <= n) => n = last
      BY <3>1
    <3>. QED  BY <2>3, <3>1, <3>2
  <2>4. BlocksWhole
    BY <2>2, <2>3 DEF BlocksWhole, Together
  <2>. QED  BY <2>1, <2>4
<1>. QED  BY <1>0, <1>1 DEF BlocksInv

-----------------------------------------------------------------------------
(* CommandLine.                                                            *)

Counting == {"-count:3", "-count:3x"}

LineTypeOK ==
  /\ argv \in Seq(Switches \cup Words) /\ unseen \in Seq(Switches \cup Words)
  /\ switches \in Seq(Switches) /\ params \in Seq(Words)
  /\ config \in [help : BOOLEAN, wait : BOOLEAN, count : {0, 3}]

\* Of each switch that was given: it has been seen, or still will be.
SwitchInv ==
  LET ahead == ToSet(unseen) \cup ToSet(switches) IN
  /\ config.help = TRUE \/ "-help" \in ahead <=> "-help" \in ToSet(argv)
  /\ config.wait = TRUE \/ "-wait" \in ahead <=> "-wait" \in ToSet(argv)
  /\ config.count = 3 \/ ahead \cap Counting # {} <=> ToSet(argv) \cap Counting # {}

\* There is a command to dispatch.  A table takes at most one word away, since
\* no two of its entries have the same token.
PlaceInv ==
  /\ at # "arguments" => unseen = << >> /\ switches = << >>
  /\ at = "dispatch" => params # << >>
  /\ at = "table" =>
       /\ handler \in {"time", "input"} /\ entry \in Nat \ {0} /\ config.help = FALSE
       /\ \/ params # << >>
          \/ \A i \in entry..Len(Table) : Table[i].all \/ Table[i].token # token
  /\ at = "done" => config.help = FALSE /\ command.params \in Seq(Words)

CommandLineInv == NoLine \/ (LineTypeOK /\ SwitchInv /\ PlaceInv)

\* An argument is a switch or a word.
LEMMA ArgumentKinds == Switches \cap Words = {}
BY DEF Switches, Words

\* The command begins with all arguments ahead.
LEMMA LineBegins == LineInit => CommandLineInv
<1>. SUFFICES ASSUME LineInit PROVE LineTypeOK /\ SwitchInv /\ PlaceInv
  BY DEF CommandLineInv
<1>1. argv \in Seq(Switches \cup Words) /\ unseen = argv /\ switches = << >> /\ params = << >>
  BY BoundedIsSeq, CommandLineAssumption DEF LineInit
<1>2. config = [help |-> FALSE, wait |-> FALSE, count |-> 0] /\ at = "arguments"
  BY DEF LineInit
<1>3. LineTypeOK
  <2>1. << >> \in Seq(Switches) /\ << >> \in Seq(Words)
    OBVIOUS
  <2>. QED  BY <1>1, <1>2, <2>1 DEF LineTypeOK
<1>4. ToSet(switches) = {}
  BY <1>1 DEF ToSet
<1>5. SwitchInv
  BY <1>1, <1>2, <1>4 DEF SwitchInv
<1>6. PlaceInv
  BY <1>2 DEF PlaceInv
<1>. QED  BY <1>3, <1>5, <1>6

\* No entry of a table has another one's token, and the entry for anything
\* asks for a parameter.
LEMMA Tables ==
  ASSUME handler \in {"time", "input"}
  PROVE  /\ Len(Table) \in Nat
         /\ \A i \in 1..Len(Table) : Table[i].min \in Nat /\ (Table[i].proc = "Measure" => Table[i].min = 1)
         /\ \A i, j \in 1..Len(Table) : i < j => Table[i].all \/ Table[j].all \/ Table[i].token # Table[j].token
<1>1. CASE handler = "time"
  BY <1>1 DEF Table, Handlers, Entry
<1>2. CASE handler = "input"
  BY <1>2 DEF Table, Handlers, Entry
<1>. QED  BY <1>1, <1>2

\* A step of main, of a handler or of its table keeps all this.
LEMMA LineKeeps == CommandLineInv /\ [LineNext]_lineVars => CommandLineInv'
<1>. SUFFICES ASSUME CommandLineInv, [LineNext]_lineVars  PROVE CommandLineInv'
  OBVIOUS
<1>0. CASE NoLine
  BY <1>0 DEF CommandLineInv, NoLine, LineNext, lineVars, ReadArgument, ReadSwitch, Switched,
              Dispatch, TryEntry, NoEntryLeft
<1>1. CASE LineTypeOK /\ SwitchInv /\ PlaceInv
  <2>. SUFFICES LineTypeOK' /\ SwitchInv' /\ PlaceInv'
    BY DEF CommandLineInv
  <2>0. ASSUME UNCHANGED <<argv, unseen, switches, config>>  PROVE SwitchInv'
    BY <1>1, <2>0 DEF SwitchInv
  <2>1. CASE UNCHANGED lineVars
    BY <1>1, <2>0, <2>1 DEF lineVars, LineTypeOK, PlaceInv, Table
  <2>2. CASE ReadArgument
    <3>1. /\ Head(unseen) \in Switches \cup Words /\ Tail(unseen) \in Seq(Switches \cup Words)
          /\ ToSet(unseen) = {Head(unseen)} \cup ToSet(Tail(unseen))
      BY <1>1, <2>2, InTail DEF ReadArgument, LineTypeOK
    <3>2. CASE Head(unseen) \in Switches /\ switches' = Append(switches, Head(unseen)) /\ UNCHANGED params
      <4>1. switches' \in Seq(Switches) /\ ToSet(switches') = ToSet(switches) \cup {Head(unseen)}
        BY <1>1, <3>2, InAppend DEF LineTypeOK
      <4>2. LineTypeOK' /\ PlaceInv'
        BY <1>1, <2>2, <3>1, <3>2, <4>1 DEF ReadArgument, LineTypeOK, PlaceInv
      <4>3. ToSet(unseen') \cup ToSet(switches') = ToSet(unseen) \cup ToSet(switches)
        BY <2>2, <3>1, <4>1 DEF ReadArgument
      <4>. QED  BY <1>1, <2>2, <4>2, <4>3 DEF ReadArgument, SwitchInv
    <3>3. CASE Head(unseen) \in Words /\ params' = Append(params, Head(unseen)) /\ UNCHANGED switches
      <4>1. params' \in Seq(Words)
        BY <1>1, <3>3, InAppend DEF LineTypeOK
      <4>2. LineTypeOK' /\ PlaceInv'
        BY <1>1, <2>2, <3>1, <3>3, <4>1 DEF ReadArgument, LineTypeOK, PlaceInv
      <4>3. ToSet(unseen') \cup ToSet(switches') \cup {Head(unseen)} = ToSet(unseen) \cup ToSet(switches)
        BY <2>2, <3>1, <3>3 DEF ReadArgument
      <4>4. Head(unseen) \notin {"-help", "-wait"} \cup Counting
        BY <3>3, ArgumentKinds DEF Switches, Counting
      <4>5. UNCHANGED <<argv, config>>
        BY <2>2 DEF ReadArgument
      <4>. QED  BY <1>1, <4>2, <4>3, <4>4, <4>5 DEF SwitchInv
    <3>. QED  BY <2>2, <3>2, <3>3 DEF ReadArgument
  <2>3. CASE ReadSwitch
    <3>1. /\ Head(switches) \in Switches /\ Tail(switches) \in Seq(Switches) /\ switches' = Tail(switches)
          /\ ToSet(switches) = {Head(switches)} \cup ToSet(Tail(switches))
          /\ UNCHANGED <<argv, unseen, params>> /\ at = "arguments" /\ at' = "arguments"
      BY <1>1, <2>3, InTail DEF ReadSwitch, LineTypeOK
    <3>2. /\ Head(switches) = "-help" => config' = [config EXCEPT !.help = TRUE]
          /\ Head(switches) = "-wait" => config' = [config EXCEPT !.wait = TRUE]
          /\ Head(switches) \in Counting => config' = [config EXCEPT !.count = 3]
      BY <2>3, Zenon DEF ReadSwitch, Counting
    <3>3. Head(switches) \in {"-help", "-wait"} \cup Counting
      BY <3>1 DEF Switches, Counting
    <3>4. LineTypeOK'
      BY <1>1, <3>1, <3>2, <3>3 DEF LineTypeOK
    <3>5. PlaceInv'
      BY <3>1 DEF PlaceInv
    <3>6. SwitchInv'
      <4>. USE <1>1, <3>1, <3>2 DEF LineTypeOK, SwitchInv
      <4>1. CASE Head(switches) = "-help"
        BY <4>1 DEF Counting
      <4>2. CASE Head(switches) = "-wait"
        BY <4>2 DEF Counting
      <4>3. CASE Head(switches) \in Counting
        BY <4>3 DEF Counting
      <4>. QED  BY <3>3, <4>1, <4>2, <4>3
    <3>. QED  BY <3>4, <3>5, <3>6
  <2>4. CASE Switched
    BY <1>1, <2>0, <2>4 DEF Switched, LineTypeOK, PlaceInv
  <2>5. CASE Dispatch
    <3>. DEFINE h == Head(params)  ps == Tail(params)
    <3>1. h \in Words /\ ps \in Seq(Words) /\ Len(ps) \in Nat
      BY <1>1, <2>5, InTail DEF Dispatch, LineTypeOK, PlaceInv
    <3>2. UNCHANGED <<argv, unseen, switches, config>> /\ at = "dispatch"
      BY <2>5 DEF Dispatch
    <3>3. params' \in {params, ps}
      BY <2>5 DEF Dispatch
    <3>4. LineTypeOK'
      BY <1>1, <3>1, <3>2, <3>3 DEF LineTypeOK
    <3>5. PlaceInv'
      <4>1. at' \in {"usage", "failed", "done", "table"}
        BY <2>5 DEF Dispatch, Run
      <4>2. ASSUME at' = "done"  PROVE config.help = FALSE /\ command'.params \in Seq(Words)
        <5>1. ~config.help /\ command' = [proc |-> h, params |-> ps]
          BY <2>5, <4>2 DEF Dispatch, Run
        <5>2. config.help \in BOOLEAN
          BY <1>1 DEF LineTypeOK
        <5>. QED  BY <3>1, <5>1, <5>2
      <4>3. ASSUME at' = "table"
            PROVE  handler' \in {"time", "input"} /\ entry' = 1 /\ config.help = FALSE /\ params' # << >>
        <5>1. /\ h \in DOMAIN Handlers /\ ~config.help /\ handler' = h /\ entry' = 1 /\ params' = ps
              /\ Len(ps) >= Handlers[h].min /\ Handlers[h].table # << >>
          BY <2>5, <4>3 DEF Dispatch, Run
        <5>2. h \in {"time", "input"} /\ Handlers[h].min = 1
          <6>1. h \in {"time", "input", "cr"} /\ Handlers["cr"].table = << >>
            BY <5>1 DEF Handlers
          <6>2. Handlers["time"].min = 1 /\ Handlers["input"].min = 1
            BY DEF Handlers
          <6>. QED  BY <5>1, <6>1, <6>2
        <5>3. ps # << >>
          <6>. HIDE DEF h, ps
          <6>. QED  BY <3>1, <5>1, <5>2
        <5>4. config.help \in BOOLEAN
          BY <1>1 DEF LineTypeOK
        <5>5. config.help = FALSE
          BY <5>1, <5>4
        <5>. QED  BY <5>1, <5>2, <5>3, <5>5, Zenon
      <4>4. unseen' = << >> /\ switches' = << >>
        BY <1>1, <3>2 DEF PlaceInv
      <4>5. CASE at' = "done"
        BY <4>2, <4>4, <4>5, <3>2 DEF PlaceInv
      <4>6. CASE at' = "table"
        <5>1. /\ handler' \in {"time", "input"} /\ entry' \in Nat \ {0} /\ params' # << >>
              /\ config'.help = FALSE
          <6>1. handler' \in {"time", "input"} /\ entry' = 1 /\ config.help = FALSE /\ params' # << >>
            BY <4>3, <4>6, Zenon
          <6>2. config' = config
            BY <3>2
          <6>. QED  BY <6>1, <6>2
        <5>. QED  BY <4>4, <4>6, <5>1, Zenon DEF PlaceInv
      <4>7. CASE at' \in {"usage", "failed"}
        BY <4>4, <4>7 DEF PlaceInv
      <4>. QED  BY <4>1, <4>5, <4>6, <4>7
    <3>. QED  BY <2>0, <3>2, <3>4, <3>5
  <2>7. CASE NoEntryLeft
    BY <1>1, <2>0, <2>7 DEF NoEntryLeft, LineTypeOK, PlaceInv
  <2>6. CASE TryEntry
    <3>. DEFINE e == Table[entry]
                matches == e.all \/ token = e.token
                ps == IF matches /\ ~e.all THEN Tail(params) ELSE params
    <3>1. /\ handler \in {"time", "input"} /\ config.help = FALSE /\ at = "table"
          /\ unseen = << >> /\ switches = << >>
          /\ entry \in 1..Len(Table) /\ Len(Table) \in Nat
          /\ UNCHANGED <<argv, unseen, switches, config, handler, token>>
      BY <1>1, <2>6, Tables DEF TryEntry, PlaceInv
    <3>2. matches /\ ~e.all => params # << >>
      BY <1>1, <3>1 DEF PlaceInv
    <3>3. ps \in Seq(Words)
      BY <1>1, <3>2, InTail DEF LineTypeOK
    <3>4. CASE /\ matches /\ Accepts(e, ps)
               /\ \/ e.proc = "Measure" /\ Measure(ps)
                  \/ e.proc # "Measure" /\ Run(e.proc, ps) /\ params' = ps /\ UNCHANGED nested
      <4>1. CASE \E proc : Run(proc, ps) /\ params' = ps
        <5>1. PICK proc : command' = [proc |-> proc, params |-> ps] /\ at' = "done" /\ params' = ps
          BY <4>1 DEF Run
        <5>. HIDE DEF ps
        <5>2. LineTypeOK'
          BY <1>1, <3>1, <3>3, <5>1 DEF LineTypeOK
        <5>3. command'.params \in Seq(Words)
          BY <3>3, <5>1
        <5>4. PlaceInv'
          BY <3>1, <5>1, <5>3 DEF PlaceInv
        <5>. QED  BY <2>0, <3>1, <5>2, <5>4
      <4>2. CASE /\ e.proc = "Measure" /\ Head(ps) \in DOMAIN Nested
                 /\ params' = <<Nested[Head(ps)]>> \o Tail(ps) /\ at' = "dispatch"
        <5>1. ps # << >>
          <6>1. e.min = 1
            BY <3>1, <4>2, Tables
          <6>. HIDE DEF ps
          <6>2. Len(ps) = e.min \/ Len(ps) >= e.min
            BY <3>4, Zenon DEF Accepts
          <6>. QED  BY <3>3, <6>1, <6>2
        <5>2. Tail(ps) \in Seq(Words) /\ Nested[Head(ps)] \in Words
          BY <3>3, <4>2, <5>1, InTail DEF Nested, Words
        <5>3. params' \in Seq(Words) /\ params' # << >>
          BY <4>2, <5>2
        <5>4. LineTypeOK'
          BY <1>1, <3>1, <5>3 DEF LineTypeOK
        <5>5. PlaceInv'
          BY <3>1, <4>2, <5>3 DEF PlaceInv
        <5>. QED  BY <2>0, <3>1, <5>4, <5>5
      <4>. QED  BY <3>4, <4>1, <4>2, <2>0, <3>1 DEF Measure
    <3>5. CASE ~(matches /\ Accepts(e, ps)) /\ params' = ps /\ entry' = entry + 1 /\ UNCHANGED at
      <4>1. LineTypeOK'
        BY <1>1, <3>1, <3>3, <3>5 DEF LineTypeOK
      <4>2. Table' = Table
        BY <3>1 DEF Table
      <4>3. params' # << >> \/ \A i \in entry'..Len(Table) : Table[i].all \/ Table[i].token # token
        <5>1. CASE matches /\ ~e.all
          BY <3>1, <3>5, <5>1, Tables
        <5>2. CASE ~(matches /\ ~e.all)
          BY <1>1, <3>1, <3>5, <5>2 DEF PlaceInv
        <5>. QED  BY <5>1, <5>2
      <4>4. PlaceInv'
        BY <3>1, <3>5, <4>2, <4>3 DEF PlaceInv
      <4>. QED  BY <2>0, <3>1, <4>1, <4>4
    <3>. QED  BY <2>6, <3>4, <3>5 DEF TryEntry
  <2>. QED  BY <2>1, <2>2, <2>3, <2>4, <2>5, <2>6, <2>7 DEF LineNext
<1>. QED  BY <1>0, <1>1 DEF CommandLineInv

\* Where a command runs, no switch is ahead.
LEMMA LinePromise == CommandLineInv => SwitchesWorkAnywhere
<1>. SUFFICES ASSUME CommandLineInv, at = "done"  PROVE SwitchesWorkAnywhere
  BY DEF SwitchesWorkAnywhere
<1>1. LineTypeOK /\ SwitchInv /\ PlaceInv
  BY DEF CommandLineInv, NoLine
<1>2. ToSet(unseen) = {} /\ ToSet(switches) = {}
  <2>1. unseen = << >> /\ switches = << >>
    BY <1>1 DEF PlaceInv
  <2>. QED  BY <2>1 DEF ToSet
<1>3. config.help = FALSE /\ "-help" \notin ToSet(argv)
  BY <1>1, <1>2 DEF SwitchInv, PlaceInv
<1>4. config.wait = ("-wait" \in ToSet(argv))
  <2>1. config.wait \in BOOLEAN
    BY <1>1 DEF LineTypeOK
  <2>2. config.wait = TRUE <=> "-wait" \in ToSet(argv)
    BY <1>1, <1>2 DEF SwitchInv
  <2>. QED  BY <2>1, <2>2
<1>5. "-count:3x" \notin ToSet(argv) => config.count = IF "-count:3" \in ToSet(argv) THEN 3 ELSE 0
  BY <1>1, <1>2 DEF SwitchInv, LineTypeOK, Counting
<1>6. ToSet(command.params) \cap Switches = {}
  <2>1. ToSet(command.params) \subseteq Words
    BY <1>1 DEF PlaceInv, ToSet
  <2>. QED  BY <2>1, ArgumentKinds
<1>. QED  BY <1>3, <1>4, <1>5, <1>6 DEF SwitchesWorkAnywhere

-----------------------------------------------------------------------------
(* PatchBin.                                                               *)

PatchTypeOK ==
  /\ original \in Seq(Bytes) /\ file \in Seq(Bytes) /\ fbuf \in Seq(Bytes)
  /\ request \in [src : Seq(Bytes), dest : Seq(Bytes), chunk : Nat]
  /\ src \in Seq(Bytes) /\ dest \in Seq(Bytes) /\ request.chunk \in Nat
  /\ offset \in Nat /\ offsetFound \in Nat /\ nResults \in Nat /\ res \in Nat
  /\ patching \in {"begin", "search", "found", "write", "done", "crashed"}

\* The first places, as many as the search has found.
Below(n) == {i \in Seen : i < n}

\* The file is not written before the end, nor the image changed before the
\* place is known.
ImageInv ==
  /\ patching # "done" => file = original
  /\ patching = "begin" => fbuf = <<>> /\ offset = 0 /\ nResults = 0 /\ res = 1
  /\ patching \in {"search", "found", "write"} => Fits /\ res # 0
  /\ patching \in {"search", "found"} => fbuf = original

\* What has been found are the first places, the last of them behind offset;
\* the search is over when the chunk is reached or no place is left.
SearchInv ==
  patching \in {"search", "found"} =>
    /\ nResults = Cardinality(Below(offset))
    /\ IF nResults = 0 THEN offset = 0 ELSE offsetFound \in Seen /\ offset = offsetFound + 1
    /\ request.chunk = 0 \/ nResults <= request.chunk
    /\ patching = "search" => request.chunk = 0 \/ nResults # request.chunk
    /\ patching = "found" => (nResults = request.chunk /\ nResults # 0) \/ Below(offset) = Seen

PatchedInv ==
  /\ patching = "write" => offsetFound \in Expected /\ fbuf = Overwrite(original, offsetFound, dest)
  /\ patching = "done" => OnlyThePlaceChanges /\ ReportedTruly

PatchInv == NoPatch \/ (PatchTypeOK /\ ImageInv /\ SearchInv /\ PatchedInv)

\* A pattern, like a file, is a sequence of bytes.
LEMMA BytesAreSequences ==
  ASSUME NEW n \in Nat, NEW s \in [1..n -> Bytes]
  PROVE  s \in Seq(Bytes) /\ Len(s) = n
BY SeqDef, LenProperties

LEMMA PatternsAre == Patterns \subseteq Seq(Bytes)
<1>. SUFFICES ASSUME NEW s \in Patterns  PROVE s \in Seq(Bytes)
  OBVIOUS
<1>1. PICK n \in 0..MaxPattern : s \in [1..n -> Bytes]
  BY DEF Patterns
<1>. QED  BY <1>1, BytesAreSequences, PatchBinAssumption

\* The command begins with nothing done.
LEMMA PatchBegins == PatchInit => PatchInv
<1>. SUFFICES ASSUME PatchInit PROVE PatchTypeOK /\ ImageInv /\ SearchInv /\ PatchedInv
  BY DEF PatchInv
<1>1. original \in Seq(Bytes)
  <2>1. PICK n \in 0..MaxSize : original \in [1..n -> Bytes]
    BY DEF PatchInit, Images
  <2>. QED  BY <2>1, BytesAreSequences, PatchBinAssumption
<1>2. src \in Patterns /\ dest \in Patterns /\ request.chunk \in Nat
  BY PatchBinAssumption DEF PatchInit, Requests, src, dest
<1>3. src \in Seq(Bytes) /\ dest \in Seq(Bytes)
  BY <1>2, PatternsAre
<1>4. PatchTypeOK
  <2>1. << >> \in Seq(Bytes)
    OBVIOUS
  <2>2. request \in [src : Seq(Bytes), dest : Seq(Bytes), chunk : Nat]
    BY <1>2, <1>3 DEF PatchInit, Requests, src, dest
  <2>. QED  BY <1>1, <1>2, <1>3, <2>1, <2>2 DEF PatchInit, PatchTypeOK
<1>. QED  BY <1>4 DEF PatchInit, ImageInv, SearchInv, PatchedInv

\* Seen are finitely many.
LEMMA PlacesFinite ==
  ASSUME PatchTypeOK
  PROVE  /\ IsFiniteSet(Seen) /\ Cardinality(Seen) \in Nat
         /\ \A S \in SUBSET Seen : /\ IsFiniteSet(S) /\ Cardinality(S) \in Nat
                                     /\ Cardinality(S) <= Cardinality(Seen)
<1>1. Len(original) - Len(src) - 1 \in Int
  BY DEF PatchTypeOK
<1>2. IsFiniteSet(0..(Len(original) - Len(src) - 1))
  BY <1>1, FS_Interval
<1>3. Seen \subseteq 0..(Len(original) - Len(src) - 1)
  BY DEF Seen, Places
<1>4. IsFiniteSet(Seen)
  BY <1>2, <1>3, FS_Subset
<1>. QED  BY <1>4, FS_Subset, FS_CardinalityType

\* While the image is the file, the places Find looks at are those of the file.
LEMMA SearchedPlaces ==
  ASSUME PatchTypeOK, fbuf = original
  PROVE  FoundAt(offset) = {i \in Seen : i >= offset}
BY DEF PatchTypeOK, FoundAt, Seen, Places, size

\* Overwriting keeps the length, and changes what lies under the new bytes.
LEMMA OverwriteIs ==
  ASSUME NEW image \in Seq(Bytes), NEW place \in Nat, NEW bytes \in Seq(Bytes)
  PROVE  /\ Overwrite(image, place, bytes) \in Seq(Bytes)
         /\ DOMAIN Overwrite(image, place, bytes) = DOMAIN image
         /\ Len(Overwrite(image, place, bytes)) = Len(image)
         /\ \A i \in DOMAIN image :
              Overwrite(image, place, bytes)[i] = IF i - place \in DOMAIN bytes THEN bytes[i - place] ELSE image[i]
<1>. DEFINE o == Overwrite(image, place, bytes)
<1>1. DOMAIN image = 1..Len(image) /\ Len(image) \in Nat
  OBVIOUS
<1>2. o = [i \in 1..Len(image) |-> IF i - place \in DOMAIN bytes THEN bytes[i - place] ELSE image[i]]
  BY <1>1 DEF Overwrite
<1>3. \A i \in 1..Len(image) : o[i] \in Bytes
  BY <1>1, <1>2
<1>4. o \in [1..Len(image) -> Bytes]
  BY <1>2, <1>3
<1>. HIDE DEF o
<1>5. o \in Seq(Bytes) /\ Len(o) = Len(image)
  BY <1>1, <1>4, BytesAreSequences
<1>. QED  BY <1>1, <1>2, <1>5 DEF o

\* What is expected to be patched, once the search is over.
LEMMA FoundIsExpected ==
  ASSUME PatchTypeOK, ImageInv, SearchInv, patching = "found"
  PROVE  IF nResults # 0 /\ Selected THEN offsetFound \in Expected ELSE Expected = {}
<1>1. \A S \in SUBSET Seen : Cardinality(S) \in Nat /\ Cardinality(S) <= Cardinality(Seen)
  BY PlacesFinite
<1>2. nResults # 0 => offsetFound \in Seen /\ Below(offset) = {i \in Seen : i <= offsetFound}
  BY DEF SearchInv, PatchTypeOK, Below, Seen, Places
<1>3. CASE nResults # 0 /\ nResults = request.chunk
  BY <1>2, <1>3 DEF SearchInv, Expected, Selected
<1>4. CASE nResults = 1 /\ nResults # request.chunk
  <2>1. Below(offset) = Seen /\ Cardinality(Seen) = 1
    BY <1>4 DEF SearchInv
  <2>2. Seen = {offsetFound}
    BY <1>2, <1>4, <2>1, PlacesFinite, FS_Singleton
  <2>. QED  BY <1>4, <2>2 DEF Expected, Selected
<1>5. CASE nResults = 0 \/ ~Selected
  <2>1. nResults = Cardinality(Seen) /\ (request.chunk = 0 \/ nResults <= request.chunk)
    BY <1>5 DEF SearchInv, Selected, PatchTypeOK
  <2>. SUFFICES ASSUME NEW place \in Expected  PROVE FALSE
    BY <1>5
  <2>2. place \in Seen /\ nResults # 0 /\ nResults # 1 /\ nResults # request.chunk
    <3>1. Seen # {}
      BY DEF Expected
    <3>2. nResults # 0
      BY <2>1, <3>1, PlacesFinite, FS_EmptySet
    <3>. QED  BY <1>5, <3>2 DEF Selected, Expected
  <2>3. Seen # {place}
    BY <2>1, <2>2, FS_Singleton
  <2>. DEFINE upto == {i \in Seen : i <= place}
  <2>4. Cardinality(upto) = request.chunk /\ Cardinality(upto) <= nResults
    BY <1>1, <2>1, <2>3 DEF Expected
  <2>5. Cardinality(upto) # 0
    <3>1. place \in Int
      BY <2>2 DEF Seen, Places
    <3>2. place \in upto
      BY <2>2, <3>1
    <3>3. IsFiniteSet(upto)
      BY PlacesFinite
    <3>. QED  BY <3>2, <3>3, FS_EmptySet
  <2>. QED  BY <1>1, <2>1, <2>2, <2>4, <2>5 DEF PatchTypeOK
<1>. QED  BY <1>3, <1>4, <1>5 DEF Selected

\* A step of the patch command keeps all this.
LEMMA PatchKeeps == PatchInv /\ [PatchNext]_patchVars => PatchInv'
<1>. SUFFICES ASSUME PatchInv, [PatchNext]_patchVars  PROVE PatchInv'
  OBVIOUS
<1>0. CASE NoPatch
  BY <1>0 DEF PatchInv, NoPatch, PatchNext, patchVars, Refuse, Overrun, Load, Search, Patch, Write
<1>1. CASE PatchTypeOK /\ ImageInv /\ SearchInv /\ PatchedInv
  <2>. SUFFICES PatchTypeOK' /\ ImageInv' /\ SearchInv' /\ PatchedInv'
    BY DEF PatchInv
  <2>. USE <1>1
  <2>7. CASE Overrun
    <3>1. /\ patching = "begin" /\ patching' \in {"begin", "crashed"}
          /\ UNCHANGED <<original, file, fbuf, offset, offsetFound, nResults, res>>
      BY <2>7, Zenon DEF Overrun
    <3>2. request' \in [src : Seq(Bytes), dest : Seq(Bytes), chunk : Nat]
      <4>1. CASE UNCHANGED request
        BY <4>1 DEF PatchTypeOK
      <4>2. ASSUME NEW s \in Patterns, NEW d \in Patterns,
                   request' = [request EXCEPT !.src = s, !.dest = d]
            PROVE  request' \in [src : Seq(Bytes), dest : Seq(Bytes), chunk : Nat]
        BY <4>2, PatternsAre DEF PatchTypeOK
      <4>. QED  BY <2>7, <4>1, <4>2, Zenon DEF Overrun
    <3>3. src' \in Seq(Bytes) /\ dest' \in Seq(Bytes) /\ request'.chunk \in Nat
      BY <3>2 DEF src, dest
    <3>. QED  BY <3>1, <3>2, <3>3 DEF PatchTypeOK, ImageInv, SearchInv, PatchedInv
  <2>. SUFFICES ASSUME ~Overrun  PROVE PatchTypeOK' /\ ImageInv' /\ SearchInv' /\ PatchedInv'
    BY <2>7
  <2>0. /\ UNCHANGED <<original, request>>
        /\ src' = src /\ dest' = dest /\ Seen' = Seen /\ Expected' = Expected /\ Fits' = Fits
    BY DEF PatchNext, patchVars, Refuse, Load, Search, Patch, Write, src, dest, Seen, Places, Expected, Fits
  <2>1. CASE UNCHANGED patchVars
    BY <2>0, <2>1 DEF patchVars, PatchTypeOK, ImageInv, SearchInv, PatchedInv, Below,
                      OnlyThePlaceChanges, ReportedTruly
  <2>2. CASE Refuse
    BY <2>0, <2>2 DEF Refuse, PatchTypeOK, ImageInv, SearchInv, PatchedInv,
                      OnlyThePlaceChanges, ReportedTruly
  <2>3. CASE Load
    <3>1. CASE fbuf' = file /\ res' = Len(file) /\ patching' = "search"
      <4>1. Below(0) = {} /\ Cardinality({}) = 0
        BY FS_EmptySet DEF Below, Seen, Places
      <4>2. /\ UNCHANGED <<offset, offsetFound, nResults, file>>
            /\ offset = 0 /\ nResults = 0 /\ file = original /\ Fits
        BY <2>3 DEF Load, ImageInv
      <4>3. Len(file) \in Nat /\ Len(file) # 0
        BY <4>2 DEF PatchTypeOK, Fits
      <4>4. PatchTypeOK' /\ ImageInv' /\ PatchedInv'
        BY <2>0, <3>1, <4>2, <4>3 DEF PatchTypeOK, ImageInv, PatchedInv
      <4>5. Below(offset)' = {}
        BY <2>0, <4>1, <4>2 DEF Below
      <4>6. SearchInv'
        <5>1. nResults' = 0 /\ offset' = 0 /\ patching' = "search" /\ request'.chunk \in Nat
          BY <2>0, <3>1, <4>2 DEF PatchTypeOK
        <5>2. Cardinality(Below(offset)') = 0
          BY <4>1, <4>5
        <5>. QED  BY <5>1, <5>2 DEF SearchInv
      <4>. QED  BY <4>4, <4>6
    <3>2. CASE fbuf' = <<>> /\ res' = 1 /\ patching' = "done"
      BY <2>0, <2>3, <3>2 DEF Load, PatchTypeOK, ImageInv, SearchInv, PatchedInv,
                              OnlyThePlaceChanges, ReportedTruly
    <3>. QED  BY <2>3, <3>1, <3>2 DEF Load
  <2>4. CASE Search
    <3>0. /\ patching = "search" /\ UNCHANGED <<file, fbuf, res>>
          /\ fbuf = original /\ FoundAt(offset) = {i \in Seen : i >= offset}
      BY <2>4, SearchedPlaces DEF Search, ImageInv
    <3>1. CASE FoundAt(offset) = {} /\ patching' = "found" /\ UNCHANGED <<offset, offsetFound, nResults>>
      <4>1. Below(offset) = Seen
        BY <3>0, <3>1 DEF Below, Seen, Places, PatchTypeOK
      <4>. QED
        BY <2>0, <3>0, <3>1, <4>1 DEF PatchTypeOK, ImageInv, SearchInv, PatchedInv, Below
    <3>2. ASSUME NEW next \in FoundAt(offset), \A i \in FoundAt(offset) : next <= i,
                 nResults' = nResults + 1, offsetFound' = next, offset' = next + 1,
                 patching' = IF nResults' = request.chunk THEN "found" ELSE "search"
          PROVE  PatchTypeOK' /\ ImageInv' /\ SearchInv' /\ PatchedInv'
      <4>1. next \in Seen /\ next \in Nat /\ next >= offset
        BY <3>0 DEF Seen, Places
      <4>a. \A i \in Seen : i \in Nat
        BY DEF Seen, Places
      <4>b. \A i \in Seen : i >= offset => next <= i
        BY <3>0, <3>2
      <4>2. Below(next + 1) = Below(offset) \cup {next} /\ next \notin Below(offset)
        <5>1. ASSUME NEW i \in Seen  PROVE i < next + 1 <=> i < offset \/ i = next
          BY <4>1, <4>a, <4>b DEF PatchTypeOK
        <5>2. ~(next < offset)
          BY <4>1 DEF PatchTypeOK
        <5>. QED  BY <4>1, <5>1, <5>2 DEF Below
      <4>3. IsFiniteSet(Below(offset))
        BY PlacesFinite DEF Below
      <4>4. Cardinality(Below(next + 1)) = nResults + 1
        BY <3>0, <4>2, <4>3, FS_AddElement DEF SearchInv
      <4>5. Below(offset)' = Below(next + 1)
        BY <2>0, <3>2 DEF Below
      <4>6. PatchTypeOK' /\ ImageInv' /\ PatchedInv'
        BY <2>0, <3>0, <3>2, <4>1 DEF PatchTypeOK, ImageInv, PatchedInv
      <4>7. request.chunk = 0 \/ nResults + 1 <= request.chunk
        BY <3>0 DEF SearchInv, PatchTypeOK
      <4>8. SearchInv'
        BY <2>0, <3>2, <4>1, <4>4, <4>5, <4>7 DEF SearchInv, PatchTypeOK
      <4>. QED  BY <4>6, <4>8
    <3>. QED  BY <2>4, <3>1, <3>2 DEF Search
  <2>5. CASE Patch
    <3>1. patching = "found" /\ UNCHANGED <<file, offset, offsetFound, nResults, res>> /\ fbuf = original
      BY <2>5 DEF Patch, ImageInv
    <3>2. CASE nResults # 0 /\ Selected
      <4>1. fbuf' = Overwrite(original, offsetFound, dest) /\ patching' = "write"
        BY <2>5, <3>1, <3>2 DEF Patch, Patched
      <4>2. fbuf' \in Seq(Bytes)
        BY <4>1, OverwriteIs DEF PatchTypeOK
      <4>3. offsetFound \in Expected
        BY <3>1, <3>2, FoundIsExpected
      <4>. QED  BY <2>0, <3>1, <4>1, <4>2, <4>3 DEF PatchTypeOK, ImageInv, SearchInv, PatchedInv
    <3>3. CASE ~(nResults # 0 /\ Selected)
      <4>1. patching' = "done" /\ UNCHANGED fbuf
        BY <2>5, <3>3 DEF Patch
      <4>2. Expected = {}
        BY <3>1, <3>3, FoundIsExpected
      <4>3. file' = original' /\ res' # 0
        BY <2>0, <3>1 DEF ImageInv
      <4>. QED
        BY <2>0, <3>1, <4>1, <4>2, <4>3
        DEF PatchTypeOK, ImageInv, SearchInv, PatchedInv, OnlyThePlaceChanges, ReportedTruly
    <3>. QED  BY <3>2, <3>3
  <2>6. CASE Write
    <3>1. /\ patching = "write" /\ patching' = "done" /\ res' = 0
          /\ UNCHANGED <<fbuf, offset, offsetFound, nResults>>
          /\ file = original /\ Fits /\ offsetFound \in Expected
          /\ fbuf = Overwrite(original, offsetFound, dest)
      BY <2>6 DEF Write, ImageInv, PatchedInv
    <3>2. PICK written \in 0..size : file' = Overwrite(file, 0, SubSeq(fbuf, 1, written))
      BY <2>6 DEF Write
    <3>3. /\ fbuf \in Seq(Bytes) /\ size = Len(original) /\ original \in Seq(Bytes)
          /\ offsetFound \in Nat /\ dest \in Seq(Bytes)
      BY <3>1, OverwriteIs DEF PatchTypeOK, size
    <3>a. PICK part : part = SubSeq(fbuf, 1, written)
      OBVIOUS
    <3>4. part \in Seq(Bytes) /\ DOMAIN part = 1..written /\ \A i \in 1..written : part[i] = fbuf[i]
      BY <3>2, <3>3, <3>a, SubSeqProperties DEF size
    <3>5. /\ file' \in Seq(Bytes) /\ DOMAIN file' = DOMAIN original
          /\ \A i \in DOMAIN original : file'[i] = IF i - 0 \in DOMAIN part THEN part[i - 0] ELSE original[i]
      <4>1. file' = Overwrite(original, 0, part) /\ 0 \in Nat
        BY <3>1, <3>2, <3>a
      <4>2. PICK f : f = Overwrite(original, 0, part)
        OBVIOUS
      <4>3. /\ f \in Seq(Bytes) /\ DOMAIN f = DOMAIN original
            /\ \A i \in DOMAIN original : f[i] = IF i - 0 \in DOMAIN part THEN part[i - 0] ELSE original[i]
        BY <3>3, <3>4, <4>1, <4>2, OverwriteIs
      <4>. QED  BY <4>1, <4>2, <4>3
    <3>6. ASSUME NEW i \in DOMAIN file', file'[i] # original[i]
          PROVE  i - offsetFound \in DOMAIN dest /\ file'[i] = dest[i - offsetFound]
      <4>1. i \in DOMAIN original /\ i - 0 = i
        BY <3>3, <3>5
      <4>2. i \in 1..written /\ file'[i] = fbuf[i]
        BY <3>4, <3>5, <3>6, <4>1
      <4>. QED  BY <3>1, <3>3, <3>6, <4>1, <4>2, OverwriteIs
    <3>7. OnlyThePlaceChanges'
      BY <2>0, <3>1, <3>6 DEF OnlyThePlaceChanges
    <3>8. ReportedTruly'
      BY <2>0, <3>1 DEF ReportedTruly, Fits
    <3>. QED
      BY <2>0, <3>1, <3>3, <3>5, <3>7, <3>8 DEF PatchTypeOK, ImageInv, SearchInv, PatchedInv
  <2>. QED  BY <2>1, <2>2, <2>3, <2>4, <2>5, <2>6 DEF PatchNext
<1>. QED  BY <1>0, <1>1 DEF PatchInv

\* What the file becomes and what the command says of it.
LEMMA PatchPromise == PatchInv => OnlyThePlaceChanges /\ ReportedTruly
<1>. SUFFICES ASSUME PatchInv  PROVE OnlyThePlaceChanges /\ ReportedTruly
  OBVIOUS
<1>1. CASE NoPatch
  BY <1>1 DEF NoPatch, OnlyThePlaceChanges, ReportedTruly
<1>2. CASE PatchTypeOK /\ ImageInv /\ SearchInv /\ PatchedInv
  BY <1>2 DEF ImageInv, PatchedInv, OnlyThePlaceChanges, ReportedTruly
<1>. QED  BY <1>1, <1>2 DEF PatchInv

-----------------------------------------------------------------------------
(* Runaway.                                                                *)

Half == 2^(Width - 1)

ThreadRecords == [id : Ids, user : Nat, kernel : Nat, elapsed : Nat]

\* What a thread did from one report to the other.
GrownUp(old, now, d) == /\ now.elapsed = old.elapsed + d
                        /\ now.user - old.user \in 0..MaxBusy /\ now.kernel - old.kernel \in 0..MaxBusy

\* A thread that was not there before has worked little.
Newborn(t) == t.user \in 0..MaxBusy /\ t.kernel \in 0..MaxBusy

\* The reports are of one process at two moments: who has the identifier of a
\* thread before is that thread, or a new one.
ReportsInv ==
  /\ late \in {1, 2} /\ delay \in Nat \ {0} /\ reports \in [{1, 2} -> Seq(ThreadRecords)]
  /\ \A f \in {1, 2} : Distinct(reports[f])
  /\ \A i \in DOMAIN reports[3 - late], j \in DOMAIN reports[late] :
       reports[3 - late][i].id = reports[late][j].id =>
         GrownUp(reports[3 - late][i], reports[late][j], delay) \/ Newborn(reports[late][j])

\* A number and what is stay of it.
LEMMA Remainder ==
  ASSUME NEW n \in Nat \ {0}, NEW q \in Int, NEW r \in 0..(n - 1)
  PROVE  (q * n + r) % n = r
<1>1. PICK a \in Int : a = q * n + r
  OBVIOUS
<1>2. ASSUME NEW b \in Int, b = q * n + r, r \in Nat, r < n  PROVE b % n = r
  BY <1>2
<1>. QED  BY <1>1, <1>2

LEMMA Quotient ==
  ASSUME NEW n \in Nat \ {0}, NEW a \in Nat
  PROVE  \E q \in Int : a = q * n + (a % n) /\ a % n \in 0..(n - 1)
<1>1. PICK q \in Int : q = a \div n
  OBVIOUS
<1>2. q * n <= a /\ a < (q + 1) * n
  BY <1>1
<1>3. q * n \in Int /\ (q + 1) * n = q * n + n
  OBVIOUS
<1>4. PICK r \in Int : r = a - q * n
  BY <1>3
<1>5. r \in 0..(n - 1) /\ a = q * n + r
  BY <1>2, <1>3, <1>4
<1>6. a % n = r
  BY <1>5, Remainder
<1>. QED  BY <1>5, <1>6

\* The difference of two words is the difference of the numbers they are of,
\* when that is less than half of the range.
LEMMA SignedDifference ==
  ASSUME NEW a \in Nat, NEW b \in Nat, b - a \in 0..(Half - 1)
  PROVE  /\ Signed(Word(b) - Word(a)) = b - a
         /\ Signed(Word(a) - Word(b)) = a - b
<1>1. PICK n \in Nat \ {0} : n = 2^Width
  BY RunawayAssumption
<1>2. Half \in Nat \ {0} /\ n = 2 * Half
  BY <1>1, RunawayAssumption DEF Half
<1>3. PICK qa \in Int : a = qa * n + (a % n) /\ a % n \in 0..(n - 1)
  BY Quotient
<1>4. PICK qb \in Int : b = qb * n + (b % n) /\ b % n \in 0..(n - 1)
  BY Quotient
<1>5. PICK q \in Int, p \in Int : q = qa - qb /\ p = qb - qa - 1
  OBVIOUS
<1>6. /\ qa * n \in Int /\ qb * n \in Int
      /\ q * n = qa * n - qb * n /\ p * n = qb * n - qa * n - n
  BY <1>5
<1>7. PICK d \in 0..(Half - 1) : d = b - a
  OBVIOUS
<1>8. d \in 0..(n - 1) /\ (b % n) - (a % n) = q * n + d
  BY <1>2, <1>3, <1>4, <1>6, <1>7
<1>9. ((b % n) - (a % n)) % n = d
  BY <1>8, Remainder
<1>10. CASE d = 0
  <2>1. a = b
    BY <1>7, <1>10
  <2>. QED  BY <1>1, <1>2, <1>7, <1>9, <1>10, <2>1 DEF Signed, Word, Half
<1>11. CASE d # 0
  <2>1. n - d \in 0..(n - 1) /\ (a % n) - (b % n) = p * n + (n - d)
    BY <1>2, <1>3, <1>4, <1>6, <1>7, <1>11
  <2>2. ((a % n) - (b % n)) % n = n - d
    BY <2>1, Remainder
  <2>. QED  BY <1>1, <1>2, <1>7, <1>9, <2>2 DEF Signed, Word, Half
<1>. QED  BY <1>10, <1>11

\* Those who are stay of some threads are some of them, each once.
LEMMA SurvivorsAre ==
  ASSUME NEW ts \in Seq(ThreadRecords), Distinct(ts), NEW stay \in Survivors(ts)
  PROVE  /\ stay \in Seq(ThreadRecords) /\ Distinct(stay)
         /\ \A i \in DOMAIN stay : \E j \in DOMAIN ts : stay[i] = ts[j]
<1>1. PICK up \in Rising(Len(ts)) : stay = [i \in DOMAIN up |-> ts[up[i]]]
  BY DEF Survivors
<1>2. PICK m \in 0..Len(ts) : up \in [1..m -> 1..Len(ts)]
  BY <1>1 DEF Rising
<1>3. \A i, j \in 1..m : i < j => up[i] < up[j]
  BY <1>1, <1>2 DEF Rising
<1>4. \A i, j \in 1..m : up[i] = up[j] => i = j
  BY <1>2, <1>3
<1>5. DOMAIN stay = 1..m /\ \A i \in 1..m : stay[i] = ts[up[i]] /\ up[i] \in DOMAIN ts
  BY <1>1, <1>2
<1>6. stay \in [1..m -> ThreadRecords]
  BY <1>1, <1>2, <1>5
<1>7. stay \in Seq(ThreadRecords)
  BY <1>6, SeqDef
<1>. QED  BY <1>4, <1>5, <1>7 DEF Distinct

LEMMA OneOlder ==
  ASSUME NEW t \in ThreadRecords, NEW u \in 0..MaxBusy, NEW k \in 0..MaxBusy, NEW d \in Nat, NEW r,
         r = [id |-> t.id, user |-> t.user + u, kernel |-> t.kernel + k, elapsed |-> t.elapsed + d]
  PROVE  r \in ThreadRecords /\ r.id = t.id /\ GrownUp(t, r, d)
<1>1. t.id \in Ids /\ t.user \in Nat /\ t.kernel \in Nat /\ t.elapsed \in Nat
  BY DEF ThreadRecords
<1>2. u \in Nat /\ k \in Nat
  BY RunawayAssumption
<1>3. t.user + u \in Nat /\ t.kernel + k \in Nat /\ t.elapsed + d \in Nat
  BY <1>1, <1>2
<1>4. r \in ThreadRecords
  BY <1>1, <1>3 DEF ThreadRecords
<1>5. r.id = t.id /\ r.user = t.user + u /\ r.kernel = t.kernel + k /\ r.elapsed = t.elapsed + d
  OBVIOUS
<1>. QED  BY <1>1, <1>2, <1>4, <1>5 DEF GrownUp

\* Time has passed for all of them.
LEMMA AgedAre ==
  ASSUME NEW ts \in Seq(ThreadRecords), Distinct(ts), NEW d \in Nat,
         NEW u \in [DOMAIN ts -> 0..MaxBusy], NEW k \in [DOMAIN ts -> 0..MaxBusy]
  PROVE  /\ Aged(ts, d, u, k) \in Seq(ThreadRecords) /\ Len(Aged(ts, d, u, k)) = Len(ts)
         /\ \A i \in 1..Len(ts) : /\ Aged(ts, d, u, k)[i].id = ts[i].id
                                 /\ GrownUp(ts[i], Aged(ts, d, u, k)[i], d)
<1>1. ASSUME NEW i \in 1..Len(ts)
      PROVE  /\ Aged(ts, d, u, k)[i] \in ThreadRecords /\ Aged(ts, d, u, k)[i].id = ts[i].id
             /\ GrownUp(ts[i], Aged(ts, d, u, k)[i], d)
  <2>1. PICK t \in ThreadRecords : t = ts[i]
    OBVIOUS
  <2>2. PICK ui \in 0..MaxBusy, ki \in 0..MaxBusy : ui = u[i] /\ ki = k[i]
    OBVIOUS
  <2>3. PICK r : r = [id |-> t.id, user |-> t.user + ui, kernel |-> t.kernel + ki, elapsed |-> t.elapsed + d]
    OBVIOUS
  <2>4. Aged(ts, d, u, k)[i] = r
    BY <2>1, <2>2, <2>3 DEF Aged
  <2>5. r \in ThreadRecords /\ r.id = t.id /\ GrownUp(t, r, d)
    BY <2>3, OneOlder
  <2>. QED  BY <2>1, <2>4, <2>5
<1>2. PICK n \in Nat : n = Len(ts)
  OBVIOUS
<1>3. PICK older \in [1..n -> ThreadRecords] : older = Aged(ts, d, u, k)
  <2>1. Aged(ts, d, u, k) = [i \in 1..n |-> Aged(ts, d, u, k)[i]]
    BY <1>2 DEF Aged
  <2>. QED  BY <1>1, <1>2, <2>1
<1>4. older \in Seq(ThreadRecords) /\ Len(older) = n
  BY <1>3, SeqDef
<1>. QED  BY <1>1, <1>2, <1>3, <1>4

\* Who is in both reports is one thread, older, or a new one with an identifier
\* used again.
LEMMA SuccessorsAre ==
  ASSUME NEW ts \in Seq(ThreadRecords), Distinct(ts), NEW d \in Nat \ {0}, NEW stay \in Survivors(ts),
         NEW u \in [DOMAIN stay -> 0..MaxBusy], NEW k \in [DOMAIN stay -> 0..MaxBusy],
         NEW new \in BoundedSeq(NewThreads(d), Cardinality(Ids)),
         NEW now, now = Aged(stay, d, u, k) \o new
  PROVE  /\ now \in Seq(ThreadRecords)
         /\ \A i \in DOMAIN ts, j \in DOMAIN now :
              ts[i].id = now[j].id => GrownUp(ts[i], now[j], d) \/ Newborn(now[j])
<1>6. new \in Seq(NewThreads(d))
  <2>1. Cardinality(Ids) \in Nat
    BY RunawayAssumption, FS_CardinalityType
  <2>. QED  BY <2>1, BoundedIsSeq
<1>7. NewThreads(d) \subseteq ThreadRecords
  BY DEF NewThreads, ThreadRecords
<1>8. new \in Seq(ThreadRecords)
  BY <1>6, <1>7
<1>9. /\ stay \in Seq(ThreadRecords) /\ Distinct(stay)
      /\ \A i \in DOMAIN stay : \E j \in DOMAIN ts : stay[i] = ts[j]
  BY SurvivorsAre
<1>10. PICK older : older = Aged(stay, d, u, k)
  OBVIOUS
<1>11. /\ older \in Seq(ThreadRecords) /\ Len(older) = Len(stay)
       /\ \A i \in 1..Len(stay) : older[i].id = stay[i].id /\ GrownUp(stay[i], older[i], d)
  <2>1. d \in Nat
    OBVIOUS
  <2>. QED  BY <1>9, <1>10, <2>1, AgedAre
<1>12. now \in Seq(ThreadRecords)
  BY <1>8, <1>10, <1>11
<1>13. ASSUME NEW i \in DOMAIN ts, NEW j \in DOMAIN now, ts[i].id = now[j].id
       PROVE  GrownUp(ts[i], now[j], d) \/ Newborn(now[j])
  <2>1. CASE j \in 1..Len(older)
    <3>1. now[j] = older[j]
      BY <1>8, <1>10, <1>11, <2>1
    <3>2. PICK h \in DOMAIN ts : stay[j] = ts[h]
      BY <1>9, <1>11, <2>1
    <3>3. ts[h].id = ts[i].id
      BY <1>11, <1>13, <2>1, <3>1, <3>2
    <3>4. h = i
      BY <3>3 DEF Distinct
    <3>. QED  BY <1>11, <2>1, <3>1, <3>2, <3>4
  <2>2. CASE j \notin 1..Len(older)
    <3>1. PICK h \in DOMAIN new : now[j] = new[h]
      <4>1. j \in 1..(Len(older) + Len(new)) /\ Len(older) \in Nat /\ Len(new) \in Nat
        BY <1>8, <1>10, <1>11, <1>12
      <4>2. PICK h \in Int : h = j - Len(older)
        BY <4>1
      <4>4. h \in 1..Len(new) /\ j = Len(older) + h
        
        <5>1. PICK a \in Nat, b \in Nat : a = Len(older) /\ b = Len(new)
          BY <4>1
        <5>2. j \in 1..(a + b) /\ j \notin 1..a /\ h = j - a
          BY <2>2, <4>1, <4>2, <5>1
        <5>3. h \in 1..b /\ j = a + h
          BY <5>2
        <5>. QED  BY <5>1, <5>3
      <4>3. now[j] = new[h]
        BY <1>8, <1>10, <1>11, <4>1, <4>4
      <4>. QED  BY <4>3, <4>4, <1>8
    <3>2. new[h] \in NewThreads(d)
      BY <1>6, <3>1
    <3>. QED  BY <3>1, <3>2, RunawayAssumption DEF NewThreads, Newborn
  <2>. QED  BY <2>1, <2>2
<1>. QED  BY <1>12, <1>13

LEMMA ReportsBegin == RunawayInit => ReportsInv
<1>. SUFFICES ASSUME RunawayInit  PROVE ReportsInv
  OBVIOUS
<1>1. late \in {1, 2} /\ delay \in Nat \ {0}
  BY RunawayAssumption DEF RunawayInit
<1>2. PICK d \in Nat \ {0} : d = delay
  BY <1>1
<1>3. PICK before \in Processes : \E stay \in Survivors(before) :
        \E u \in [DOMAIN stay -> 0..MaxBusy], k \in [DOMAIN stay -> 0..MaxBusy] :
        \E new \in BoundedSeq(NewThreads(d), Cardinality(Ids)) :
          /\ Distinct(Aged(stay, d, u, k) \o new)
          /\ reports = IF late = 1 THEN <<Aged(stay, d, u, k) \o new, before>>
                       ELSE <<before, Aged(stay, d, u, k) \o new>>
  BY <1>2 DEF RunawayInit
<1>4. before \in Seq(ThreadRecords) /\ Distinct(before)
  <2>1. before \in BoundedSeq(Threads, Cardinality(Ids)) /\ Distinct(before)
    BY DEF Processes
  <2>2. Cardinality(Ids) \in Nat
    BY RunawayAssumption, FS_CardinalityType
  <2>3. before \in Seq(Threads)
    BY <2>1, <2>2, BoundedIsSeq
  <2>4. Threads \subseteq ThreadRecords
    <3>1. 0..MaxBusy \subseteq Nat /\ Ages \subseteq Nat
      BY RunawayAssumption
    <3>. SUFFICES ASSUME NEW t \in Threads  PROVE t \in ThreadRecords
      OBVIOUS
    <3>2. t.id \in Ids /\ t.user \in 0..MaxBusy /\ t.kernel \in 0..MaxBusy /\ t.elapsed \in Ages
          /\ t = [id |-> t.id, user |-> t.user, kernel |-> t.kernel, elapsed |-> t.elapsed]
      BY DEF Threads
    <3>. QED  BY <3>1, <3>2 DEF ThreadRecords
  <2>. QED  BY <2>1, <2>3, <2>4
<1>5. PICK stay \in Survivors(before) :
        \E u \in [DOMAIN stay -> 0..MaxBusy], k \in [DOMAIN stay -> 0..MaxBusy] :
        \E new \in BoundedSeq(NewThreads(d), Cardinality(Ids)) :
          /\ Distinct(Aged(stay, d, u, k) \o new)
          /\ reports = IF late = 1 THEN <<Aged(stay, d, u, k) \o new, before>>
                       ELSE <<before, Aged(stay, d, u, k) \o new>>
  BY <1>3
<1>6. PICK after :
      /\ after \in Seq(ThreadRecords) /\ Distinct(after)
      /\ \A i \in DOMAIN before, j \in DOMAIN after :
           before[i].id = after[j].id => GrownUp(before[i], after[j], delay) \/ Newborn(after[j])
      /\ reports = IF late = 1 THEN <<after, before>> ELSE <<before, after>>
  <2>. PICK u \in [DOMAIN stay -> 0..MaxBusy], k \in [DOMAIN stay -> 0..MaxBusy] :
        \E new \in BoundedSeq(NewThreads(d), Cardinality(Ids)) :
          /\ Distinct(Aged(stay, d, u, k) \o new)
          /\ reports = IF late = 1 THEN <<Aged(stay, d, u, k) \o new, before>>
                       ELSE <<before, Aged(stay, d, u, k) \o new>>
    BY <1>5
  <2>1. PICK new \in BoundedSeq(NewThreads(d), Cardinality(Ids)) :
          /\ Distinct(Aged(stay, d, u, k) \o new)
          /\ reports = IF late = 1 THEN <<Aged(stay, d, u, k) \o new, before>>
                       ELSE <<before, Aged(stay, d, u, k) \o new>>
    OBVIOUS
  <2>2. PICK after : after = Aged(stay, d, u, k) \o new
    OBVIOUS
  <2>3. /\ after \in Seq(ThreadRecords)
        /\ \A i \in DOMAIN before, j \in DOMAIN after :
             before[i].id = after[j].id => GrownUp(before[i], after[j], d) \/ Newborn(after[j])
    BY <1>4, <2>2, SuccessorsAre
  <2>. QED  BY <1>2, <2>1, <2>2, <2>3
<1>7. reports[late] = after /\ reports[3 - late] = before /\ reports[1] \in {after, before}
      /\ reports[2] \in {after, before} /\ DOMAIN reports = {1, 2}
  BY <1>1, <1>6
<1>8. reports \in [{1, 2} -> Seq(ThreadRecords)]
  <2>1. CASE late = 1
    BY <1>4, <1>6, <2>1
  <2>2. CASE late # 1
    BY <1>4, <1>6, <2>2
  <2>. QED  BY <2>1, <2>2
<1>. QED  BY <1>1, <1>4, <1>6, <1>7, <1>8 DEF ReportsInv

LineOf(ts, i, m) == [no |-> i - 1, id |-> ts[i].id, time |-> Word(ts[i][m])]

\* What an array says of thread number no when n of its three lines are read.
PartEntry(t, no, n) ==
  IF n = 0 THEN Blank
  ELSE [no |-> no, id |-> t.id, user |-> Word(t.user),
        kernel |-> IF n >= 2 THEN Word(t.kernel) ELSE 0, elapsed |-> IF n = 3 THEN Word(t.elapsed) ELSE 0]

ArrayEntries == [no : Int, id : Ids \cup {0}, user : Nat, kernel : Nat, elapsed : Nat]

\* How many lines of the i-th thread of a file are read.
LinesRead(f, i) == IF stage > f THEN 3
                   ELSE IF stage < f \/ mode = 0 THEN 0
                   ELSE IF LineOf(reports[f], i, Modes[mode]) \in unread THEN mode - 1 ELSE mode

PlaceInFile == /\ stage \in 1..4 /\ mode \in 0..3
               /\ stage >= 3 \/ mode = 0 => unread = {}
               /\ stage < 3 /\ mode > 0 => unread \subseteq Lines(reports[stage], Modes[mode])

\* Every entry says what the lines read so far say of its thread.
LoadInv ==
  /\ arrays \in [{1, 2} -> Seq(ArrayEntries)]
  /\ \A f \in {1, 2} : \A i \in DOMAIN reports[f] : LinesRead(f, i) > 0 => i \in DOMAIN arrays[f]
  /\ \A f \in {1, 2} : \A i \in DOMAIN arrays[f] :
       arrays[f][i] = IF i \in DOMAIN reports[f] THEN PartEntry(reports[f][i], i - 1, LinesRead(f, i)) ELSE Blank

LEMMA WordIs == ASSUME NEW t \in Nat  PROVE Word(t) \in Nat
<1>1. PICK n \in Nat \ {0} : n = 2^Width
  BY RunawayAssumption
<1>. QED  BY <1>1 DEF Word

LEMMA PartEntryIs ==
  ASSUME NEW t \in ThreadRecords, NEW no \in Nat, NEW n \in 0..3
  PROVE  PartEntry(t, no, n) \in ArrayEntries /\ (PartEntry(t, no, n).no = no <=> n > 0)
<1>1. t.id \in Ids /\ Word(t.user) \in Nat /\ Word(t.kernel) \in Nat /\ Word(t.elapsed) \in Nat
  BY WordIs DEF ThreadRecords
<1>2. CASE n = 0
  BY <1>2 DEF PartEntry, ArrayEntries, Blank
<1>3. CASE n # 0
  BY <1>1, <1>3 DEF PartEntry, ArrayEntries
<1>. QED  BY <1>2, <1>3

\* An array that has grown is as it was, and blank beyond that.
LEMMA GrownIs ==
  ASSUME NEW array \in Seq(ArrayEntries), NEW no \in Nat
  PROVE  /\ Grown(array, no) \in Seq(ArrayEntries)
         /\ no + 1 \in DOMAIN Grown(array, no) /\ Len(Grown(array, no)) >= Len(array)
         /\ \A i \in DOMAIN Grown(array, no) :
              Grown(array, no)[i] = IF i \in DOMAIN array THEN array[i] ELSE Blank
<1>1. CASE no < Len(array)
  <2>1. Grown(array, no) = array
    BY <1>1 DEF Grown
  <2>. QED  BY <1>1, <2>1
<1>2. CASE ~(no < Len(array))
  <2>1. PICK n \in Nat \ {0} : n = no + 1 - Len(array)
    BY <1>2
  <2>2. PICK more : more = Blanks(n)
    OBVIOUS
  <2>3. Blank \in ArrayEntries
    BY DEF Blank, ArrayEntries
  <2>4. more \in [1..n -> ArrayEntries] /\ \A i \in 1..n : more[i] = Blank
    BY <2>2, <2>3 DEF Blanks
  <2>5. more \in Seq(ArrayEntries) /\ Len(more) = n
    BY <2>4, SeqDef
  <2>6. Grown(array, no) = array \o more
    BY <1>2, <2>1, <2>2 DEF Grown
  <2>7. PICK grown : grown = array \o more
    OBVIOUS
  <2>8. grown \in Seq(ArrayEntries) /\ Len(grown) = Len(array) + n
    <3>1. grown \in Seq(ArrayEntries) /\ Len(grown) = Len(array) + Len(more)
      BY <2>5, <2>7, ConcatProperties
    <3>. QED  BY <2>5, <3>1
  <2>9. ASSUME NEW i \in DOMAIN grown  PROVE grown[i] = IF i \in DOMAIN array THEN array[i] ELSE Blank
    <3>1. CASE i \in DOMAIN array
      BY <2>5, <2>7, <3>1
    <3>2. CASE i \notin DOMAIN array
      <4>1. PICK k \in 1..n : i = Len(array) + k
        <5>1. i \in 1..(Len(array) + n) /\ i \notin 1..Len(array)
          BY <2>8, <3>2
        <5>2. PICK a \in Nat : a = Len(array)
          OBVIOUS
        <5>3. i - a \in 1..n /\ i = a + (i - a)
          BY <5>1, <5>2
        <5>. QED  BY <5>2, <5>3
      <4>2. grown[i] = more[k]
        BY <2>5, <2>7, <4>1
      <4>. QED  BY <2>4, <3>2, <4>1, <4>2
    <3>. QED  BY <3>1, <3>2
  <2>. QED  BY <2>1, <2>6, <2>7, <2>8, <2>9
<1>. QED  BY <1>1, <1>2

\* An array that has n lines of a thread, and one that has got another.
SaysOf(array, who, t, n) == /\ n > 0 => who \in DOMAIN array
                            /\ who \in DOMAIN array => array[who] = PartEntry(t, who - 1, n)

SaysNow(array, new, who, t, n) ==
  /\ new \in Seq(ArrayEntries) /\ Len(new) >= Len(array)
  /\ who \in DOMAIN new /\ new[who] = PartEntry(t, who - 1, n)
  /\ \A i \in DOMAIN new : i # who => new[i] = IF i \in DOMAIN array THEN array[i] ELSE Blank

\* Storing a thread's next line brings its row up to that and leaves the
\* others alone.
LEMMA StoreIs ==
  ASSUME NEW array \in Seq(ArrayEntries), NEW n \in 0..2, NEW no \in Nat, NEW t \in ThreadRecords,
         SaysOf(array, no + 1, t, n), NEW line, line = [no |-> no, id |-> t.id, time |-> Word(t[Modes[n + 1]])],
         NEW new, new = Store(array, line, Modes[n + 1])
  PROVE  SaysNow(array, new, no + 1, t, n + 1)
<1>. no + 1 - 1 = no
  OBVIOUS
<1>1. PICK grown : grown = Grown(array, no)
  OBVIOUS
<1>2. /\ grown \in Seq(ArrayEntries) /\ no + 1 \in DOMAIN grown /\ Len(grown) >= Len(array)
      /\ \A i \in DOMAIN grown : grown[i] = IF i \in DOMAIN array THEN array[i] ELSE Blank
  BY <1>1, GrownIs
<1>3. grown[no + 1] = PartEntry(t, no, n)
  <2>1. CASE no + 1 \in DOMAIN array
    BY <1>2, <2>1 DEF SaysOf
  <2>2. CASE no + 1 \notin DOMAIN array
    BY <1>2, <2>2 DEF PartEntry, SaysOf
  <2>. QED  BY <2>1, <2>2
<1>4. PICK row : row = IF n > 0 THEN PartEntry(t, no, n) ELSE [Blank EXCEPT !.no = no, !.id = t.id]
  OBVIOUS
<1>5. new = [grown EXCEPT ![no + 1] = [row EXCEPT ![Modes[n + 1]] = Word(t[Modes[n + 1]])]]
  <2>1. line.no = no /\ line.id = t.id /\ line.time = Word(t[Modes[n + 1]])
    OBVIOUS
  <2>2. FindByNo(grown, no) <=> n > 0
    BY <1>3, PartEntryIs DEF FindByNo
  <2>. QED  BY <1>1, <1>3, <1>4, <2>1, <2>2 DEF Store
<1>6. [row EXCEPT ![Modes[n + 1]] = Word(t[Modes[n + 1]])] = PartEntry(t, no, n + 1)
  <2>1. CASE n = 0
    <3>1. row = [no |-> no, id |-> t.id, user |-> 0, kernel |-> 0, elapsed |-> 0]
      <4>1. [Blank EXCEPT !.no = no] = [no |-> no, id |-> 0, user |-> 0, kernel |-> 0, elapsed |-> 0]
        BY DEF Blank
      <4>2. PICK r : r = [no |-> no, id |-> 0, user |-> 0, kernel |-> 0, elapsed |-> 0]
        OBVIOUS
      <4>3. [r EXCEPT !.id = t.id] = [no |-> no, id |-> t.id, user |-> 0, kernel |-> 0, elapsed |-> 0]
        BY <4>2
      <4>4. row = [[Blank EXCEPT !.no = no] EXCEPT !.id = t.id]
        BY <1>4, <2>1
      <4>. QED  BY <4>1, <4>2, <4>3, <4>4
    <3>2. Modes[n + 1] = "user"
      BY <2>1 DEF Modes
    <3>. QED  BY <2>1, <3>1, <3>2 DEF PartEntry
  <2>2. CASE n = 1
    <3>1. row = [no |-> no, id |-> t.id, user |-> Word(t.user), kernel |-> 0, elapsed |-> 0]
      BY <1>4, <2>2 DEF PartEntry
    <3>2. Modes[n + 1] = "kernel"
      BY <2>2 DEF Modes
    <3>. QED  BY <2>2, <3>1, <3>2 DEF PartEntry
  <2>3. CASE n = 2
    <3>1. row = [no |-> no, id |-> t.id, user |-> Word(t.user), kernel |-> Word(t.kernel), elapsed |-> 0]
      BY <1>4, <2>3 DEF PartEntry
    <3>2. Modes[n + 1] = "elapsed"
      BY <2>3 DEF Modes
    <3>. QED  BY <2>3, <3>1, <3>2 DEF PartEntry
  <2>. QED  BY <2>1, <2>2, <2>3
<1>7. PICK e \in ArrayEntries : e = PartEntry(t, no, n + 1)
  BY PartEntryIs
<1>8. new = [grown EXCEPT ![no + 1] = e]
  BY <1>5, <1>6, <1>7
<1>9. new \in Seq(ArrayEntries) /\ DOMAIN new = DOMAIN grown /\ Len(new) = Len(grown)
  BY <1>2, <1>8
<1>. QED  BY <1>2, <1>7, <1>8, <1>9 DEF SaysNow

\* What was compared is what was loaded.
CompareInv ==
  stage = 4 => /\ result = Compare(arrays[1], arrays[2])
               /\ diff = IF result > 0 THEN Diff(arrays[1], arrays[2])
                         ELSE IF result < 0 THEN Diff(arrays[2], arrays[1]) ELSE {}

ComparisonInv == ReportsInv /\ PlaceInFile /\ LoadInv /\ CompareInv

\* An array that is as it was, for threads of whom no more is read.
LEMMA ArrayStays ==
  ASSUME LoadInv, reports' = reports, arrays' = arrays, reports \in [{1, 2} -> Seq(ThreadRecords)],
         \A f \in {1, 2} : \A i \in DOMAIN reports[f] : LinesRead(f, i)' = LinesRead(f, i)
  PROVE  LoadInv'
BY DEF LoadInv

LEMMA HeadlineKeeps == ComparisonInv /\ Headline => PlaceInFile' /\ LoadInv'
<1>. SUFFICES ASSUME ComparisonInv, Headline  PROVE PlaceInFile' /\ LoadInv'
  OBVIOUS
<1>1. /\ stage \in {1, 2} /\ unread = {} /\ mode \in 0..2 /\ mode' = mode + 1 /\ stage' = stage
      /\ unread' = Lines(reports[stage], Modes[mode']) /\ reports' = reports /\ arrays' = arrays
  BY DEF Headline, ComparisonInv, PlaceInFile, Modes
<1>2. PlaceInFile'
  BY <1>1 DEF PlaceInFile
<1>3. \A f \in {1, 2} : \A i \in DOMAIN reports[f] : LinesRead(f, i)' = LinesRead(f, i)
  <2>. SUFFICES ASSUME NEW f \in {1, 2}, NEW i \in DOMAIN reports[f]  PROVE LinesRead(f, i)' = LinesRead(f, i)
    OBVIOUS
  <2>1. CASE stage = f
    <3>1. LineOf(reports[f], i, Modes[mode']) \in unread'
      BY <1>1, <2>1 DEF Lines, LineOf
    <3>2. LinesRead(f, i)' = mode
      BY <1>1, <2>1, <3>1 DEF LinesRead
    <3>3. LinesRead(f, i) = mode
      BY <1>1, <2>1 DEF LinesRead
    <3>. QED  BY <3>2, <3>3
  <2>2. CASE stage # f
    BY <1>1, <2>2 DEF LinesRead
  <2>. QED  BY <2>1, <2>2
<1>. QED  BY <1>1, <1>2, <1>3, ArrayStays DEF ComparisonInv, ReportsInv

LEMMA EndOfFileKeeps == ComparisonInv /\ EndOfFile => PlaceInFile' /\ LoadInv'
<1>. SUFFICES ASSUME ComparisonInv, EndOfFile  PROVE PlaceInFile' /\ LoadInv'
  OBVIOUS
<1>1. /\ stage \in {1, 2} /\ unread = {} /\ mode = 3 /\ mode' = 0 /\ stage' = stage + 1
      /\ unread' = {} /\ reports' = reports /\ arrays' = arrays
  BY DEF EndOfFile, ComparisonInv, PlaceInFile, Modes
<1>2. PlaceInFile'
  BY <1>1 DEF PlaceInFile
<1>3. \A f \in {1, 2} : \A i \in DOMAIN reports[f] : LinesRead(f, i)' = LinesRead(f, i)
  BY <1>1 DEF LinesRead
<1>. QED  BY <1>1, <1>2, <1>3, ArrayStays DEF ComparisonInv, ReportsInv

LEMMA LoadLineKeeps == ComparisonInv /\ LoadLine => PlaceInFile' /\ LoadInv'
<1>. SUFFICES ASSUME ComparisonInv, LoadLine  PROVE PlaceInFile' /\ LoadInv'
  OBVIOUS
<1>1. PICK line \in unread : /\ unread' = unread \ {line}
                             /\ arrays' = [arrays EXCEPT ![stage] = Store(@, line, Modes[mode])]
  BY DEF LoadLine
<1>2. stage \in {1, 2} /\ stage' = stage /\ mode' = mode /\ reports' = reports
  BY DEF LoadLine
<1>3. mode \in 1..3 /\ line \in Lines(reports[stage], Modes[mode])
  BY <1>1, <1>2 DEF ComparisonInv, PlaceInFile
<1>4. PlaceInFile'
  BY <1>1, <1>2, <1>3 DEF ComparisonInv, PlaceInFile
<1>5. PICK file0 \in {1, 2}, m \in 1..3 : file0 = stage /\ m = mode
  BY <1>2, <1>3
<1>6. PICK ts \in Seq(ThreadRecords), array \in Seq(ArrayEntries) : ts = reports[file0] /\ array = arrays[file0]
  BY DEF ComparisonInv, ReportsInv, LoadInv
<1>7. PICK who \in DOMAIN ts : line = LineOf(ts, who, Modes[m])
  BY <1>3, <1>5, <1>6 DEF Lines, LineOf
<1>8. PICK new : new = Store(array, line, Modes[m])
  OBVIOUS
<1>9. arrays' = [arrays EXCEPT ![file0] = new]
  BY <1>1, <1>5, <1>6, <1>8
<1>10. LinesRead(file0, who) = m - 1 /\ LinesRead(file0, who)' = m
  BY <1>1, <1>2, <1>5, <1>6, <1>7 DEF LinesRead
<1>11. \A f \in {1, 2} : \A i \in DOMAIN reports[f] : f # file0 \/ i # who => LinesRead(f, i)' = LinesRead(f, i)
  <2>. SUFFICES ASSUME NEW f \in {1, 2}, NEW i \in DOMAIN reports[f], f # file0 \/ i # who
                PROVE  LinesRead(f, i)' = LinesRead(f, i)
    OBVIOUS
  <2>1. CASE f = file0
    <3>1. LineOf(ts, i, Modes[m]) # line
      <4>1. i \in Int /\ who \in Int /\ i # who
        BY <1>6, <2>1
      <4>2. LineOf(ts, i, Modes[m]).no = i - 1 /\ LineOf(ts, who, Modes[m]).no = who - 1
        BY DEF LineOf
      <4>. QED  BY <1>7, <4>1, <4>2
    <3>. QED  BY <1>1, <1>2, <1>5, <1>6, <2>1, <3>1 DEF LinesRead
  <2>2. CASE f # file0
    BY <1>1, <1>2, <1>5, <2>2 DEF LinesRead
  <2>. QED  BY <2>1, <2>2
<1>12. /\ m - 1 > 0 => who \in DOMAIN array
       /\ who \in DOMAIN array => array[who] = PartEntry(ts[who], who - 1, m - 1)
  BY <1>6, <1>10 DEF ComparisonInv, LoadInv
<1>13. /\ new \in Seq(ArrayEntries) /\ Len(new) >= Len(array)
       /\ who \in DOMAIN new /\ new[who] = PartEntry(ts[who], who - 1, m)
       /\ \A i \in DOMAIN new : i # who => new[i] = IF i \in DOMAIN array THEN array[i] ELSE Blank
  <2>1. PICK t \in ThreadRecords : t = ts[who]
    BY <1>6
  <2>2. PICK no \in Nat, n \in 0..2 : no = who - 1 /\ n = m - 1
    BY <1>6
  <2>3. no + 1 = who /\ n + 1 = m
    BY <2>2
  <2>4. line = [no |-> no, id |-> t.id, time |-> Word(t[Modes[n + 1]])]
    BY <1>7, <2>1, <2>2, <2>3 DEF LineOf
  <2>5. SaysOf(array, no + 1, t, n)
    BY <1>12, <2>1, <2>2, <2>3 DEF SaysOf
  <2>6. new = Store(array, line, Modes[n + 1])
    BY <1>8, <2>3
  <2>7. SaysNow(array, new, no + 1, t, n + 1)
    BY <2>4, <2>5, <2>6, StoreIs
  <2>. QED  BY <2>1, <2>3, <2>7 DEF SaysNow
<1>14. arrays \in [{1, 2} -> Seq(ArrayEntries)]
  BY DEF ComparisonInv, LoadInv
<1>15. /\ arrays' \in [{1, 2} -> Seq(ArrayEntries)] /\ arrays'[file0] = new
       /\ \A f \in {1, 2} : f # file0 => arrays'[f] = arrays[f]
  BY <1>9, <1>13, <1>14
<1>16. DOMAIN array \subseteq DOMAIN new
  BY <1>13
<1>17. ASSUME NEW f \in {1, 2}, NEW i \in DOMAIN reports[f], LinesRead(f, i)' > 0  PROVE i \in DOMAIN arrays'[f]
  <2>1. CASE f = file0 /\ i = who
    BY <1>13, <1>15, <2>1
  <2>2. CASE f # file0 \/ i # who
    <3>1. i \in DOMAIN arrays[f]
      BY <1>11, <1>17, <2>2 DEF ComparisonInv, LoadInv
    <3>. QED  BY <1>6, <1>15, <1>16, <3>1
  <2>. QED  BY <2>1, <2>2
<1>18. ASSUME NEW f \in {1, 2}, NEW i \in DOMAIN arrays'[f]
       PROVE  arrays'[f][i] = IF i \in DOMAIN reports[f] THEN PartEntry(reports[f][i], i - 1, LinesRead(f, i)') ELSE Blank
  <2>1. CASE f = file0 /\ i = who
    BY <1>6, <1>10, <1>13, <1>15, <2>1
  <2>2. CASE f = file0 /\ i # who
    <3>1. i \in DOMAIN new /\ new[i] = IF i \in DOMAIN array THEN array[i] ELSE Blank
      BY <1>13, <1>15, <2>2
    <3>2. CASE i \in DOMAIN array
      <4>1. array[i] = IF i \in DOMAIN reports[f] THEN PartEntry(reports[f][i], i - 1, LinesRead(f, i)) ELSE Blank
        BY <1>6, <2>2, <3>2 DEF ComparisonInv, LoadInv
      <4>. QED  BY <1>11, <1>15, <2>2, <3>1, <3>2, <4>1
    <3>3. CASE i \notin DOMAIN array /\ i \in DOMAIN reports[f]
      <4>1. ~(LinesRead(f, i) > 0)
        BY <1>6, <2>2, <3>3 DEF ComparisonInv, LoadInv
      <4>2. LinesRead(f, i) = 0
        BY <1>2, <1>5, <2>2, <1>3, <4>1 DEF LinesRead
      <4>. QED  BY <1>11, <1>15, <2>2, <3>1, <3>3, <4>2 DEF PartEntry
    <3>. QED  BY <1>15, <2>2, <3>1, <3>2, <3>3
  <2>3. CASE f # file0
    <3>1. arrays'[f] = arrays[f] /\ i \in DOMAIN arrays[f]
      BY <1>15, <2>3
    <3>2. arrays[f][i] = IF i \in DOMAIN reports[f] THEN PartEntry(reports[f][i], i - 1, LinesRead(f, i)) ELSE Blank
      BY <3>1 DEF ComparisonInv, LoadInv
    <3>. QED  BY <1>11, <2>3, <3>1, <3>2
  <2>. QED  BY <2>1, <2>2, <2>3
<1>19. LoadInv'
  BY <1>2, <1>15, <1>17, <1>18 DEF LoadInv
<1>. QED  BY <1>4, <1>19

\* A step of the comparison keeps all of this.
LEMMA ComparisonKeeps == ComparisonInv /\ [RunawayNext]_runVars /\ ~OpenFails => ComparisonInv'
<1>. SUFFICES ASSUME ComparisonInv, [RunawayNext]_runVars, ~OpenFails  PROVE ComparisonInv'
  OBVIOUS
<1>1. ReportsInv'
  <2>1. reports' = reports /\ late' = late /\ delay' = delay
    BY DEF RunawayNext, runVars, Headline, LoadLine, EndOfFile, CompareRunaways
  <2>. QED  BY <2>1 DEF ComparisonInv, ReportsInv
<1>2. CASE Headline
  BY <1>1, <1>2, HeadlineKeeps DEF ComparisonInv, CompareInv, Headline
<1>3. CASE LoadLine
  <2>1. stage' # 4
    BY <1>3 DEF LoadLine
  <2>. QED  BY <1>1, <1>3, <2>1, LoadLineKeeps DEF ComparisonInv, CompareInv
<1>4. CASE EndOfFile
  <2>1. stage' # 4
    BY <1>4 DEF EndOfFile
  <2>. QED  BY <1>1, <1>4, <2>1, EndOfFileKeeps DEF ComparisonInv, CompareInv
<1>5. CASE CompareRunaways
  <2>1. stage = 3 /\ stage' = 4 /\ mode' = mode /\ unread' = unread /\ reports' = reports /\ arrays' = arrays
    BY <1>5 DEF CompareRunaways
  <2>2. PlaceInFile'
    BY <2>1 DEF ComparisonInv, PlaceInFile
  <2>3. \A f \in {1, 2} : \A i \in DOMAIN reports[f] : LinesRead(f, i)' = LinesRead(f, i)
    BY <2>1 DEF LinesRead
  <2>4. LoadInv'
    BY <2>1, <2>3, ArrayStays DEF ComparisonInv, ReportsInv
  <2>5. CompareInv'
    BY <1>5 DEF CompareRunaways, CompareInv
  <2>. QED  BY <1>1, <2>2, <2>4, <2>5 DEF ComparisonInv
<1>6. CASE UNCHANGED runVars
  <2>1. stage' = stage /\ mode' = mode /\ unread' = unread /\ reports' = reports /\ arrays' = arrays
        /\ result' = result /\ diff' = diff
    BY <1>6 DEF runVars
  <2>2. \A f \in {1, 2} : \A i \in DOMAIN reports[f] : LinesRead(f, i)' = LinesRead(f, i)
    BY <2>1 DEF LinesRead
  <2>3. LoadInv'
    BY <2>1, <2>2, ArrayStays DEF ComparisonInv, ReportsInv
  <2>4. PlaceInFile' /\ CompareInv'
    BY <2>1 DEF ComparisonInv, PlaceInFile, CompareInv
  <2>. QED  BY <1>1, <2>3, <2>4 DEF ComparisonInv
<1>. QED  BY <1>2, <1>3, <1>4, <1>5, <1>6 DEF RunawayNext

LEMMA ComparisonBegins == RunawayInit => ComparisonInv
<1>. SUFFICES ASSUME RunawayInit  PROVE ComparisonInv
  OBVIOUS
<1>1. ReportsInv
  BY ReportsBegin
<1>2. /\ unread = {} /\ mode = 0 /\ stage = 1 /\ arrays = <<Blanks(Prealloc), Blanks(Prealloc)>>
  BY DEF RunawayInit
<1>3. PlaceInFile /\ CompareInv
  BY <1>2 DEF PlaceInFile, CompareInv
<1>4. \A f \in {1, 2} : \A i \in DOMAIN reports[f] : LinesRead(f, i) = 0
  BY <1>2 DEF LinesRead
<1>5. PICK blanks : blanks = Blanks(Prealloc)
  OBVIOUS
<1>6. blanks \in Seq(ArrayEntries) /\ \A i \in DOMAIN blanks : blanks[i] = Blank
  <2>1. Blank \in ArrayEntries /\ Prealloc \in Nat
    BY RunawayAssumption DEF Blank, ArrayEntries
  <2>2. blanks \in [1..Prealloc -> ArrayEntries] /\ \A i \in DOMAIN blanks : blanks[i] = Blank
    BY <1>5, <2>1 DEF Blanks
  <2>. QED  BY <2>1, <2>2, SeqDef
<1>7. arrays \in [{1, 2} -> Seq(ArrayEntries)] /\ \A f \in {1, 2} : arrays[f] = blanks
  BY <1>2, <1>5, <1>6
<1>8. LoadInv
  <2>1. \A f \in {1, 2} : \A i \in DOMAIN arrays[f] :
       arrays[f][i] = IF i \in DOMAIN reports[f] THEN PartEntry(reports[f][i], i - 1, LinesRead(f, i)) ELSE Blank
    BY <1>4, <1>6, <1>7 DEF PartEntry
  <2>. QED  BY <1>4, <1>7, <2>1 DEF LoadInv
<1>. QED  BY <1>1, <1>3, <1>8 DEF ComparisonInv

LEMMA FaithfulWhenLoaded == ComparisonInv => LoadedFaithfully
<1>. SUFFICES ASSUME ComparisonInv, NEW f \in {1, 2}, stage \in (f + 1)..4
     PROVE /\ Len(arrays[f]) >= Len(reports[f])
           /\ \A i \in DOMAIN arrays[f] :
                arrays[f][i] = IF i \notin DOMAIN reports[f] THEN Blank
                               ELSE LET t == reports[f][i]
                                    IN [no |-> i - 1, id |-> t.id, user |-> Word(t.user),
                                        kernel |-> Word(t.kernel), elapsed |-> Word(t.elapsed)]
  BY DEF LoadedFaithfully
<1>1. PICK ts \in Seq(ThreadRecords), array \in Seq(ArrayEntries) : ts = reports[f] /\ array = arrays[f]
  BY DEF ComparisonInv, ReportsInv, LoadInv
<1>2. \A i \in DOMAIN ts : LinesRead(f, i) = 3
  BY DEF LinesRead
<1>3. \A i \in DOMAIN ts : i \in DOMAIN array
  BY <1>1, <1>2 DEF ComparisonInv, LoadInv
<1>4. \A i \in DOMAIN array : array[i] = IF i \in DOMAIN ts THEN PartEntry(ts[i], i - 1, 3) ELSE Blank
  BY <1>1, <1>2 DEF ComparisonInv, LoadInv
<1>5. Len(array) >= Len(ts)
  <2>1. PICK a \in Nat, b \in Nat : a = Len(array) /\ b = Len(ts)
    OBVIOUS
  <2>2. \A i \in 1..b : i \in 1..a
    BY <1>3, <2>1
  <2>3. b = 0 \/ b \in 1..b
    OBVIOUS
  <2>. QED  BY <2>1, <2>2, <2>3
<1>. QED  BY <1>1, <1>4, <1>5 DEF PartEntry

\* An array that holds a report.
HoldsAll(array, ts) ==
  /\ array \in Seq(ArrayEntries) /\ Len(array) >= Len(ts)
  /\ \A i \in DOMAIN array : array[i] = IF i \in DOMAIN ts THEN PartEntry(ts[i], i - 1, 3) ELSE Blank

WithId(ts, id) == {i \in DOMAIN ts : ts[i].id = id}

Twice(ts1, ts2) == {p \in (DOMAIN ts1) \X (DOMAIN ts2) : ts1[p[1]].id = ts2[p[2]].id}

LEMMA EntriesAre ==
  ASSUME NEW ts \in Seq(ThreadRecords), NEW array, HoldsAll(array, ts)
  PROVE  /\ DOMAIN ts \subseteq DOMAIN array
         /\ \A i \in DOMAIN ts : /\ array[i].no = i - 1 /\ array[i].id = ts[i].id
                                 /\ array[i].user = Word(ts[i].user) /\ array[i].kernel = Word(ts[i].kernel)
                                 /\ array[i].elapsed = Word(ts[i].elapsed)
         /\ \A i \in DOMAIN array : i \notin DOMAIN ts => array[i].no = -1
<1>1. array \in Seq(ArrayEntries) /\ Len(array) >= Len(ts)
  BY DEF HoldsAll
<1>2. DOMAIN ts \subseteq DOMAIN array
  BY <1>1
<1>3. ASSUME NEW i \in DOMAIN ts
      PROVE  /\ array[i].no = i - 1 /\ array[i].id = ts[i].id
             /\ array[i].user = Word(ts[i].user) /\ array[i].kernel = Word(ts[i].kernel)
             /\ array[i].elapsed = Word(ts[i].elapsed)
  <2>1. PICK t, r : t = ts[i] /\ r = array[i]
    OBVIOUS
  <2>2. r = PartEntry(t, i - 1, 3)
    BY <1>2, <2>1 DEF HoldsAll
  <2>3. r = [no |-> i - 1, id |-> t.id, user |-> Word(t.user), kernel |-> Word(t.kernel), elapsed |-> Word(t.elapsed)]
    BY <2>2 DEF PartEntry
  <2>. QED  BY <2>1, <2>3
<1>4. \A i \in DOMAIN array : i \notin DOMAIN ts => array[i].no = -1
  BY DEF HoldsAll, Blank
<1>. QED  BY <1>2, <1>3, <1>4

LEMMA RowsAre ==
  ASSUME NEW ts \in Seq(ThreadRecords), NEW array, HoldsAll(array, ts)
  PROVE  Rows(array) = DOMAIN ts
<1>1. ASSUME NEW i \in DOMAIN ts  PROVE i \in Rows(array)
  <2>1. i \in DOMAIN array
    BY EntriesAre
  <2>2. ASSUME NEW j \in 1..i  PROVE array[j].no >= 0
    <3>1. j \in DOMAIN ts /\ j - 1 >= 0
      OBVIOUS
    <3>2. array[j].no = j - 1
      BY <3>1, EntriesAre
    <3>. QED  BY <3>1, <3>2
  <2>. QED  BY <2>1, <2>2 DEF Rows
<1>2. ASSUME NEW i \in Rows(array)  PROVE i \in DOMAIN ts
  <2>1. i \in DOMAIN array /\ \A j \in 1..i : array[j].no >= 0
    BY DEF Rows
  <2>2. i \in 1..i
    BY <2>1 DEF HoldsAll
  <2>3. array[i].no >= 0
    BY <2>1, <2>2
  <2>. QED  BY <2>1, <2>3, EntriesAre
<1>. QED  BY <1>1, <1>2

LEMMA FindIs ==
  ASSUME NEW ts \in Seq(ThreadRecords), Distinct(ts), NEW array, HoldsAll(array, ts), NEW id
  PROVE  FindById(array, id) = WithId(ts, id)
<1>1. ASSUME NEW i \in WithId(ts, id)  PROVE i \in FindById(array, id)
  <2>1. i \in DOMAIN ts /\ ts[i].id = id
    BY DEF WithId
  <2>2. i \in DOMAIN array /\ array[i].id = id
    BY <2>1, EntriesAre
  <2>3. ASSUME NEW j \in 1..i  PROVE array[j].no = j - 1
    <3>1. j \in DOMAIN ts
      BY <2>1
    <3>. QED  BY <3>1, EntriesAre
  <2>4. ASSUME NEW j \in 1..(i - 1)  PROVE array[j].id # id
    <3>1. j \in DOMAIN ts /\ j # i
      BY <2>1
    <3>2. array[j].id = ts[j].id
      BY <3>1, EntriesAre
    <3>3. ts[j].id # ts[i].id
      BY <2>1, <3>1 DEF Distinct
    <3>. QED  BY <2>1, <3>2, <3>3
  <2>. QED  BY <2>2, <2>3, <2>4 DEF FindById
<1>2. ASSUME NEW i \in FindById(array, id)  PROVE i \in WithId(ts, id)
  <2>1. i \in DOMAIN array /\ array[i].id = id /\ \A j \in 1..i : array[j].no = j - 1
    BY DEF FindById
  <2>2. i \in Nat \ {0}
    BY <2>1 DEF HoldsAll
  <2>3. array[i].no = i - 1
    BY <2>1, <2>2
  <2>4. i \in DOMAIN ts
    BY <2>1, <2>2, <2>3, EntriesAre
  <2>. QED  BY <2>1, <2>4, EntriesAre DEF WithId
<1>. QED  BY <1>1, <1>2

LEMMA PairsAre ==
  ASSUME NEW ts1 \in Seq(ThreadRecords), Distinct(ts1), NEW a1, HoldsAll(a1, ts1),
         NEW ts2 \in Seq(ThreadRecords), Distinct(ts2), NEW a2, HoldsAll(a2, ts2)
  PROVE  Pairs(a1, a2) = Twice(ts1, ts2)
<1>1. Rows(a1) = DOMAIN ts1
  BY RowsAre
<1>2. \A i \in DOMAIN ts1 : FindById(a2, a1[i].id) = WithId(ts2, ts1[i].id)
  BY EntriesAre, FindIs
<1>3. DOMAIN ts2 \subseteq DOMAIN a2
  BY EntriesAre
<1>4. ASSUME NEW i \in DOMAIN ts1, NEW j
      PROVE  j \in DOMAIN a2 /\ j \in FindById(a2, a1[i].id) <=> j \in DOMAIN ts2 /\ ts1[i].id = ts2[j].id
  <2>1. FindById(a2, a1[i].id) = WithId(ts2, ts1[i].id)
    BY <1>2
  <2>2. j \in WithId(ts2, ts1[i].id) <=> j \in DOMAIN ts2 /\ ts2[j].id = ts1[i].id
    BY DEF WithId
  <2>. QED  BY <1>3, <2>1, <2>2
<1>5. ASSUME NEW p
      PROVE  p \in Pairs(a1, a2) <=> /\ p \in (DOMAIN ts1) \X DOMAIN a2
                                     /\ p[2] \in FindById(a2, a1[p[1]].id)
  BY <1>1 DEF Pairs
<1>. QED  BY <1>3, <1>4, <1>5 DEF Twice

\* When the times of all threads differ by as much, that decides.
LEMMA CompareIs ==
  ASSUME NEW a1, NEW a2, NEW e \in Int \ {0},
         \A p \in Pairs(a1, a2) : Signed(a1[p[1]].elapsed - a2[p[2]].elapsed) = e
  PROVE  Compare(a1, a2) = IF Pairs(a1, a2) = {} THEN 0 ELSE IF e > 0 THEN 1 ELSE -1
<1>1. PICK ds : ds = {Signed(a1[p[1]].elapsed - a2[p[2]].elapsed) : p \in Pairs(a1, a2)} \ {0}
  OBVIOUS
<1>2. Compare(a1, a2) = IF ds = {} THEN 0
                        ELSE IF \A d \in ds : d > 0 THEN 1
                        ELSE IF \A d \in ds : d < 0 THEN -1 ELSE 0
  BY <1>1 DEF Compare
<1>3. CASE Pairs(a1, a2) = {}
  <2>1. ds = {}
    BY <1>1, <1>3
  <2>. QED  BY <1>2, <1>3, <2>1
<1>4. CASE Pairs(a1, a2) # {}
  <2>1. \A d \in ds : d = e
    BY <1>1
  <2>2. e \in ds
    BY <1>1, <1>4
  <2>. QED  BY <1>2, <1>4, <2>1, <2>2
<1>. QED  BY <1>3, <1>4

\* Of a thread in both reports the elapsed times tell how much later one is.
LEMMA ElapsedBetween ==
  ASSUME NEW d \in 1..(Half - 1), NEW old \in ThreadRecords, NEW now \in ThreadRecords, GrownUp(old, now, d)
  PROVE  /\ Signed(Word(now.elapsed) - Word(old.elapsed)) = d
         /\ Signed(Word(old.elapsed) - Word(now.elapsed)) = -d
<1>1. PICK a \in Nat, b \in Nat : a = old.elapsed /\ b = now.elapsed
  BY DEF ThreadRecords
<1>2. Half \in Nat
  BY RunawayAssumption DEF Half
<1>3. b = a + d
  BY <1>1 DEF GrownUp
<1>4. b - a = d /\ a - b = -d /\ b - a \in 0..(Half - 1)
  BY <1>2, <1>3
<1>. QED  BY <1>1, <1>4, SignedDifference

OlderBy(old, now, d) ==
  \A i \in DOMAIN old, j \in DOMAIN now : old[i].id = now[j].id => GrownUp(old[i], now[j], d)

LEMMA ComparedInOrder ==
  ASSUME NEW d \in 1..(Half - 1),
         NEW old \in Seq(ThreadRecords), Distinct(old), NEW now \in Seq(ThreadRecords), Distinct(now),
         OlderBy(old, now, d),
         NEW aold, HoldsAll(aold, old), NEW anow, HoldsAll(anow, now)
  PROVE  /\ Compare(anow, aold) = IF Twice(now, old) = {} THEN 0 ELSE 1
         /\ Compare(aold, anow) = IF Twice(old, now) = {} THEN 0 ELSE -1
<1>1. d \in Int \ {0} /\ -d \in Int \ {0} /\ d > 0 /\ ~(-d > 0)
  BY RunawayAssumption DEF Half
<1>2. ASSUME NEW i \in DOMAIN old, NEW j \in DOMAIN now, old[i].id = now[j].id
      PROVE  /\ Signed(anow[j].elapsed - aold[i].elapsed) = d
             /\ Signed(aold[i].elapsed - anow[j].elapsed) = -d
  <2>1. PICK to \in ThreadRecords, tn \in ThreadRecords : to = old[i] /\ tn = now[j]
    OBVIOUS
  <2>2. GrownUp(to, tn, d)
    BY <1>2, <2>1 DEF OlderBy
  <2>3. anow[j].elapsed = Word(tn.elapsed)
    BY <2>1, EntriesAre
  <2>4. aold[i].elapsed = Word(to.elapsed)
    BY <2>1, EntriesAre
  <2>. QED  BY <2>2, <2>3, <2>4, ElapsedBetween
<1>3. Pairs(anow, aold) = Twice(now, old) /\ Pairs(aold, anow) = Twice(old, now)
  BY PairsAre
<1>4. \A p \in Pairs(anow, aold) : Signed(anow[p[1]].elapsed - aold[p[2]].elapsed) = d
  BY <1>2, <1>3 DEF Twice
<1>5. \A p \in Pairs(aold, anow) : Signed(aold[p[1]].elapsed - anow[p[2]].elapsed) = -d
  BY <1>2, <1>3 DEF Twice
<1>6. Compare(anow, aold) = IF Pairs(anow, aold) = {} THEN 0 ELSE 1
  BY <1>1, <1>4, CompareIs
<1>7. Compare(aold, anow) = IF Pairs(aold, anow) = {} THEN 0 ELSE -1
  BY <1>1, <1>5, CompareIs
<1>. QED  BY <1>3, <1>6, <1>7

LEMMA ArraysHold == ComparisonInv /\ stage = 4 => \A f \in {1, 2} : HoldsAll(arrays[f], reports[f])
<1>. SUFFICES ASSUME ComparisonInv, stage = 4, NEW f \in {1, 2}  PROVE HoldsAll(arrays[f], reports[f])
  OBVIOUS
<1>1. PICK ts \in Seq(ThreadRecords), array \in Seq(ArrayEntries) : ts = reports[f] /\ array = arrays[f]
  BY DEF ComparisonInv, ReportsInv, LoadInv
<1>2. \A i \in DOMAIN ts : LinesRead(f, i) = 3
  BY DEF LinesRead
<1>3. \A i \in DOMAIN array : array[i] = IF i \in DOMAIN ts THEN PartEntry(ts[i], i - 1, 3) ELSE Blank
  BY <1>1, <1>2 DEF ComparisonInv, LoadInv
<1>4. Len(array) >= Len(ts)
  BY <1>1, FaithfulWhenLoaded DEF LoadedFaithfully
<1>. QED  BY <1>1, <1>3, <1>4 DEF HoldsAll

\* The two reports, by their age, and what holds them.
LEMMA OldAndNew ==
  ASSUME ComparisonInv, stage = 4, NoIdReused, delay < Half
  PROVE  \E old, now \in Seq(ThreadRecords), d \in 1..(Half - 1) : \E aold, anow \in Seq(ArrayEntries) :
           /\ Distinct(old) /\ Distinct(now) /\ OlderBy(old, now, d)
           /\ HoldsAll(aold, old) /\ HoldsAll(anow, now)
           /\ d = delay /\ old = reports[3 - late] /\ now = reports[late]
           /\ aold = arrays[3 - late] /\ anow = arrays[late]
<1>1. late \in {1, 2} /\ 3 - late \in {1, 2}
  BY DEF ComparisonInv, ReportsInv
<1>2. PICK old \in Seq(ThreadRecords), now \in Seq(ThreadRecords) : old = reports[3 - late] /\ now = reports[late]
  BY <1>1 DEF ComparisonInv, ReportsInv
<1>3. PICK aold \in Seq(ArrayEntries), anow \in Seq(ArrayEntries) : aold = arrays[3 - late] /\ anow = arrays[late]
  BY <1>1 DEF ComparisonInv, LoadInv
<1>4. PICK d \in 1..(Half - 1) : d = delay
  BY RunawayAssumption DEF ComparisonInv, ReportsInv, Half
<1>5. Distinct(old) /\ Distinct(now)
  BY <1>1, <1>2 DEF ComparisonInv, ReportsInv
<1>6. OlderBy(old, now, d)
  <2>1. ASSUME NEW i \in DOMAIN old, NEW j \in DOMAIN now, old[i].id = now[j].id
        PROVE  GrownUp(old[i], now[j], d)
    <3>1. GrownUp(old[i], now[j], d) \/ Newborn(now[j])
      BY <1>2, <1>4, <2>1 DEF ComparisonInv, ReportsInv
    <3>2. PICK o \in ThreadRecords, n \in ThreadRecords : o = old[i] /\ n = now[j]
      OBVIOUS
    <3>3. n.elapsed = o.elapsed + d /\ n.user >= o.user /\ n.kernel >= o.kernel
      BY <1>2, <1>4, <2>1, <3>2 DEF NoIdReused, ToSet
    <3>4. o.user \in Nat /\ o.kernel \in Nat /\ MaxBusy \in Nat
      BY RunawayAssumption DEF ThreadRecords
    <3>5. ASSUME Newborn(n)  PROVE GrownUp(o, n, d)
      <4>1. PICK a \in Nat, b \in Nat : a = o.user /\ b = o.kernel
        BY <3>4
      <4>2. PICK v \in 0..MaxBusy, w \in 0..MaxBusy : v = n.user /\ w = n.kernel
        BY <3>5 DEF Newborn
      <4>3. v >= a /\ w >= b
        BY <3>3, <4>1, <4>2
      <4>4. v - a \in 0..MaxBusy /\ w - b \in 0..MaxBusy
        BY <3>4, <4>3
      <4>. QED  BY <3>3, <4>1, <4>2, <4>4 DEF GrownUp
    <3>. QED  BY <3>1, <3>2, <3>5
  <2>. QED  BY <2>1 DEF OlderBy
<1>7. HoldsAll(aold, old) /\ HoldsAll(anow, now)
  BY <1>1, <1>2, <1>3, ArraysHold
<1>. QED  BY <1>2, <1>3, <1>4, <1>5, <1>6, <1>7

LEMMA TwiceIs ==
  ASSUME NEW ts1 \in Seq(ThreadRecords), NEW ts2 \in Seq(ThreadRecords)
  PROVE  (Twice(ts1, ts2) = {}) <=> (IdsOf(ts1) \cap IdsOf(ts2) = {})
<1>1. ASSUME NEW p \in Twice(ts1, ts2)  PROVE ts1[p[1]].id \in IdsOf(ts1) \cap IdsOf(ts2)
  BY DEF Twice, IdsOf
<1>2. ASSUME NEW id \in IdsOf(ts1) \cap IdsOf(ts2)  PROVE Twice(ts1, ts2) # {}
  <2>1. PICK i \in DOMAIN ts1, j \in DOMAIN ts2 : ts1[i].id = id /\ ts2[j].id = id
    BY DEF IdsOf
  <2>2. <<i, j>> \in Twice(ts1, ts2)
    BY <2>1 DEF Twice
  <2>. QED  BY <2>2
<1>. QED  BY <1>1, <1>2

LEMMA RecognizedWhenCompared == ComparisonInv => LaterRecognized
<1>. SUFFICES ASSUME NoIdReused, ComparisonInv, stage = 4, delay < Half
              PROVE  result = IF Shared = {} THEN 0 ELSE IF late = 1 THEN 1 ELSE -1
  BY DEF LaterRecognized, Half
<1>1. PICK old \in Seq(ThreadRecords), now \in Seq(ThreadRecords), d \in 1..(Half - 1) :
      \E aold, anow \in Seq(ArrayEntries) :
        /\ Distinct(old) /\ Distinct(now) /\ OlderBy(old, now, d)
        /\ HoldsAll(aold, old) /\ HoldsAll(anow, now)
        /\ d = delay /\ old = reports[3 - late] /\ now = reports[late]
        /\ aold = arrays[3 - late] /\ anow = arrays[late]
  BY OldAndNew
<1>2. PICK aold \in Seq(ArrayEntries), anow \in Seq(ArrayEntries) :
        /\ Distinct(old) /\ Distinct(now) /\ OlderBy(old, now, d)
        /\ HoldsAll(aold, old) /\ HoldsAll(anow, now)
        /\ d = delay /\ old = reports[3 - late] /\ now = reports[late]
        /\ aold = arrays[3 - late] /\ anow = arrays[late]
  BY <1>1
<1>3. /\ Compare(anow, aold) = IF Twice(now, old) = {} THEN 0 ELSE 1
      /\ Compare(aold, anow) = IF Twice(old, now) = {} THEN 0 ELSE -1
  BY <1>2, ComparedInOrder
<1>4. result = Compare(arrays[1], arrays[2])
  BY DEF ComparisonInv, CompareInv
<1>5. late \in {1, 2}
  BY DEF ComparisonInv, ReportsInv
<1>6. CASE late = 1
  <2>1. Shared = IdsOf(now) \cap IdsOf(old)
    BY <1>2, <1>6 DEF Shared
  <2>2. result = Compare(anow, aold)
    BY <1>2, <1>4, <1>6
  <2>. QED  BY <1>3, <1>6, <2>1, <2>2, TwiceIs
<1>7. CASE late = 2
  <2>1. Shared = IdsOf(old) \cap IdsOf(now)
    BY <1>2, <1>7 DEF Shared
  <2>2. result = Compare(aold, anow)
    BY <1>2, <1>4, <1>7
  <2>. QED  BY <1>3, <1>7, <2>1, <2>2, TwiceIs
<1>. QED  BY <1>5, <1>6, <1>7

LEMMA WordOf == ASSUME NEW n \in Nat, n < 2^Width  PROVE Word(n) = n
<1>1. PICK w \in Nat \ {0} : w = 2^Width
  BY RunawayAssumption
<1>2. n \in 0..(w - 1)
  BY <1>1
<1>3. n % w = n
  <2>1. n = 0 * w + n
    OBVIOUS
  <2>. QED  BY <1>2, <2>1, Remainder
<1>. QED  BY <1>1, <1>3 DEF Word

\* What Diff should say of a thread in both reports, and what it says.
TellsOf(x, now, old, d) ==
  /\ x.id = now.id /\ x.elapsed = d /\ x.user = now.user - old.user /\ x.kernel = now.kernel - old.kernel
  /\ x.kind = IF now.user - old.user + now.kernel - old.kernel = 0 THEN "idle" ELSE "active"
  /\ (now.user - old.user + now.kernel - old.kernel) * Hundred < 2^Width =>
       x.share = ((now.user - old.user + now.kernel - old.kernel) * Hundred) \div d

LEMMA ActivityIs ==
  ASSUME NEW d \in 1..(Half - 1), MaxBusy < Half,
         NEW old \in ThreadRecords, NEW now \in ThreadRecords, GrownUp(old, now, d),
         NEW eo, eo.id = old.id, eo.user = Word(old.user), eo.kernel = Word(old.kernel), eo.elapsed = Word(old.elapsed),
         NEW en, en.id = now.id, en.user = Word(now.user), en.kernel = Word(now.kernel), en.elapsed = Word(now.elapsed)
  PROVE  TellsOf(Activity(en, eo), now, old, d)
<1>1. PICK u \in 0..(Half - 1), k \in 0..(Half - 1) : u = now.user - old.user /\ k = now.kernel - old.kernel
  <2>1. Half \in Nat /\ MaxBusy \in Nat
    BY RunawayAssumption DEF Half
  <2>. QED  BY <2>1 DEF GrownUp
<1>2. Half \in Nat \ {0} /\ 2^Width = 2 * Half /\ Hundred \in Nat
  BY RunawayAssumption DEF Half
<1>3. Signed(en.user - eo.user) = u
  <2>1. PICK a \in Nat, b \in Nat : a = old.user /\ b = now.user
    BY DEF ThreadRecords
  <2>2. b - a \in 0..(Half - 1)
    BY <1>1, <2>1
  <2>3. Signed(Word(b) - Word(a)) = b - a
    BY <2>2, SignedDifference
  <2>. QED  BY <1>1, <2>1, <2>3
<1>4. Signed(en.kernel - eo.kernel) = k
  <2>1. PICK a \in Nat, b \in Nat : a = old.kernel /\ b = now.kernel
    BY DEF ThreadRecords
  <2>2. b - a \in 0..(Half - 1)
    BY <1>1, <2>1
  <2>3. Signed(Word(b) - Word(a)) = b - a
    BY <2>2, SignedDifference
  <2>. QED  BY <1>1, <2>1, <2>3
<1>5. Signed(en.elapsed - eo.elapsed) = d
  BY ElapsedBetween
<1>6. PICK r : r = [kind |-> IF k # 0 \/ u # 0 THEN "active" ELSE "idle", id |-> now.id,
                   elapsed |-> d, user |-> u, kernel |-> k, share |-> Percentage(d, k, u)]
  OBVIOUS
<1>7. Activity(en, eo) = r
  BY <1>3, <1>4, <1>5, <1>6 DEF Activity
<1>8. now.user - old.user + now.kernel - old.kernel = k + u
  <2>1. old.kernel \in Nat /\ now.kernel \in Nat /\ old.user \in Nat /\ now.user \in Nat
    BY DEF ThreadRecords
  <2>. QED  BY <1>1, <2>1
<1>9. r.kind = IF k + u = 0 THEN "idle" ELSE "active"
  <2>1. k + u = 0 <=> ~(k # 0 \/ u # 0)
    BY <1>2
  <2>. QED  BY <1>6, <2>1
<1>10. ASSUME (k + u) * Hundred < 2^Width  PROVE r.share = ((k + u) * Hundred) \div d
  <2>1. PICK busy \in Nat : busy = (k + u) * Hundred
    BY <1>2
  <2>2. Word(busy) = busy
    BY <1>10, <2>1, WordOf
  <2>3. Word(d) = d /\ d # 0
    <3>1. d \in Nat /\ d < 2^Width
      BY <1>2
    <3>. QED  BY <3>1, WordOf
  <2>4. Percentage(d, k, u) = busy \div d
    BY <2>1, <2>2, <2>3 DEF Percentage
  <2>. QED  BY <1>6, <2>1, <2>4
<1>11. r.id = now.id /\ r.elapsed = d /\ r.user = u /\ r.kernel = k
  BY <1>6
<1>. QED  BY <1>1, <1>7, <1>8, <1>9, <1>10, <1>11 DEF TellsOf

LEMMA IdsAre ==
  ASSUME NEW ts \in Seq(ThreadRecords)
  PROVE  IdsOf(ts) \subseteq Ids /\ IsFiniteSet(IdsOf(ts))
<1>1. ASSUME NEW i \in DOMAIN ts  PROVE ts[i].id \in Ids
  <2>1. PICK t \in ThreadRecords : t = ts[i]
    OBVIOUS
  <2>. QED  BY <2>1 DEF ThreadRecords
<1>2. IdsOf(ts) \subseteq Ids
  BY <1>1 DEF IdsOf
<1>. QED  BY <1>2, RunawayAssumption, FS_Subset

\* The thread of an identifier.
LEMMA TheThread ==
  ASSUME NEW ts \in Seq(ThreadRecords), Distinct(ts), NEW i \in DOMAIN ts
  PROVE  (CHOOSE t \in ToSet(ts) : t.id = ts[i].id) = ts[i]
<1>1. ts[i] \in ToSet(ts)
  BY DEF ToSet
<1>2. ASSUME NEW t \in ToSet(ts), t.id = ts[i].id  PROVE t = ts[i]
  <2>1. PICK j \in DOMAIN ts : t = ts[j]
    BY DEF ToSet
  <2>. QED  BY <1>2, <2>1 DEF Distinct
<1>. QED  BY <1>1, <1>2

\* Who is in one report alone.
LEMMA OneSided ==
  ASSUME NEW ts1 \in Seq(ThreadRecords), NEW a1, HoldsAll(a1, ts1),
         NEW ts2 \in Seq(ThreadRecords), Distinct(ts2), NEW a2, HoldsAll(a2, ts2)
  PROVE  /\ Created(a1, a2) = {[kind |-> "created", id |-> id] : id \in IdsOf(ts1) \ IdsOf(ts2)}
         /\ Deleted(a2, a1) = {[kind |-> "deleted", id |-> id] : id \in IdsOf(ts1) \ IdsOf(ts2)}
<1>1. PICK alone : alone = {j \in Rows(a1) : FindById(a2, a1[j].id) = {}}
  OBVIOUS
<1>2. \A j \in DOMAIN ts1 : a1[j].id = ts1[j].id
  BY EntriesAre
<1>3. Rows(a1) = DOMAIN ts1
  BY RowsAre
<1>4. ASSUME NEW j \in DOMAIN ts1  PROVE FindById(a2, a1[j].id) = {} <=> ts1[j].id \notin IdsOf(ts2)
  <2>1. FindById(a2, a1[j].id) = WithId(ts2, ts1[j].id)
    BY <1>2, FindIs
  <2>. QED  BY <2>1 DEF WithId, IdsOf
<1>5. \A j : j \in alone <=> j \in DOMAIN ts1 /\ ts1[j].id \notin IdsOf(ts2)
  BY <1>1, <1>3, <1>4
<1>6. \A id : id \in IdsOf(ts1) \ IdsOf(ts2) <=> \E j \in alone : id = a1[j].id
  BY <1>2, <1>5 DEF IdsOf
<1>7. Created(a1, a2) = {[kind |-> "created", id |-> a1[i].id] : i \in alone}
  BY <1>1 DEF Created
<1>8. Deleted(a2, a1) = {[kind |-> "deleted", id |-> a1[i].id] : i \in alone}
  BY <1>1 DEF Deleted
<1>. QED  BY <1>6, <1>7, <1>8

\* Something said of each of some things, and what it is of.
LEMMA OneEach ==
  ASSUME NEW S, NEW T, IsFiniteSet(T),
         \A x \in S : x.id \in T, \A id \in T : \E x \in S : x.id = id,
         \A x, y \in S : x.id = y.id => x = y
  PROVE  Cardinality(S) = Cardinality(T)
<1>1. PICK f : f = [id \in T |-> CHOOSE x \in S : x.id = id]
  OBVIOUS
<1>2. \A id \in T : f[id] \in S /\ f[id].id = id
  BY <1>1
<1>3. f \in [T -> S] /\ (\A i, j \in T : f[i] = f[j] => i = j) /\ \A x \in S : \E id \in T : f[id] = x
  BY <1>1, <1>2
<1>4. f \in Bijection(T, S)
  BY <1>3 DEF Bijection, Injection, Surjection, IsInjective
<1>5. ExistsBijection(T, S)
  BY <1>4 DEF ExistsBijection
<1>. QED  BY <1>5, FS_Bijection

LEMMA ReportedWhenCompared == MaxBusy < Half /\ ComparisonInv => EveryThreadReported
<1>. SUFFICES ASSUME NoIdReused, MaxBusy < Half, ComparisonInv, stage = 4, result # 0, delay < Half
              PROVE EveryThreadReported
  BY DEF EveryThreadReported, Half
<1>1. PICK old \in Seq(ThreadRecords), now \in Seq(ThreadRecords), d \in 1..(Half - 1) :
      \E aold, anow \in Seq(ArrayEntries) :
        /\ Distinct(old) /\ Distinct(now) /\ OlderBy(old, now, d)
        /\ HoldsAll(aold, old) /\ HoldsAll(anow, now)
        /\ d = delay /\ old = reports[3 - late] /\ now = reports[late]
        /\ aold = arrays[3 - late] /\ anow = arrays[late]
  BY OldAndNew
<1>2. PICK aold \in Seq(ArrayEntries), anow \in Seq(ArrayEntries) :
        /\ Distinct(old) /\ Distinct(now) /\ OlderBy(old, now, d)
        /\ HoldsAll(aold, old) /\ HoldsAll(anow, now)
        /\ d = delay /\ old = reports[3 - late] /\ now = reports[late]
        /\ aold = arrays[3 - late] /\ anow = arrays[late]
  BY <1>1
<1>3. late \in {1, 2} /\ Shared = IdsOf(now) \cap IdsOf(old)
  BY <1>2 DEF ComparisonInv, ReportsInv, Shared
<1>4. diff = Diff(anow, aold)
  <2>1. result = IF Shared = {} THEN 0 ELSE IF late = 1 THEN 1 ELSE -1
    BY RecognizedWhenCompared DEF LaterRecognized, Half
  <2>2. diff = IF result > 0 THEN Diff(arrays[1], arrays[2])
               ELSE IF result < 0 THEN Diff(arrays[2], arrays[1]) ELSE {}
    BY DEF ComparisonInv, CompareInv
  <2>3. CASE late = 1
    <3>1. result = 1
      BY <2>1, <2>3
    <3>2. diff = Diff(arrays[1], arrays[2])
      BY <2>2, <3>1
    <3>. QED  BY <1>2, <2>3, <3>2
  <2>4. CASE late = 2
    <3>1. result = -1
      BY <2>1, <2>4
    <3>2. diff = Diff(arrays[2], arrays[1])
      BY <2>2, <3>1
    <3>. QED  BY <1>2, <2>4, <3>2
  <2>. QED  BY <1>3, <2>3, <2>4
<1>5. PICK all, new, gone, both : /\ all = diff /\ new = Created(anow, aold)
                                  /\ gone = Deleted(anow, aold) /\ both = Both(anow, aold)
  OBVIOUS
<1>6. all = new \cup both \cup gone
  BY <1>4, <1>5 DEF Diff
<1>7. new = {[kind |-> "created", id |-> id] : id \in IdsOf(now) \ Shared}
  <2>1. new = {[kind |-> "created", id |-> id] : id \in IdsOf(now) \ IdsOf(old)}
    BY <1>2, <1>5, OneSided
  <2>2. IdsOf(now) \ IdsOf(old) = IdsOf(now) \ Shared
    BY <1>3
  <2>. QED  BY <2>1, <2>2
<1>8. gone = {[kind |-> "deleted", id |-> id] : id \in IdsOf(old) \ Shared}
  <2>1. gone = {[kind |-> "deleted", id |-> id] : id \in IdsOf(old) \ IdsOf(now)}
    BY <1>2, <1>5, OneSided
  <2>2. IdsOf(old) \ IdsOf(now) = IdsOf(old) \ Shared
    BY <1>3
  <2>. QED  BY <2>1, <2>2
<1>9. Pairs(anow, aold) = Twice(now, old)
  BY <1>2, PairsAre
<1>10. \A x : x \in both <=> \E p \in Twice(now, old) : x = Activity(anow[p[1]], aold[p[2]])
  BY <1>5, <1>9 DEF Both
<1>11. ASSUME NEW j \in DOMAIN now, NEW i \in DOMAIN old, now[j].id = old[i].id
       PROVE  TellsOf(Activity(anow[j], aold[i]), now[j], old[i], d)
  <2>1. PICK to \in ThreadRecords, tn \in ThreadRecords : to = old[i] /\ tn = now[j]
    OBVIOUS
  <2>2. GrownUp(to, tn, d)
    BY <1>2, <1>11, <2>1 DEF OlderBy
  <2>3. PICK eo, en : eo = aold[i] /\ en = anow[j]
    OBVIOUS
  <2>4. eo.id = to.id /\ eo.user = Word(to.user) /\ eo.kernel = Word(to.kernel) /\ eo.elapsed = Word(to.elapsed)
    BY <1>2, <2>1, <2>3, EntriesAre
  <2>5. en.id = tn.id /\ en.user = Word(tn.user) /\ en.kernel = Word(tn.kernel) /\ en.elapsed = Word(tn.elapsed)
    BY <1>2, <2>1, <2>3, EntriesAre
  <2>6. TellsOf(Activity(en, eo), tn, to, d)
    BY <2>2, <2>4, <2>5, ActivityIs
  <2>. QED  BY <2>1, <2>3, <2>6
<1>12. ASSUME NEW x \in both
       PROVE  \E j \in DOMAIN now, i \in DOMAIN old :
                now[j].id = old[i].id /\ x = Activity(anow[j], aold[i]) /\ TellsOf(x, now[j], old[i], d)
  <2>1. PICK p \in Twice(now, old) : x = Activity(anow[p[1]], aold[p[2]])
    BY <1>10
  <2>2. PICK j \in DOMAIN now, i \in DOMAIN old : j = p[1] /\ i = p[2] /\ now[j].id = old[i].id
    BY <2>1 DEF Twice
  <2>3. TellsOf(Activity(anow[j], aold[i]), now[j], old[i], d)
    BY <1>11, <2>2
  <2>. QED  BY <2>1, <2>2, <2>3
<1>13. \A x \in both : x.kind \in {"active", "idle"}
  BY <1>12 DEF TellsOf
<1>14. {x \in all : x.kind \in {"active", "idle"}} = both /\ all \ both = new \cup gone
  <2>1. \A x \in new \cup gone : x.kind \notin {"active", "idle"}
    BY <1>7, <1>8
  <2>. QED  BY <1>6, <1>13, <2>1
<1>15. \A x \in both : x.id \in Shared
  BY <1>3, <1>12 DEF TellsOf, IdsOf
<1>16. ASSUME NEW id \in Shared  PROVE \E x \in both : x.id = id
  <2>1. PICK j \in DOMAIN now, i \in DOMAIN old : now[j].id = id /\ old[i].id = id
    BY <1>3 DEF IdsOf
  <2>2. <<j, i>> \in Twice(now, old)
    BY <2>1 DEF Twice
  <2>3. Activity(anow[j], aold[i]) \in both
    BY <1>10, <2>2
  <2>4. TellsOf(Activity(anow[j], aold[i]), now[j], old[i], d)
    BY <1>11, <2>1
  <2>. QED  BY <2>1, <2>3, <2>4 DEF TellsOf
<1>17. ASSUME NEW x \in both, NEW y \in both, x.id = y.id  PROVE x = y
  <2>1. PICK j \in DOMAIN now, i \in DOMAIN old :
          now[j].id = old[i].id /\ x = Activity(anow[j], aold[i]) /\ TellsOf(x, now[j], old[i], d)
    BY <1>12
  <2>2. PICK m \in DOMAIN now, n \in DOMAIN old :
          now[m].id = old[n].id /\ y = Activity(anow[m], aold[n]) /\ TellsOf(y, now[m], old[n], d)
    BY <1>12
  <2>3. now[j].id = now[m].id /\ old[i].id = old[n].id
    BY <1>17, <2>1, <2>2 DEF TellsOf
  <2>4. j = m /\ i = n
    BY <1>2, <2>3 DEF Distinct
  <2>. QED  BY <2>1, <2>2, <2>4
<1>18. IsFiniteSet(Shared)
  BY <1>3, IdsAre, FS_Subset
<1>19. {x.id : x \in both} = Shared /\ Cardinality(both) = Cardinality(Shared)
  <2>1. Cardinality(both) = Cardinality(Shared)
    BY <1>15, <1>16, <1>17, <1>18, OneEach
  <2>. QED  BY <1>15, <1>16, <2>1
<1>20. ASSUME NEW x \in both
       PROVE  /\ x.id \in IdsOf(now)
              /\ TellsOf(x, CHOOSE t \in ToSet(now) : t.id = x.id, CHOOSE t \in ToSet(old) : t.id = x.id, d)
  <2>1. PICK j \in DOMAIN now, i \in DOMAIN old :
          now[j].id = old[i].id /\ x = Activity(anow[j], aold[i]) /\ TellsOf(x, now[j], old[i], d)
    BY <1>12
  <2>2. x.id = now[j].id /\ x.id = old[i].id
    BY <2>1 DEF TellsOf
  <2>3. (CHOOSE t \in ToSet(now) : t.id = x.id) = now[j]
    <3>1. (CHOOSE t \in ToSet(now) : t.id = now[j].id) = now[j]
      BY <1>2, TheThread
    <3>. QED  BY <2>2, <3>1
  <2>4. (CHOOSE t \in ToSet(old) : t.id = x.id) = old[i]
    BY <1>2, <2>2, TheThread
  <2>. QED  BY <2>1, <2>2, <2>3, <2>4 DEF IdsOf
<1>21. PICK kept : kept = {x \in diff : x.kind \in {"active", "idle"}}
  OBVIOUS
<1>22. kept = both
  BY <1>5, <1>14, <1>21
<1>23. diff \ kept = {[kind |-> "created", id |-> id] : id \in IdsOf(now) \ Shared} \cup
                    {[kind |-> "deleted", id |-> id] : id \in IdsOf(old) \ Shared}
  BY <1>5, <1>7, <1>8, <1>14, <1>22
<1>24. {x.id : x \in kept} = Shared /\ Cardinality(kept) = Cardinality(Shared)
  BY <1>19, <1>22
<1>25. ASSUME NEW x \in kept
       PROVE  LET t == CHOOSE y \in ToSet(now) : y.id = x.id
                  b == CHOOSE y \in ToSet(old) : y.id = x.id
                  busy == t.user - b.user + t.kernel - b.kernel
              IN /\ x.elapsed = delay /\ x.user = t.user - b.user /\ x.kernel = t.kernel - b.kernel
                 /\ x.kind = IF busy = 0 THEN "idle" ELSE "active"
                 /\ busy * Hundred < 2^Width => x.share = (busy * Hundred) \div delay
  <2>1. PICK t, b : t = (CHOOSE y \in ToSet(now) : y.id = x.id) /\ b = (CHOOSE y \in ToSet(old) : y.id = x.id)
    OBVIOUS
  <2>2. TellsOf(x, t, b, delay)
    BY <1>2, <1>20, <1>22, <2>1
  <2>. QED  BY <2>1, <2>2 DEF TellsOf
<1>. QED  BY <1>2, <1>21, <1>23, <1>24, <1>25 DEF EveryThreadReported

\* Nothing is said of a comparison whose file did not open.
RunawayInv == NoRunaway \/ ComparisonInv \/ stage = 5

LEMMA RunawayBegins == RunawayInit \/ NoRunaway => RunawayInv
BY ComparisonBegins DEF RunawayInv

LEMMA RunawayKeeps == RunawayInv /\ [RunawayNext]_runVars => RunawayInv'
<1>. SUFFICES ASSUME RunawayInv, [RunawayNext]_runVars  PROVE RunawayInv'
  OBVIOUS
<1>1. CASE NoRunaway
  <2>1. ~RunawayNext
    BY <1>1 DEF NoRunaway, RunawayNext, OpenFails, Headline, LoadLine, EndOfFile, CompareRunaways
  <2>. QED  BY <1>1, <2>1 DEF RunawayInv, NoRunaway, runVars
<1>2. CASE ComparisonInv /\ ~OpenFails
  BY <1>2, ComparisonKeeps DEF RunawayInv
<1>3. CASE OpenFails
  BY <1>3 DEF OpenFails, RunawayInv
<1>4. CASE stage = 5
  BY <1>4 DEF RunawayInv, RunawayNext, OpenFails, Headline, LoadLine, EndOfFile, CompareRunaways, runVars
<1>. QED  BY <1>1, <1>2, <1>3, <1>4 DEF RunawayInv

\* What is promised of the comparison.
LEMMA RunawayPromise ==
  RunawayInv => /\ LoadedFaithfully
                /\ LaterRecognized
                /\ MaxBusy < Half => EveryThreadReported
<1>1. CASE NoRunaway
  <2>1. stage = 0
    BY <1>1 DEF NoRunaway
  <2>. QED  BY <2>1 DEF LoadedFaithfully, LaterRecognized, EveryThreadReported
<1>2. CASE ComparisonInv
  BY <1>2, FaithfulWhenLoaded, RecognizedWhenCompared, ReportedWhenCompared
<1>3. CASE stage = 5
  BY <1>3 DEF LoadedFaithfully, LaterRecognized, EveryThreadReported
<1>. QED  BY <1>1, <1>2, <1>3 DEF RunawayInv

-----------------------------------------------------------------------------
(* Ascending.                                                              *)

Rank(S, x) == Cardinality(UpTo(S, x))

\* Larger elements have higher ranks.
LEMMA RanksRise ==
  ASSUME NEW S \in SUBSET Int, IsFiniteSet(S)
  PROVE  /\ Cardinality(S) \in Nat
         /\ \A x \in S : Rank(S, x) \in 1..Cardinality(S)
         /\ \A x, y \in S : x < y => Rank(S, x) < Rank(S, y)
<1>1. \A x : UpTo(S, x) \subseteq S /\ IsFiniteSet(UpTo(S, x)) /\ Rank(S, x) \in Nat
  BY FS_Subset, FS_CardinalityType DEF UpTo, Rank
<1>2. ASSUME NEW x \in S  PROVE Rank(S, x) \in 1..Cardinality(S)
  <2>1. x \in UpTo(S, x)
    BY DEF UpTo
  <2>2. Rank(S, x) # 0
    BY <1>1, <2>1, FS_EmptySet DEF Rank
  <2>3. Rank(S, x) <= Cardinality(S) /\ Cardinality(S) \in Nat
    BY <1>1, FS_Subset, FS_CardinalityType DEF Rank
  <2>. QED  BY <1>1, <2>2, <2>3
<1>3. ASSUME NEW x \in S, NEW y \in S, x < y  PROVE Rank(S, x) < Rank(S, y)
  <2>1. UpTo(S, x) \subseteq UpTo(S, y)
    <3>. SUFFICES ASSUME NEW z \in UpTo(S, x)  PROVE z \in UpTo(S, y)
      OBVIOUS
    <3>1. z \in S /\ z <= x /\ z \in Int /\ x \in Int /\ y \in Int
      BY DEF UpTo
    <3>2. z <= y
      BY <1>3, <3>1
    <3>. QED  BY <3>1, <3>2 DEF UpTo
  <2>2. y \in UpTo(S, y) /\ y \notin UpTo(S, x)
    BY <1>3 DEF UpTo
  <2>3. Rank(S, x) <= Rank(S, y) /\ Rank(S, x) # Rank(S, y)
    BY <1>1, <2>1, <2>2, FS_Subset DEF Rank
  <2>. QED  BY <1>1, <2>3
<1>. QED  BY <1>2, <1>3, FS_CardinalityType

\* Every rank is that of one element.
LEMMA RanksAre ==
  ASSUME NEW S \in SUBSET Int, IsFiniteSet(S), NEW k \in 1..Cardinality(S)
  PROVE  \E x \in S : Rank(S, x) = k /\ \A y \in S : Rank(S, y) = k => y = x
<1>1. PICK n \in Nat : n = Cardinality(S)
  BY FS_CardinalityType
<1>2. PICK f : f = [x \in S |-> Rank(S, x)]
  OBVIOUS
<1>3. PICK R : R = {f[x] : x \in S}
  OBVIOUS
<1>4. \A x, y \in S : Rank(S, x) = Rank(S, y) => x = y
  <2>. SUFFICES ASSUME NEW x \in S, NEW y \in S, Rank(S, x) = Rank(S, y)  PROVE x = y
    OBVIOUS
  <2>1. ~(x < y) /\ ~(y < x)
    BY RanksRise
  <2>. QED  BY <2>1
<1>5. R \subseteq 1..n
  BY <1>1, <1>2, <1>3, RanksRise
<1>6. f \in [S -> R] /\ (\A x, y \in S : f[x] = f[y] => x = y) /\ \A r \in R : \E x \in S : f[x] = r
  BY <1>2, <1>3, <1>4
<1>7. f \in Bijection(S, R)
  BY <1>6 DEF Bijection, Injection, Surjection, IsInjective
<1>8. Cardinality(R) = n
  BY <1>1, <1>7, FS_Bijection DEF ExistsBijection
<1>9. IsFiniteSet(1..n) /\ Cardinality(1..n) = n
  BY FS_Interval
<1>10. R = 1..n
  BY <1>5, <1>8, <1>9, FS_Subset
<1>11. k \in R
  BY <1>1, <1>10
<1>. QED  BY <1>2, <1>4, <1>6, <1>11

LEMMA AscendingIs ==
  ASSUME NEW S \in SUBSET Int, IsFiniteSet(S)
  PROVE  /\ Ascending(S) \in [1..Cardinality(S) -> S]
         /\ \A k \in 1..Cardinality(S) : Rank(S, Ascending(S)[k]) = k
         /\ \A x \in S : Ascending(S)[Rank(S, x)] = x
<1>1. \A k \in 1..Cardinality(S) : Ascending(S)[k] = CHOOSE x \in S : Rank(S, x) = k
  BY DEF Ascending, Rank
<1>2. ASSUME NEW k \in 1..Cardinality(S)  PROVE Ascending(S)[k] \in S /\ Rank(S, Ascending(S)[k]) = k
  BY <1>1, RanksAre
<1>3. Ascending(S) \in [1..Cardinality(S) -> S]
  BY <1>2 DEF Ascending
<1>4. ASSUME NEW x \in S  PROVE Ascending(S)[Rank(S, x)] = x
  <2>1. Rank(S, x) \in 1..Cardinality(S)
    BY RanksRise
  <2>2. PICK k \in 1..Cardinality(S) : k = Rank(S, x)
    BY <2>1
  <2>3. PICK y \in S : Rank(S, y) = k /\ \A z \in S : Rank(S, z) = k => z = y
    BY RanksAre
  <2>. QED  BY <1>2, <2>2, <2>3
<1>. QED  BY <1>2, <1>3, <1>4

\* An element above all others comes last.
LEMMA AscendingNext ==
  ASSUME NEW S \in SUBSET Int, IsFiniteSet(S), NEW x \in Int, \A y \in S : y < x
  PROVE  Ascending(S \cup {x}) = Append(Ascending(S), x)
<1>1. PICK T \in SUBSET Int : T = S \cup {x}
  OBVIOUS
<1>2. PICK n \in Nat : n = Cardinality(S)
  BY FS_CardinalityType
<1>3. IsFiniteSet(T) /\ Cardinality(T) = n + 1
  BY <1>1, <1>2, FS_AddElement
<1>4. \A y \in S : Rank(T, y) = Rank(S, y)
  <2>1. \A y \in S : UpTo(T, y) = UpTo(S, y)
    BY <1>1 DEF UpTo
  <2>. QED  BY <2>1 DEF Rank
<1>5. Rank(T, x) = n + 1
  <2>. \A y \in T : y \in Int /\ y <= x
    BY <1>1
  <2>1. UpTo(T, x) = T
    BY <1>1 DEF UpTo
  <2>. QED  BY <1>3, <2>1 DEF Rank
<1>6. PICK a \in [1..n -> S], b \in [1..(n + 1) -> T] : a = Ascending(S) /\ b = Ascending(T)
  BY <1>1, <1>2, <1>3, AscendingIs
<1>7. b[n + 1] = x
  BY <1>1, <1>3, <1>5, <1>6, AscendingIs
<1>8. ASSUME NEW k \in 1..n  PROVE b[k] = a[k]
  <2>1. a[k] \in S /\ Rank(S, a[k]) = k
    BY <1>2, <1>6, AscendingIs
  <2>2. a[k] \in T /\ Rank(T, a[k]) = k
    BY <1>1, <1>4, <2>1
  <2>. QED  BY <1>3, <1>6, <2>2, AscendingIs
<1>9. a \in Seq(Int) /\ Len(a) = n
  <2>1. a \in [1..n -> Int]
    BY <1>6
  <2>. QED  BY <2>1, SeqDef
<1>10. PICK c : c = Append(a, x)
  OBVIOUS
<1>11. c \in Seq(Int) /\ Len(c) = n + 1 /\ c[n + 1] = x /\ \A k \in 1..n : c[k] = a[k]
  BY <1>9, <1>10, AppendProperties
<1>12. DOMAIN c = 1..(n + 1) /\ c = [k \in 1..(n + 1) |-> c[k]]
  BY <1>11
<1>13. \A k \in 1..(n + 1) : b[k] = c[k]
  BY <1>7, <1>8, <1>11
<1>14. b = [k \in 1..(n + 1) |-> b[k]]
  BY <1>6
<1>15. b = c
  BY <1>12, <1>13, <1>14
<1>. QED  BY <1>1, <1>6, <1>10, <1>15

-----------------------------------------------------------------------------
(* What the command line names.                                            *)

WordsIn(s, n) == {i \in 1..n : s[i] \in Words}

\* The first n arguments without switches.
WordLine(s, n) == LET places == Ascending(WordsIn(s, n)) IN [k \in DOMAIN places |-> s[places[k]]]

LEMMA LineIs == argv \in Seq(Switches \cup Words) => Line = WordLine(argv, Len(argv))
<1>. SUFFICES ASSUME argv \in Seq(Switches \cup Words)  PROVE Line = WordLine(argv, Len(argv))
  OBVIOUS
<1>1. {i \in DOMAIN argv : argv[i] \in Words} = WordsIn(argv, Len(argv))
  BY DEF WordsIn
<1>. QED  BY <1>1 DEF Line, WordLine

LEMMA WordsInIs ==
  ASSUME NEW s, NEW n \in Nat
  PROVE  WordsIn(s, n) \in SUBSET Int /\ IsFiniteSet(WordsIn(s, n)) /\ \A i \in WordsIn(s, n) : i < n + 1 /\ s[i] \in Words
<1>1. WordsIn(s, n) \subseteq 1..n
  BY DEF WordsIn
<1>2. IsFiniteSet(WordsIn(s, n))
  BY <1>1, FS_Interval, FS_Subset
<1>. QED  BY <1>1, <1>2 DEF WordsIn

LEMMA WordLineIs ==
  ASSUME NEW s, NEW n \in Nat
  PROVE  WordLine(s, n) \in Seq(Words)
<1>1. PICK S \in SUBSET Int : S = WordsIn(s, n) /\ IsFiniteSet(S) /\ \A i \in S : s[i] \in Words
  BY WordsInIs
<1>2. PICK m \in Nat : m = Cardinality(S)
  BY <1>1, FS_CardinalityType
<1>3. PICK places \in [1..m -> S] : places = Ascending(S)
  BY <1>1, <1>2, AscendingIs
<1>4. WordLine(s, n) = [k \in 1..m |-> s[places[k]]]
  BY <1>1, <1>3 DEF WordLine
<1>5. [k \in 1..m |-> s[places[k]]] \in [1..m -> Words]
  BY <1>1, <1>3
<1>. QED  BY <1>4, <1>5, SeqDef

\* One argument more.
LEMMA WordLineNext ==
  ASSUME NEW s, NEW n \in Nat
  PROVE  WordLine(s, n + 1) = IF s[n + 1] \in Words THEN Append(WordLine(s, n), s[n + 1]) ELSE WordLine(s, n)
<1>1. PICK S \in SUBSET Int : S = WordsIn(s, n) /\ IsFiniteSet(S) /\ \A i \in S : i < n + 1 /\ s[i] \in Words
  BY WordsInIs
<1>2. CASE s[n + 1] \notin Words
  <2>1. WordsIn(s, n + 1) = S
    BY <1>1, <1>2 DEF WordsIn
  <2>. QED  BY <1>1, <1>2, <2>1 DEF WordLine
<1>3. CASE s[n + 1] \in Words
  <2>1. WordsIn(s, n + 1) = S \cup {n + 1}
    BY <1>1, <1>3 DEF WordsIn
  <2>2. PICK m \in Nat : m = Cardinality(S)
    BY <1>1, FS_CardinalityType
  <2>3. PICK a \in [1..m -> S] : a = Ascending(S)
    BY <1>1, <2>2, AscendingIs
  <2>4. PICK b : b = Append(a, n + 1)
    OBVIOUS
  <2>5. Ascending(S \cup {n + 1}) = b
    <3>1. PICK x \in Int : x = n + 1
      OBVIOUS
    <3>2. \A i \in S : i < x
      BY <1>1, <3>1
    <3>3. Ascending(S \cup {x}) = Append(Ascending(S), x)
      BY <1>1, <3>2, AscendingNext
    <3>. QED  BY <2>3, <2>4, <3>1, <3>3
  <2>6. a \in Seq(Int) /\ Len(a) = m
    <3>1. a \in [1..m -> Int]
      BY <2>3
    <3>. QED  BY <3>1, SeqDef
  <2>7. b \in Seq(Int) /\ Len(b) = m + 1 /\ b[m + 1] = n + 1 /\ \A k \in 1..m : b[k] = a[k]
    BY <2>4, <2>6, AppendProperties
  <2>8. DOMAIN b = 1..(m + 1)
    BY <2>7
  <2>9. WordLine(s, n) = [k \in 1..m |-> s[a[k]]]
    BY <1>1, <2>3 DEF WordLine
  <2>10. WordLine(s, n + 1) = [k \in 1..(m + 1) |-> s[b[k]]]
    BY <2>1, <2>5, <2>8 DEF WordLine
  <2>11. PICK old \in Seq(Words) : old = WordLine(s, n)
    BY WordLineIs
  <2>12. Len(old) = m /\ \A k \in 1..m : old[k] = s[a[k]]
    BY <2>9, <2>11
  <2>13. PICK new : new = Append(old, s[n + 1])
    OBVIOUS
  <2>14. new \in Seq(Words) /\ Len(new) = m + 1 /\ new[m + 1] = s[n + 1] /\ \A k \in 1..m : new[k] = old[k]
    BY <1>3, <2>11, <2>12, <2>13, AppendProperties
  <2>15. DOMAIN new = 1..(m + 1) /\ new = [k \in 1..(m + 1) |-> new[k]]
    BY <2>14
  <2>16. \A k \in 1..(m + 1) : new[k] = s[b[k]]
    BY <2>7, <2>12, <2>14
  <2>17. new = WordLine(s, n + 1)
    BY <2>10, <2>15, <2>16
  <2>. QED  BY <1>3, <2>11, <2>13, <2>17
<1>. QED  BY <1>2, <1>3

\* What a line has behind its first words.
Behind(line, off, ps) ==
  off \in Nat /\ Len(line) = off + Len(ps) /\ \A i \in 1..Len(ps) : ps[i] = line[off + i]

LEMMA BehindTail ==
  ASSUME NEW line \in Seq(Words), NEW off, NEW ps \in Seq(Words), Behind(line, off, ps), ps # << >>
  PROVE  Head(ps) = line[off + 1] /\ Behind(line, off + 1, Tail(ps))
<1>1. PICK n \in Nat : n = Len(ps)
  OBVIOUS
<1>2. off \in Nat /\ Len(line) = off + n /\ \A i \in 1..n : ps[i] = line[off + i]
  BY <1>1 DEF Behind
<1>3. n # 0
  BY <1>1
<1>4. PICK rest : rest = Tail(ps)
  OBVIOUS
<1>5. rest \in Seq(Words) /\ Len(rest) = n - 1 /\ \A i \in 1..(n - 1) : rest[i] = ps[i + 1]
  BY <1>1, <1>4, HeadTailProperties
<1>6. Head(ps) = line[off + 1]
  BY <1>1, <1>2, <1>3
<1>7. \A i \in 1..(n - 1) : rest[i] = line[off + 1 + i]
  <2>. SUFFICES ASSUME NEW i \in 1..(n - 1)  PROVE rest[i] = line[off + 1 + i]
    OBVIOUS
  <2>1. i + 1 \in 1..n /\ off + (i + 1) = off + 1 + i
    BY <1>2
  <2>2. ps[i + 1] = line[off + (i + 1)]
    BY <1>2, <2>1
  <2>. QED  BY <1>5, <2>1, <2>2
<1>8. off + 1 \in Nat /\ Len(line) = off + 1 + Len(rest)
  BY <1>2, <1>5
<1>. QED  BY <1>4, <1>5, <1>6, <1>7, <1>8 DEF Behind

LEMMA BehindAll == ASSUME NEW line \in Seq(Words)  PROVE Behind(line, 0, line)
BY DEF Behind

LEMMA BehindNested ==
  ASSUME NEW ps \in Seq(Words), ps # << >>, NEW w \in Words, NEW q, q = <<w>> \o Tail(ps)
  PROVE  q # << >> /\ Head(q) = w /\ Tail(q) = Tail(ps)
<1>1. PICK rest \in Seq(Words) : rest = Tail(ps)
  BY InTail
<1>2. <<w>> \in Seq(Words) /\ Len(<<w>>) = 1
  OBVIOUS
<1>3. /\ q \in Seq(Words) /\ Len(q) = 1 + Len(rest) /\ q[1] = w
      /\ \A i \in 1..Len(rest) : q[i + 1] = rest[i]
  BY <1>1, <1>2, ConcatProperties
<1>4. q # << >> /\ Head(q) = w
  BY <1>3
<1>5. PICK t : t = Tail(q)
  OBVIOUS
<1>6. t \in Seq(Words) /\ Len(t) = Len(rest) /\ \A i \in 1..Len(rest) : t[i] = q[i + 1]
  BY <1>3, <1>4, <1>5, HeadTailProperties
<1>7. t = [i \in 1..Len(rest) |-> t[i]] /\ rest = [i \in 1..Len(rest) |-> rest[i]]
  BY <1>6
<1>8. t = rest
  BY <1>3, <1>6, <1>7
<1>. QED  BY <1>1, <1>4, <1>5, <1>8

LEMMA BehindSuffix ==
  ASSUME NEW line \in Seq(Words), NEW off, NEW ps \in Seq(Words), Behind(line, off, ps)
  PROVE  IsSuffix(ps, line) /\ off = Len(line) - Len(ps)
<1>1. PICK n \in Nat, m \in Nat : n = Len(ps) /\ m = Len(line)
  OBVIOUS
<1>2. off \in Nat /\ m = off + n /\ \A i \in 1..n : ps[i] = line[off + i]
  BY <1>1 DEF Behind
<1>3. PICK r, q : r = Reverse(ps) /\ q = Reverse(line)
  OBVIOUS
<1>4. r \in Seq(Words) /\ Len(r) = n /\ \A i \in 1..n : r[i] = ps[n - i + 1]
  <2>1. \A i \in 1..n : n - i + 1 \in 1..n
    OBVIOUS
  <2>2. r = [i \in 1..n |-> ps[n - i + 1]]
    BY <1>1, <1>3 DEF Reverse
  <2>3. r \in [1..n -> Words]
    BY <1>1, <2>1, <2>2
  <2>. QED  BY <2>2, <2>3, SeqDef
<1>5. q \in Seq(Words) /\ Len(q) = m /\ \A i \in 1..m : q[i] = line[m - i + 1]
  <2>1. \A i \in 1..m : m - i + 1 \in 1..m
    OBVIOUS
  <2>2. q = [i \in 1..m |-> line[m - i + 1]]
    BY <1>1, <1>3 DEF Reverse
  <2>3. q \in [1..m -> Words]
    BY <1>1, <2>1, <2>2
  <2>. QED  BY <2>2, <2>3, SeqDef
<1>6. \A i \in 1..n : r[i] = q[i]
  <2>. SUFFICES ASSUME NEW i \in 1..n  PROVE r[i] = q[i]
    OBVIOUS
  <2>1. n - i + 1 \in 1..n /\ i \in 1..m /\ off + (n - i + 1) = m - i + 1
    BY <1>2
  <2>2. ps[n - i + 1] = line[off + (n - i + 1)]
    BY <1>2, <2>1
  <2>. QED  BY <1>4, <1>5, <2>1, <2>2
<1>7. SubSeq(r, 1, n) = SubSeq(q, 1, n)
  <2>1. SubSeq(r, 1, n) = [i \in 1..n |-> r[i]]
    BY <1>4
  <2>2. SubSeq(q, 1, n) = [i \in 1..n |-> q[i]]
    BY <1>2, <1>5
  <2>. QED  BY <1>6, <2>1, <2>2
<1>8. n <= m
  BY <1>2
<1>9. off = m - n
  BY <1>2
<1>. QED  BY <1>1, <1>3, <1>4, <1>5, <1>7, <1>8, <1>9 DEF IsSuffix, IsPrefix

\* The parameters are what the line has behind the words that were used: one
\* for each command, and that of an entry they did not suit.
Kept(off) == Names(Line[off], handler) /\ params # << >> /\ token = Head(params)

Lost(off) == /\ off - 1 \in Nat \ {0} /\ Line[off] = token /\ Names(Line[off - 1], handler)
             /\ \E i \in 1..(entry - 1) :
                  i \in 1..Len(Table) /\ Table[i].token = token /\ ~Table[i].all /\ ~Accepts(Table[i], params)

AheadInv ==
  at = "arguments" =>
    \E n \in Nat : /\ Len(argv) = n + Len(unseen) /\ params = WordLine(argv, n)
                   /\ \A i \in 1..Len(unseen) : unseen[i] = argv[n + i]

DispatchInv ==
  at = "dispatch" =>
    \E off \in Nat : Behind(Line, off + 1, Tail(params)) /\ Names(Line[off + 1], Head(params)) /\ params # << >>

TableInv ==
  at = "table" => \E off \in Nat \ {0} : Behind(Line, off, params) /\ (Kept(off) \/ Lost(off))

NamingInv == AheadInv /\ DispatchInv /\ TableInv /\ RunsWhatWasNamed

\* While nothing is run yet there is nothing to promise.
LEMMA NothingRun == at \in {"arguments", "dispatch", "table", "usage", "failed", "idle"} => RunsWhatWasNamed
BY DEF RunsWhatWasNamed

LEMMA NamingBegins == LineInit \/ NoLine => NamingInv
<1>1. CASE NoLine
  <2>1. at = "idle"
    BY <1>1 DEF NoLine
  <2>. QED  BY <2>1, NothingRun DEF NamingInv, AheadInv, DispatchInv, TableInv
<1>2. CASE LineInit
  <2>1. at = "arguments" /\ unseen = argv /\ params = << >> /\ argv \in Seq(Switches \cup Words)
    BY <1>2, BoundedIsSeq, CommandLineAssumption DEF LineInit
  <2>2. WordLine(argv, 0) = << >>
    <3>1. WordsIn(argv, 0) = {}
      BY DEF WordsIn
    <3>2. DOMAIN Ascending({}) = 1..0
      BY FS_EmptySet DEF Ascending
    <3>3. PICK w \in Seq(Words) : w = WordLine(argv, 0)
      BY WordLineIs
    <3>4. DOMAIN w = 1..0
      BY <3>1, <3>2, <3>3 DEF WordLine
    <3>. QED  BY <3>3, <3>4
  <2>3. Len(argv) = 0 + Len(unseen) /\ \A i \in 1..Len(unseen) : unseen[i] = argv[0 + i]
    BY <2>1
  <2>4. AheadInv
    BY <2>1, <2>2, <2>3 DEF AheadInv
  <2>. QED  BY <2>1, <2>4, NothingRun DEF NamingInv, DispatchInv, TableInv
<1>. QED  BY <1>1, <1>2

LEMMA ArgumentNamed ==
  ASSUME LineTypeOK, AheadInv, ReadArgument
  PROVE  AheadInv'
<1>1. at = "arguments" /\ unseen # << >> /\ unseen' = Tail(unseen) /\ argv' = argv
  BY DEF ReadArgument
<1>2. PICK n \in Nat : /\ Len(argv) = n + Len(unseen) /\ params = WordLine(argv, n)
                       /\ \A i \in 1..Len(unseen) : unseen[i] = argv[n + i]
  BY <1>1 DEF AheadInv
<1>3. PICK m \in Nat \ {0} : m = Len(unseen)
  BY <1>1 DEF LineTypeOK
<1>4. Len(unseen') = m - 1 /\ \A i \in 1..(m - 1) : unseen'[i] = unseen[i + 1]
  BY <1>1, <1>3, HeadTailProperties DEF LineTypeOK
<1>5. Head(unseen) = argv[n + 1]
  BY <1>1, <1>2, <1>3 DEF LineTypeOK
<1>6. params' = WordLine(argv, n + 1)
  <2>1. params' = IF Head(unseen) \in Words THEN Append(params, Head(unseen)) ELSE params
    BY ArgumentKinds DEF ReadArgument
  <2>. QED  BY <1>2, <1>5, <2>1, WordLineNext
<1>7. \A i \in 1..(m - 1) : unseen'[i] = argv[n + 1 + i]
  <2>. SUFFICES ASSUME NEW i \in 1..(m - 1)  PROVE unseen'[i] = argv[n + 1 + i]
    OBVIOUS
  <2>1. i + 1 \in 1..m /\ n + (i + 1) = n + 1 + i
    BY <1>3
  <2>. QED  BY <1>2, <1>3, <1>4, <2>1
<1>8. Len(argv) = (n + 1) + (m - 1) /\ n + 1 \in Nat
  BY <1>2, <1>3
<1>. QED  BY <1>1, <1>4, <1>6, <1>7, <1>8 DEF AheadInv

\* Where the switches end, what is dispatched is the line.
LEMMA SwitchedNamed ==
  ASSUME LineTypeOK, AheadInv, Switched
  PROVE  DispatchInv'
<1>1. at = "arguments" /\ unseen = << >> /\ argv' = argv /\ params' = params
      /\ (at' = "dispatch" => params # << >>)
  BY DEF Switched
<1>2. params = Line
  <2>1. PICK n \in Nat : /\ Len(argv) = n + Len(unseen) /\ params = WordLine(argv, n)
    BY <1>1 DEF AheadInv
  <2>2. n = Len(argv)
    BY <1>1, <2>1
  <2>. QED  BY <2>1, <2>2, LineIs DEF LineTypeOK
<1>3. Line' = Line
  BY <1>1 DEF Line
<1>4. PICK line \in Seq(Words) : line = params
  BY DEF LineTypeOK
<1>5. CASE line # << >>
  <2>1. Behind(line, 0, line)
    BY BehindAll
  <2>2. Head(line) = line[0 + 1] /\ Behind(line, 0 + 1, Tail(line))
    BY <1>5, <2>1, BehindTail
  <2>3. Names(line[0 + 1], Head(line))
    BY <2>2 DEF Names
  <2>. QED  BY <1>1, <1>2, <1>3, <1>4, <1>5, <2>2, <2>3 DEF DispatchInv
<1>. QED  BY <1>1, <1>4, <1>5 DEF DispatchInv

\* The handlers that have a table.
LEMMA Tabled ==
  ASSUME NEW h \in {"time", "input"}
  PROVE  Handlers[h].table # << >>
<1>1. CASE h = "time"
  <2>1. Handlers[h].table = << Entry("perf", "ReportPerfCounter", 0, FALSE, FALSE), Entry("wait", "DoWait", 1, TRUE, FALSE),
                               Entry("mm", "BeginEnd", 1, FALSE, FALSE), Entry("anything", "Measure", 1, TRUE, TRUE) >>
    BY <1>1 DEF Handlers
  <2>. QED  BY <2>1
<1>2. CASE h = "input"
  <2>1. Handlers[h].table = << Entry("kbd", "MonitorKeys", 0, FALSE, FALSE), Entry("mouse", "MonitorMouse", 0, FALSE, FALSE) >>
    BY <1>2 DEF Handlers
  <2>. QED  BY <2>1
<1>. QED  BY <1>1, <1>2

\* Where a handler is found, what is behind its name are its parameters.
LEMMA DispatchNamed ==
  ASSUME LineTypeOK, PlaceInv, DispatchInv, Dispatch
  PROVE  TableInv' /\ RunsWhatWasNamed'
<1>1. /\ at = "dispatch" /\ argv' = argv /\ at' \in {"usage", "failed", "done", "table"}
  BY DEF Dispatch, Run
<1>2. Line' = Line
  BY <1>1 DEF Line
<1>3. PICK line \in Seq(Words) : line = Line
  BY LineIs, WordLineIs DEF LineTypeOK
<1>4. PICK off \in Nat : Behind(line, off + 1, Tail(params)) /\ Names(line[off + 1], Head(params)) /\ params # << >>
  BY <1>1, <1>3 DEF DispatchInv
<1>5. PICK h, ps : h = Head(params) /\ ps = Tail(params)
  OBVIOUS
<1>6. h \in Words /\ ps \in Seq(Words)
  BY <1>4, <1>5, InTail DEF LineTypeOK
<1>7. CASE at' = "table"
  <2>1. /\ h \in DOMAIN Handlers /\ handler' = h /\ params' = ps
        /\ Len(ps) >= Handlers[h].min /\ Handlers[h].table # << >> /\ token' = Head(ps)
    BY <1>5, <1>7 DEF Dispatch, Run
  <2>2. Handlers[h].min >= 1
    BY <2>1 DEF Handlers
  <2>3. ps # << >>
    <3>1. Handlers[h].min \in Nat
      BY <2>1 DEF Handlers
    <3>. QED  BY <1>6, <2>1, <2>2, <3>1
  <2>4. Kept(off + 1)'
    BY <1>2, <1>3, <1>4, <1>5, <2>1, <2>3 DEF Kept
  <2>5. TableInv'
    BY <1>2, <1>3, <1>4, <1>5, <2>1, <2>4 DEF TableInv
  <2>. QED  BY <1>7, <2>5, NothingRun' DEF RunsWhatWasNamed
<1>8. CASE at' = "done"
  <2>1. /\ h \in DOMAIN Handlers /\ command' = [proc |-> h, params |-> ps]
        /\ Len(ps) >= Handlers[h].min /\ Handlers[h].table = << >>
    BY <1>5, <1>8 DEF Dispatch, Run
  <2>2. h = "cr" /\ Len(ps) >= 2
    <3>1. h \in {"time", "input", "cr"} /\ Handlers["cr"].min = 2
      BY <2>1 DEF Handlers
    <3>2. h \notin {"time", "input"}
      BY <2>1, Tabled
    <3>. QED  BY <2>1, <3>1, <3>2
  <2>3. IsSuffix(ps, line) /\ off + 1 = Len(line) - Len(ps)
    BY <1>4, <1>5, <1>6, BehindSuffix
  <2>4. line[Len(line) - Len(ps) - 0] = line[off + 1]
    <3>1. PICK n \in Nat, m \in Nat : n = Len(ps) /\ m = Len(line)
      BY <1>6
    <3>2. m - n - 0 = off + 1
      BY <2>3, <3>1
    <3>. QED  BY <3>1, <3>2
  <2>5. Names(line[Len(line) - Len(ps) - 0], "cr")
    BY <1>4, <1>5, <2>2, <2>4
  <2>6. command'.proc = "cr" /\ command'.params = ps
    BY <2>1, <2>2
  <2>7. RunsWhatWasNamed'
    BY <1>2, <1>3, <2>2, <2>3, <2>5, <2>6 DEF RunsWhatWasNamed, Before
  <2>. QED  BY <1>8, <2>7 DEF TableInv
<1>9. CASE at' \in {"usage", "failed"}
  BY <1>9 DEF TableInv, RunsWhatWasNamed
<1>. QED  BY <1>1, <1>7, <1>8, <1>9

\* What an entry runs is what it says, with the parameters behind it.
LEMMA EntryNamed ==
  ASSUME NEW line \in Seq(Words), NEW off \in Nat, NEW ps \in Seq(Words), line = Line',
         Behind(line, off, ps), command' = [proc |-> command'.proc, params |-> ps]
  PROVE  /\ IsSuffix(command'.params, Line') /\ command'.params = ps
         /\ Before(0)' = line[off] /\ Before(1)' = line[off - 1]
<1>1. IsSuffix(ps, line) /\ off = Len(line) - Len(ps)
  BY BehindSuffix
<1>2. command'.params = ps
  OBVIOUS
<1>3. PICK n \in Nat, m \in Nat : n = Len(ps) /\ m = Len(line)
  OBVIOUS
<1>4. m - n - 0 = off /\ m - n - 1 = off - 1
  BY <1>1, <1>3
<1>. QED  BY <1>1, <1>2, <1>3, <1>4 DEF Before

\* The entries that have a token of their own, and the one that has none.
LEMMA EntryKinds ==
  ASSUME handler \in {"time", "input"}, NEW i \in 1..Len(Table)
  PROVE  /\ handler \in DOMAIN Handlers /\ i \in DOMAIN Handlers[handler].table /\ Table[i] = Handlers[handler].table[i]
         /\ Table[i].min \in Nat
         /\ Table[i].proc = "Measure" => Table[i].all
         /\ Table[i].all => handler = "time" /\ Table[i].proc = "Measure" /\ Table[i].min = 1 /\ Table[i].more
         /\ ~Table[i].all /\ handler = "time" =>
              Table[i].token \in {"perf", "mm"} \/ (Table[i].min = 1 /\ Table[i].more)
<1>1. handler \in DOMAIN Handlers /\ i \in DOMAIN Handlers[handler].table /\ Table[i] = Handlers[handler].table[i]
  <2>1. handler \in DOMAIN Handlers
    BY DEF Handlers
  <2>2. Len(Table) \in Nat /\ DOMAIN Table = 1..Len(Table)
    <3>1. CASE handler = "time"
      BY <3>1 DEF Table, Handlers
    <3>2. CASE handler = "input"
      BY <3>2 DEF Table, Handlers
    <3>. QED  BY <3>1, <3>2
  <2>. QED  BY <2>1, <2>2 DEF Table
<1>2. CASE handler = "time"
  <2>1. Table = << Entry("perf", "ReportPerfCounter", 0, FALSE, FALSE), Entry("wait", "DoWait", 1, TRUE, FALSE),
                   Entry("mm", "BeginEnd", 1, FALSE, FALSE), Entry("anything", "Measure", 1, TRUE, TRUE) >>
    BY <1>2 DEF Table, Handlers
  <2>2. i \in {1, 2, 3, 4}
    BY <2>1
  <2>3. CASE i = 1
    <3>1. Table[i] = [token |-> "perf", proc |-> "ReportPerfCounter", min |-> 0, more |-> FALSE, all |-> FALSE]
      BY <2>1, <2>3 DEF Entry
    <3>. QED  BY <1>1, <3>1
  <2>4. CASE i = 2
    <3>1. Table[i] = [token |-> "wait", proc |-> "DoWait", min |-> 1, more |-> TRUE, all |-> FALSE]
      BY <2>1, <2>4 DEF Entry
    <3>. QED  BY <1>1, <3>1
  <2>5. CASE i = 3
    <3>1. Table[i] = [token |-> "mm", proc |-> "BeginEnd", min |-> 1, more |-> FALSE, all |-> FALSE]
      BY <2>1, <2>5 DEF Entry
    <3>. QED  BY <1>1, <3>1
  <2>6. CASE i = 4
    <3>1. Table[i] = [token |-> "anything", proc |-> "Measure", min |-> 1, more |-> TRUE, all |-> TRUE]
      BY <2>1, <2>6 DEF Entry
    <3>. QED  BY <1>1, <1>2, <3>1
  <2>. QED  BY <2>2, <2>3, <2>4, <2>5, <2>6
<1>3. CASE handler = "input"
  <2>1. Table = << Entry("kbd", "MonitorKeys", 0, FALSE, FALSE), Entry("mouse", "MonitorMouse", 0, FALSE, FALSE) >>
    BY <1>3 DEF Table, Handlers
  <2>2. i \in {1, 2}
    BY <2>1
  <2>3. CASE i = 1
    <3>1. Table[i] = [token |-> "kbd", proc |-> "MonitorKeys", min |-> 0, more |-> FALSE, all |-> FALSE]
      BY <2>1, <2>3 DEF Entry
    <3>. QED  BY <1>1, <1>3, <3>1
  <2>4. CASE i = 2
    <3>1. Table[i] = [token |-> "mouse", proc |-> "MonitorMouse", min |-> 0, more |-> FALSE, all |-> FALSE]
      BY <2>1, <2>4 DEF Entry
    <3>. QED  BY <1>1, <1>3, <3>1
  <2>. QED  BY <2>2, <2>3, <2>4
<1>. QED  BY <1>2, <1>3

\* The parameters an entry would get.
Given(e) == IF (e.all \/ token = e.token) /\ ~e.all THEN Tail(params) ELSE params

\* An entry with a token of its own runs what was named.
LEMMA OwnEntryNamed ==
  ASSUME LineTypeOK, PlaceInv, TableInv, at = "table", entry \in 1..Len(Table), UNCHANGED <<argv, handler, token>>,
         ~Table[entry].all, token = Table[entry].token, Accepts(Table[entry], Tail(params)),
         Run(Table[entry].proc, Tail(params))
  PROVE  RunsWhatWasNamed'
<1>1. handler \in {"time", "input"}
  BY DEF PlaceInv
<1>2. PICK line \in Seq(Words) : line = Line
  BY LineIs, WordLineIs DEF LineTypeOK
<1>3. PICK off \in Nat \ {0} : Behind(line, off, params) /\ (Kept(off) \/ Lost(off))
  BY <1>2 DEF TableInv
<1>4. PICK e : e = Table[entry]
  OBVIOUS
<1>5. ~Lost(off)
  <2>. SUFFICES ASSUME Lost(off)  PROVE FALSE
    OBVIOUS
  <2>1. PICK i \in 1..(entry - 1) : i \in 1..Len(Table) /\ Table[i].token = token /\ ~Table[i].all
    BY DEF Lost
  <2>2. i < entry
    BY Tables, <1>1
  <2>. QED  BY <1>1, <2>1, <2>2, Tables
<1>6. Names(line[off], handler) /\ params # << >> /\ token = Head(params)
  BY <1>2, <1>3, <1>5 DEF Kept
<1>7. Head(params) = line[off + 1] /\ Behind(line, off + 1, Tail(params)) /\ Tail(params) \in Seq(Words)
  BY <1>3, <1>6, BehindTail, InTail DEF LineTypeOK
<1>8. PICK ps \in Seq(Words) : ps = Tail(params)
  BY <1>7
<1>9. command' = [proc |-> e.proc, params |-> ps] /\ at' = "done" /\ line = Line'
  BY <1>2, <1>4, <1>8 DEF Run, Line
<1>10. PICK to \in Nat : to = off + 1
  OBVIOUS
<1>11. /\ IsSuffix(command'.params, Line') /\ command'.params = ps
       /\ Before(0)' = line[to] /\ Before(1)' = line[to - 1]
  BY <1>7, <1>8, <1>9, <1>10, EntryNamed
<1>12. Before(0)' = e.token /\ Names(Before(1)', handler) /\ command'.proc = e.proc
  <2>1. to - 1 = off
    BY <1>10
  <2>. QED  BY <1>4, <1>6, <1>7, <1>9, <1>10, <1>11, <2>1
<1>13. Len(ps) = e.min \/ (e.more /\ Len(ps) > e.min)
  <2>1. e.min \in Nat /\ Len(ps) \in Nat
    BY <1>1, <1>4, EntryKinds
  <2>2. Len(ps) = e.min \/ (e.more /\ Len(ps) >= e.min)
    BY <1>4, <1>8, Zenon DEF Accepts
  <2>. QED  BY <2>1, <2>2
<1>14. handler \in DOMAIN Handlers /\ entry \in DOMAIN Handlers[handler].table /\ e = Handlers[handler].table[entry]
  BY <1>1, <1>4, EntryKinds
<1>15. \E h \in DOMAIN Handlers : \E i \in DOMAIN Handlers[h].table :
         LET f == Handlers[h].table[i] IN
         /\ command'.proc = f.proc /\ Before(0)' = f.token /\ Names(Before(1)', h)
         /\ Len(command'.params) = f.min \/ (f.more /\ Len(command'.params) > f.min)
  BY <1>11, <1>12, <1>13, <1>14
<1>. QED  BY <1>11, <1>15 DEF RunsWhatWasNamed

\* The entry for anything runs a command of the system behind "time".
LEMMA SystemNamed ==
  ASSUME LineTypeOK, PlaceInv, TableInv, at = "table", entry \in 1..Len(Table), UNCHANGED <<argv, handler, token>>,
         Table[entry].all, Accepts(Table[entry], params), Run("system", params)
  PROVE  RunsWhatWasNamed'
<1>1. handler \in {"time", "input"}
  BY DEF PlaceInv
<1>2. handler = "time" /\ Table[entry].min = 1
  BY <1>1, EntryKinds
<1>3. PICK ps \in Seq(Words) : ps = params
  BY DEF LineTypeOK
<1>4. ps # << >>
  <2>1. PICK m : m = Table[entry].min
    OBVIOUS
  <2>2. Len(ps) = m \/ Len(ps) >= m
    BY <1>3, <2>1, Zenon DEF Accepts
  <2>3. m = 1
    BY <1>2, <2>1, SMT
  <2>4. PICK n \in Nat : n = Len(ps)
    OBVIOUS
  <2>5. n = m \/ n >= m
    BY <2>2, <2>4, Zenon
  <2>6. n # 0
    BY <2>3, <2>5
  <2>. QED  BY <2>4, <2>6
<1>5. PICK line \in Seq(Words) : line = Line
  BY LineIs, WordLineIs DEF LineTypeOK
<1>6. PICK off \in Nat \ {0} : Behind(line, off, ps) /\ (Kept(off) \/ Lost(off))
  BY <1>3, <1>5 DEF TableInv
<1>7. command' = [proc |-> "system", params |-> ps] /\ at' = "done" /\ line = Line'
  BY <1>3, <1>5 DEF Run, Line
<1>8. /\ IsSuffix(command'.params, Line') /\ command'.params = ps
      /\ Before(0)' = line[off] /\ Before(1)' = line[off - 1]
  BY <1>6, <1>7, EntryNamed
<1>9. Names(line[off], "time") \/ (line[off] \in {"perf", "mm"} /\ Names(line[off - 1], "time"))
  <2>1. CASE Kept(off)
    BY <1>2, <1>5, <2>1 DEF Kept
  <2>2. CASE Lost(off)
    <3>1. PICK i \in 1..(entry - 1) : /\ i \in 1..Len(Table) /\ Table[i].token = token /\ ~Table[i].all
                                      /\ ~Accepts(Table[i], params)
      BY <2>2 DEF Lost
    <3>2. ~(Table[i].min = 1 /\ Table[i].more)
      <4>. SUFFICES ASSUME Table[i].min = 1, Table[i].more  PROVE FALSE
        OBVIOUS
      <4>1. Len(params) >= 1
        BY <1>3, <1>4
      <4>2. Len(params) >= Table[i].min
        BY <4>1
      <4>. QED  BY <3>1, <4>2, Zenon DEF Accepts
    <3>3. token \in {"perf", "mm"}
      BY <1>1, <1>2, <3>1, <3>2, EntryKinds
    <3>. QED  BY <1>2, <1>5, <2>2, <3>3 DEF Lost
  <2>. QED  BY <1>6, <2>1, <2>2
<1>10. command'.proc = "system"
  BY <1>7
<1>11. /\ command'.proc = "system" /\ command'.params # << >>
       /\ \/ Names(Before(0)', "time")
          \/ Before(0)' \in {"perf", "mm"} /\ Names(Before(1)', "time")
  BY <1>4, <1>8, <1>9, <1>10
<1>. QED  BY <1>8, <1>11 DEF RunsWhatWasNamed

\* A nested command is named by the word that has the exclamation mark.
LEMMA NestedNamed ==
  ASSUME LineTypeOK, PlaceInv, TableInv, at = "table", entry \in 1..Len(Table), UNCHANGED <<argv, handler, token>>,
         Table[entry].all, Accepts(Table[entry], params), Head(params) \in DOMAIN Nested,
         params' = <<Nested[Head(params)]>> \o Tail(params)
  PROVE  DispatchInv'
<1>1. handler \in {"time", "input"}
  BY DEF PlaceInv
<1>2. Table[entry].min = 1
  BY <1>1, EntryKinds
<1>3. PICK ps \in Seq(Words) : ps = params
  BY DEF LineTypeOK
<1>4. ps # << >>
  <2>1. PICK m : m = Table[entry].min
    OBVIOUS
  <2>2. Len(ps) = m \/ Len(ps) >= m
    BY <1>3, <2>1, Zenon DEF Accepts
  <2>3. m = 1
    BY <1>2, <2>1, SMT
  <2>4. PICK n \in Nat : n = Len(ps)
    OBVIOUS
  <2>5. n = m \/ n >= m
    BY <2>2, <2>4, Zenon
  <2>6. n # 0
    BY <2>3, <2>5
  <2>. QED  BY <2>4, <2>6
<1>5. PICK line \in Seq(Words) : line = Line
  BY LineIs, WordLineIs DEF LineTypeOK
<1>6. PICK off \in Nat \ {0} : Behind(line, off, ps)
  BY <1>3, <1>5 DEF TableInv
<1>7. Head(ps) = line[off + 1] /\ Behind(line, off + 1, Tail(ps))
  BY <1>4, <1>6, BehindTail
<1>12. PICK w \in Words : w = Nested[Head(ps)]
  BY <1>3 DEF Nested, Words
<1>8. PICK q : w = Nested[Head(ps)] /\ q = <<w>> \o Tail(ps)
  BY <1>12
<1>9. q # << >> /\ Head(q) = w /\ Tail(q) = Tail(ps)
  BY <1>4, <1>8, BehindNested
<1>10. Names(line[off + 1], w)
  BY <1>3, <1>7, <1>8 DEF Names
<1>11. params' = q /\ line = Line'
  BY <1>3, <1>5, <1>8 DEF Line
<1>. QED  BY <1>6, <1>7, <1>9, <1>10, <1>11 DEF DispatchInv

\* An entry that is passed by leaves the parameters, or has lost its token.
LEMMA PassedNamed ==
  ASSUME LineTypeOK, PlaceInv, TableInv, at = "table", entry \in 1..Len(Table), UNCHANGED <<argv, handler, token>>,
         entry' = entry + 1, params' = Given(Table[entry]),
         ~((Table[entry].all \/ token = Table[entry].token) /\ Accepts(Table[entry], Given(Table[entry])))
  PROVE  TableInv'
<1>1. handler \in {"time", "input"} /\ Table' = Table
  BY DEF PlaceInv, Table
<1>2. PICK line \in Seq(Words) : line = Line
  BY LineIs, WordLineIs DEF LineTypeOK
<1>3. PICK off \in Nat \ {0} : Behind(line, off, params) /\ (Kept(off) \/ Lost(off))
  BY <1>2 DEF TableInv
<1>4. line = Line' /\ handler' = handler /\ token' = token /\ entry \in Nat /\ Len(Table) \in Nat
  BY <1>1, <1>2, Tables DEF Line
<1>5. CASE token = Table[entry].token /\ ~Table[entry].all
  <2>1. params' = Tail(params)
    BY <1>5 DEF Given
  <2>2. ~Lost(off)
    <3>. SUFFICES ASSUME Lost(off)  PROVE FALSE
      OBVIOUS
    <3>1. PICK i \in 1..(entry - 1) : i \in 1..Len(Table) /\ Table[i].token = token /\ ~Table[i].all
      BY DEF Lost
    <3>2. i < entry
      BY <1>4
    <3>. QED  BY <1>1, <1>5, <3>1, <3>2, Tables
  <2>3. Names(line[off], handler) /\ params # << >> /\ token = Head(params)
    BY <1>2, <1>3, <2>2 DEF Kept
  <2>4. Head(params) = line[off + 1] /\ Behind(line, off + 1, Tail(params))
    BY <1>3, <2>3, BehindTail DEF LineTypeOK
  <2>5. ~Accepts(Table[entry], Tail(params))
    BY <1>5, <2>1, Zenon
  <2>6. PICK to \in Nat \ {0} : to = off + 1 /\ to - 1 = off
    OBVIOUS
  <2>7. entry \in 1..(entry' - 1)
    BY <1>4
  <2>8. Lost(to)'
    BY <1>1, <1>3, <1>4, <1>5, <2>1, <2>3, <2>4, <2>5, <2>6, <2>7 DEF Lost
  <2>. QED  BY <1>4, <2>1, <2>4, <2>6, <2>8 DEF TableInv
<1>6. CASE ~(token = Table[entry].token /\ ~Table[entry].all)
  <2>1. params' = params
    BY <1>6 DEF Given
  <2>2. Kept(off) => Kept(off)'
    BY <1>2, <1>4, <2>1 DEF Kept
  <2>3. Lost(off) => Lost(off)'
    <3>. SUFFICES ASSUME Lost(off)  PROVE Lost(off)'
      OBVIOUS
    <3>1. PICK i \in 1..(entry - 1) : /\ i \in 1..Len(Table) /\ Table[i].token = token /\ ~Table[i].all
                                      /\ ~Accepts(Table[i], params)
      BY DEF Lost
    <3>2. i \in 1..(entry' - 1)
      BY <1>4
    <3>. QED  BY <1>1, <1>2, <1>4, <2>1, <3>1, <3>2 DEF Lost
  <2>. QED  BY <1>3, <1>4, <2>1, <2>2, <2>3 DEF TableInv
<1>. QED  BY <1>5, <1>6

\* A step of main, of a handler or of its table keeps what was named.
LEMMA NamingKeeps == CommandLineInv /\ NamingInv /\ [LineNext]_lineVars => NamingInv'
<1>. SUFFICES ASSUME CommandLineInv, NamingInv, [LineNext]_lineVars  PROVE NamingInv'
  OBVIOUS
<1>0. CASE NoLine
  <2>1. at' = "idle"
    BY <1>0 DEF NoLine, LineNext, lineVars, ReadArgument, ReadSwitch, Switched, Dispatch, TryEntry, NoEntryLeft
  <2>. QED  BY <2>1, NothingRun DEF NamingInv, AheadInv, DispatchInv, TableInv, RunsWhatWasNamed
<1>1. CASE LineTypeOK /\ PlaceInv
  <2>1. CASE UNCHANGED lineVars
    <3>1. AheadInv'
      BY <2>1 DEF NamingInv, AheadInv, lineVars
    <3>2. DispatchInv'
      BY <2>1 DEF NamingInv, DispatchInv, Line, lineVars
    <3>3. TableInv'
      BY <2>1 DEF NamingInv, TableInv, Kept, Lost, Line, Table, lineVars
    <3>4. RunsWhatWasNamed'
      BY <2>1 DEF NamingInv, RunsWhatWasNamed, Before, Line, lineVars
    <3>. QED  BY <3>1, <3>2, <3>3, <3>4 DEF NamingInv
  <2>2. CASE ReadArgument
    <3>1. AheadInv' /\ at' = "arguments"
      BY <1>1, <2>2, ArgumentNamed DEF NamingInv, ReadArgument
    <3>. QED  BY <3>1 DEF NamingInv, DispatchInv, TableInv, RunsWhatWasNamed
  <2>3. CASE ReadSwitch
    <3>1. UNCHANGED <<argv, unseen, params, at>> /\ at' = "arguments"
      BY <2>3 DEF ReadSwitch
    <3>2. AheadInv'
      BY <3>1 DEF NamingInv, AheadInv
    <3>. QED  BY <3>1, <3>2 DEF NamingInv, DispatchInv, TableInv, RunsWhatWasNamed
  <2>4. CASE Switched
    <3>1. DispatchInv' /\ at' \in {"usage", "dispatch"}
      BY <1>1, <2>4, SwitchedNamed DEF NamingInv, Switched
    <3>. QED  BY <3>1 DEF NamingInv, AheadInv, TableInv, RunsWhatWasNamed
  <2>5. CASE Dispatch
    <3>1. TableInv' /\ RunsWhatWasNamed' /\ at' \in {"usage", "failed", "done", "table"}
      BY <1>1, <2>5, DispatchNamed DEF NamingInv, Dispatch, Run
    <3>. QED  BY <3>1 DEF NamingInv, AheadInv, DispatchInv
  <2>6. CASE TryEntry
    <3>. DEFINE e == Table[entry]
                matches == e.all \/ token = e.token
    <3>1. /\ handler \in {"time", "input"} /\ at = "table"
          /\ entry \in 1..Len(Table)
          /\ UNCHANGED <<argv, handler, token>>
      BY <1>1, <2>6, Tables DEF TryEntry, PlaceInv
    <3>2. TableInv
      BY DEF NamingInv
    <3>3. ASSUME RunsWhatWasNamed', at' = "done"  PROVE NamingInv'
      BY <3>3 DEF NamingInv, AheadInv, DispatchInv, TableInv
    <3>4. ASSUME matches, Accepts(e, Given(e)), e.proc = "Measure" /\ Measure(Given(e))  PROVE NamingInv'
      <4>1. e.all
        BY <3>1, <3>4, EntryKinds
      <4>2. Given(e) = params
        BY <4>1 DEF Given
      <4>3. Measure(params) /\ Accepts(e, params)
        BY <3>4, <4>2
      <4>4. CASE Head(params) \in DOMAIN Nested
        <5>1. params' = <<Nested[Head(params)]>> \o Tail(params) /\ at' = "dispatch"
          BY <4>3, <4>4 DEF Measure
        <5>2. DispatchInv'
          BY <1>1, <3>1, <3>2, <4>1, <4>3, <4>4, <5>1, NestedNamed
        <5>. QED  BY <5>1, <5>2 DEF NamingInv, AheadInv, TableInv, RunsWhatWasNamed
      <4>5. CASE Head(params) \notin DOMAIN Nested
        <5>1. Run("system", params)
          BY <4>3, <4>5 DEF Measure
        <5>. QED  BY <1>1, <3>1, <3>2, <3>3, <4>1, <4>3, <5>1, SystemNamed DEF Run
      <4>. QED  BY <4>4, <4>5
    <3>5. ASSUME matches, Accepts(e, Given(e)), e.proc # "Measure" /\ Run(e.proc, Given(e))  PROVE NamingInv'
      <4>1. ~e.all
        BY <3>1, <3>5, EntryKinds
      <4>2. Given(e) = Tail(params) /\ token = e.token
        BY <3>5, <4>1 DEF Given
      <4>3. Accepts(e, Tail(params)) /\ Run(e.proc, Tail(params))
        BY <3>5, <4>2
      <4>. QED  BY <1>1, <3>1, <3>2, <3>3, <4>1, <4>2, <4>3, OwnEntryNamed DEF Run
    <3>6. ASSUME ~(matches /\ Accepts(e, Given(e))), params' = Given(e), entry' = entry + 1, at' = at
          PROVE  NamingInv'
      <4>1. TableInv'
        BY <1>1, <3>1, <3>2, <3>6, PassedNamed
      <4>. QED  BY <3>1, <3>6, <4>1 DEF NamingInv, AheadInv, DispatchInv, RunsWhatWasNamed
    <3>7. \/ matches /\ Accepts(e, Given(e)) /\ e.proc = "Measure" /\ Measure(Given(e))
          \/ matches /\ Accepts(e, Given(e)) /\ e.proc # "Measure" /\ Run(e.proc, Given(e))
          \/ ~(matches /\ Accepts(e, Given(e))) /\ params' = Given(e) /\ entry' = entry + 1 /\ at' = at
      BY <2>6 DEF TryEntry, Given
    <3>. QED  BY <3>4, <3>5, <3>6, <3>7
  <2>7. CASE NoEntryLeft
    <3>1. at' = "usage"
      BY <2>7 DEF NoEntryLeft
    <3>. QED  BY <3>1 DEF NamingInv, AheadInv, DispatchInv, TableInv, RunsWhatWasNamed
  <2>. QED  BY <2>1, <2>2, <2>3, <2>4, <2>5, <2>6, <2>7 DEF LineNext
<1>. QED  BY <1>0, <1>1 DEF CommandLineInv

-----------------------------------------------------------------------------
(* FeatureBits.                                                            *)

\* The rows of a table that ParseTable reports: the first of each bit of w.
FirstRows(table, w) == {i \in DOMAIN table : table[i] \in w /\ \A j \in 1..(i - 1) : table[j] # table[i]}

\* A finite set of numbers that has an element has a least one.
LEMMA LeastOf ==
  ASSUME NEW S \in SUBSET Int, IsFiniteSet(S), NEW x \in S
  PROVE  \E y \in S : \A z \in S : y <= z
<1>1. Cardinality(S) \in Nat /\ Rank(S, x) \in 1..Cardinality(S)
  BY RanksRise
<1>2. 1 \in 1..Cardinality(S)
  BY <1>1
<1>3. PICK y \in S : Rank(S, y) = 1
  BY <1>2, RanksAre
<1>4. ASSUME NEW z \in S  PROVE y <= z
  <2>. SUFFICES ASSUME z < y  PROVE FALSE
    OBVIOUS
  <2>1. Rank(S, z) < Rank(S, y) /\ Rank(S, z) \in 1..Cardinality(S)
    BY RanksRise
  <2>. QED  BY <1>3, <2>1
<1>. QED  BY <1>3, <1>4

\* Those rows and the bits they name are as many.
LEMMA FirstRowsAre ==
  ASSUME NEW table \in Seq(Nat), NEW w
  PROVE  /\ FirstRows(table, w) \in SUBSET Int /\ IsFiniteSet(FirstRows(table, w))
         /\ Cardinality(FirstRows(table, w)) = Cardinality(w \cap ToSet(table))
         /\ \A b \in w \cap ToSet(table) : \E i \in FirstRows(table, w) : table[i] = b
         /\ IsFiniteSet(w \cap ToSet(table))
<1>1. PICK n \in Nat : n = Len(table) /\ DOMAIN table = 1..n
  OBVIOUS
<1>2. PICK rows : rows = FirstRows(table, w)
  OBVIOUS
<1>3. rows \in SUBSET (1..n)
  BY <1>1, <1>2 DEF FirstRows
<1>4. rows \in SUBSET Int /\ IsFiniteSet(rows)
  <2>1. IsFiniteSet(1..n)
    BY FS_Interval
  <2>2. IsFiniteSet(rows)
    BY <1>3, <2>1, FS_Subset
  <2>. QED  BY <1>3, <2>2
<1>5. PICK K : K = w \cap ToSet(table)
  OBVIOUS
<1>6. ASSUME NEW b \in K  PROVE \E i \in rows : table[i] = b
  <2>1. PICK S : S = {i \in 1..n : table[i] = b}
    OBVIOUS
  <2>2. S \in SUBSET Int /\ S \in SUBSET (1..n)
    BY <2>1
  <2>3. IsFiniteSet(S)
    <3>1. IsFiniteSet(1..n)
      BY FS_Interval
    <3>. QED  BY <2>2, <3>1, FS_Subset
  <2>4. PICK x \in S : TRUE
    BY <1>1, <1>5, <2>1 DEF ToSet
  <2>5. PICK i \in S : \A z \in S : i <= z
    BY <2>2, <2>3, LeastOf
  <2>6. ASSUME NEW j \in 1..(i - 1)  PROVE table[j] # table[i]
    <3>1. i \in 1..n /\ table[i] = b
      BY <2>1
    <3>2. j \in 1..n /\ j < i
      BY <3>1
    <3>3. j \notin S
      BY <2>2, <2>5, <3>1, <3>2
    <3>. QED  BY <2>1, <3>1, <3>2, <3>3
  <2>7. i \in DOMAIN table /\ table[i] = b /\ b \in w
    BY <1>1, <1>5, <2>1
  <2>. QED  BY <1>2, <2>6, <2>7 DEF FirstRows
<1>7. PICK f : f = [i \in rows |-> table[i]]
  OBVIOUS
<1>8. f \in Bijection(rows, K)
  <2>1. \A i \in rows : table[i] \in K
    BY <1>1, <1>2, <1>5 DEF FirstRows, ToSet
  <2>2. f \in [rows -> K]
    BY <1>7, <2>1
  <2>3. ASSUME NEW i \in rows, NEW j \in rows, f[i] = f[j]  PROVE i = j
    <3>1. table[i] = table[j]
      BY <1>7, <2>3
    <3>2. i \in 1..n /\ j \in 1..n
      BY <1>3
    <3>3. ~(i < j) /\ ~(j < i)
      BY <1>2, <3>1, <3>2 DEF FirstRows
    <3>. QED  BY <3>2, <3>3
  <2>4. \A b \in K : \E i \in rows : f[i] = b
    BY <1>6, <1>7
  <2>5. f \in Injection(rows, K)
    BY <2>2, <2>3 DEF Injection, IsInjective
  <2>6. f \in Surjection(rows, K)
    BY <2>2, <2>4 DEF Surjection
  <2>. QED  BY <2>5, <2>6 DEF Bijection
<1>9. IsFiniteSet(K) /\ Cardinality(K) = Cardinality(rows)
  <2>1. ExistsBijection(rows, K)
    BY <1>8 DEF ExistsBijection
  <2>. QED  BY <1>4, <2>1, FS_Bijection
<1>10. /\ rows \in SUBSET Int /\ IsFiniteSet(rows) /\ Cardinality(rows) = Cardinality(K)
       /\ \A b \in K : \E i \in rows : table[i] = b
       /\ IsFiniteSet(K)
  BY <1>4, <1>6, <1>9
<1>. QED  BY <1>2, <1>5, <1>10, Zenon

\* Output that has a line for each of these bits, in this section.
NamesOf(r, sec, K) == /\ r \in Seq({sec} \X Nat) /\ Len(r) = Cardinality(K)
                      /\ ToSet(r) = {<<sec, b>> : b \in K} /\ IsFiniteSet(K)

\* A table is a line for each bit of the word that it has.
LEMMA ReportIs ==
  ASSUME NEW sec, NEW table \in Seq(Nat), NEW w, NEW r, r = Report(sec, table, FirstRows(table, w)),
         NEW K, K = w \cap ToSet(table)
  PROVE  NamesOf(r, sec, K)
<1>2. PICK rows : rows = FirstRows(table, w)
  OBVIOUS
<1>3. PICK m \in Nat : m = Cardinality(rows)
  BY <1>2, FirstRowsAre, FS_CardinalityType
<1>4. /\ rows \in SUBSET Int /\ IsFiniteSet(rows) /\ m = Cardinality(K) /\ IsFiniteSet(K)
      /\ \A b \in K : \E i \in rows : table[i] = b
  BY <1>2, <1>3, FirstRowsAre
<1>5. PICK known : known = Ascending(rows)
  OBVIOUS
<1>6. known \in [1..m -> rows] /\ \A x \in rows : Rank(rows, x) \in 1..m /\ known[Rank(rows, x)] = x
  BY <1>3, <1>4, <1>5, AscendingIs, RanksRise
<1>8. r = [k \in 1..m |-> <<sec, table[known[k]]>>]
  BY <1>2, <1>5, <1>6 DEF Report
<1>9. \A i \in rows : table[i] \in Nat /\ table[i] \in K
  BY <1>2 DEF FirstRows, ToSet
<1>10. r \in Seq({sec} \X Nat) /\ Len(r) = m /\ DOMAIN r = 1..m
  BY <1>6, <1>8, <1>9
<1>11. ASSUME NEW e \in ToSet(r)  PROVE e \in {<<sec, b>> : b \in K}
  BY <1>6, <1>8, <1>9, <1>10 DEF ToSet
<1>12. ASSUME NEW b \in K  PROVE <<sec, b>> \in ToSet(r)
  <2>1. PICK i \in rows : table[i] = b
    BY <1>4
  <2>2. PICK k \in 1..m : known[k] = i
    BY <1>6
  <2>. QED  BY <1>8, <1>10, <2>1, <2>2 DEF ToSet
<1>13. ToSet(r) = {<<sec, b>> : b \in K}
  BY <1>11, <1>12
<1>. QED  BY <1>4, <1>10, <1>13 DEF NamesOf

LEMMA SmallIsFinite == ASSUME NEW w \in SUBSET (0..62)  PROVE IsFiniteSet(w)
<1>1. ASSUME NEW n \in Nat  PROVE IsFiniteSet(0..n)
  BY FS_Interval
<1>2. 62 \in Nat
  OBVIOUS
<1>3. IsFiniteSet(0..62)
  BY <1>1, <1>2, Zenon
<1>. QED  BY <1>3, FS_Subset

\* Likewise for the bits no table has, which come in their order.
LEMMA RestIs ==
  ASSUME NEW sec, NEW w \in SUBSET (0..62), NEW r,
         r = LET rest == Ascending(w) IN [k \in DOMAIN rest |-> <<sec, rest[k]>>]
  PROVE  NamesOf(r, sec, w)
<1>1. w \in SUBSET Nat /\ w \in SUBSET Int
  OBVIOUS
<1>2. IsFiniteSet(w)
  BY SmallIsFinite
<1>3. PICK m \in Nat : m = Cardinality(w)
  BY <1>2, FS_CardinalityType
<1>4. PICK rest : rest = Ascending(w)
  OBVIOUS
<1>5. rest \in [1..m -> w] /\ \A x \in w : Rank(w, x) \in 1..m /\ rest[Rank(w, x)] = x
  BY <1>1, <1>2, <1>3, <1>4, AscendingIs, RanksRise
<1>6. r = [k \in 1..m |-> <<sec, rest[k]>>]
  BY <1>4, <1>5
<1>7. r \in Seq({sec} \X Nat) /\ Len(r) = m /\ DOMAIN r = 1..m
  <2>1. \A k \in 1..m : rest[k] \in Nat
    BY <1>1, <1>5
  <2>. QED  BY <1>6, <2>1
<1>8. ASSUME NEW e \in ToSet(r)  PROVE e \in {<<sec, b>> : b \in w}
  BY <1>5, <1>6, <1>7 DEF ToSet
<1>9. ASSUME NEW b \in w  PROVE <<sec, b>> \in ToSet(r)
  <2>1. PICK k \in 1..m : rest[k] = b
    BY <1>5
  <2>. QED  BY <1>6, <1>7, <2>1 DEF ToSet
<1>. QED  BY <1>2, <1>3, <1>7, <1>8, <1>9 DEF NamesOf

\* The bits of the word that virtio took.
TakenBits == Taken(query.texts[1])

SpecificBits == IF query.class \in DOMAIN ClassTable THEN ToSet(ClassTable[query.class]) ELSE {}

\* The section of virtio's output that has a bit.
Section(b) == IF b \in ToSet(CommonFeatures) THEN "common"
              ELSE IF b \in SpecificBits THEN "specific" ELSE "unknown"

Sections == {"common", "specific", "unknown"}

\* These bits have been named, each once.
NamedAre(B) == /\ named \in Seq(Sections \X Nat) /\ IsFiniteSet(B) /\ Len(named) = Cardinality(B)
               /\ ToSet(named) = {<<Section(b), b>> : b \in B}

BitsInv ==
  /\ bitsAt = "begin" => query \in Queries /\ named = << >>
  /\ bitsAt \in {"common", "specific", "unknown"} => TakenBits \in SUBSET (0..62)
  /\ bitsAt = "common" => words = <<TakenBits>> /\ named = << >>
  /\ bitsAt = "specific" => /\ words = <<TakenBits \ ToSet(CommonFeatures)>>
                            /\ NamedAre(TakenBits \cap ToSet(CommonFeatures))
                            /\ query.class \in DOMAIN ClassTable
  /\ bitsAt = "unknown" =>
       /\ words = <<(TakenBits \ ToSet(CommonFeatures)) \ SpecificBits>>
       /\ NamedAre((TakenBits \cap ToSet(CommonFeatures)) \cup (TakenBits \cap SpecificBits))
  /\ bitsAt = "done" /\ query.command = "virtio" => NamedAre(TakenBits)

\* A report of other bits is added to the names there are.
LEMMA NamesAdd ==
  ASSUME NEW sec \in Sections, NEW B, NEW K, NEW r, NamesOf(r, sec, K), NamedAre(B), B \cap K = {},
         \A b \in K : Section(b) = sec,
         named' = named \o r, query' = query
  PROVE  NamedAre(B \cup K)'
<1>1. \A b : Section(b)' = Section(b)
  BY DEF Section, SpecificBits
<1>10. /\ r \in Seq({sec} \X Nat) /\ Len(r) = Cardinality(K)
       /\ ToSet(r) = {<<sec, b>> : b \in K} /\ IsFiniteSet(K)
  BY DEF NamesOf
<1>9. PICK S : S = Sections \X Nat
  OBVIOUS
<1>2. named \in Seq(S) /\ r \in Seq(S)
  BY <1>9, <1>10 DEF NamedAre
<1>3. PICK old, new : old = named /\ new = named'
  OBVIOUS
<1>4. new \in Seq(S) /\ ToSet(new) = ToSet(old) \cup ToSet(r) /\ Len(new) = Len(old) + Len(r)
  <2>1. old \in Seq(S) /\ new = old \o r
    BY <1>2, <1>3
  <2>2. new \in Seq(S) /\ ToSet(new) = ToSet(old) \cup ToSet(r)
    BY <1>2, <2>1, InConcat
  <2>3. Len(new) = Len(old) + Len(r)
    BY <1>2, <2>1, ConcatProperties
  <2>. QED  BY <2>2, <2>3
<1>5. Len(new) = Cardinality(B \cup K) /\ IsFiniteSet(B \cup K)
  <2>1. IsFiniteSet(B) /\ Len(old) = Cardinality(B)
    BY <1>3 DEF NamedAre
  <2>2. /\ IsFiniteSet(B \cup K)
        /\ Cardinality(B \cup K) = Cardinality(B) + Cardinality(K) - Cardinality(B \cap K)
    BY <1>10, <2>1, FS_Union
  <2>3. Cardinality(B \cap K) = 0
    BY FS_EmptySet
  <2>4. PICK n \in Nat, m \in Nat : n = Cardinality(B) /\ m = Cardinality(K)
    BY <1>10, <2>1, FS_CardinalityType
  <2>. QED  BY <1>4, <1>10, <2>1, <2>2, <2>3, <2>4
<1>6. ToSet(old) = {<<Section(b), b>> : b \in B}
  BY <1>3 DEF NamedAre
<1>7. ToSet(r) = {<<Section(b), b>> : b \in K}
  BY <1>10
<1>8. ToSet(new) = {<<Section(b), b>> : b \in B \cup K}
  BY <1>4, <1>6, <1>7
<1>. QED  BY <1>1, <1>3, <1>4, <1>5, <1>8, <1>9 DEF NamedAre

\* What is taken of a number fits into 63 bits.
LEMMA TakenFits == ASSUME query \in Queries  PROVE TakenBits \in SUBSET (0..62)
<1>1. query.texts[1] \in Texts
  BY DEF Queries
<1>2. PICK t \in Texts : t = query.texts[1]
  BY <1>1
<1>3. t.bits \subseteq Nat
  <2>1. t.bits \in {{a, b} : a, b \in 0..MaxBit} \/ t.bits = {}
    <3>1. t.bits \in BitSets
      BY DEF Texts
    <3>. QED  BY <3>1 DEF BitSets
  <2>2. CASE t.bits = {}
    BY <2>2
  <2>3. CASE t.bits \in {{a, b} : a, b \in 0..MaxBit}
    <3>1. PICK a, b : a \in 0..MaxBit /\ b \in 0..MaxBit /\ t.bits = {a, b}
      BY <2>3
    <3>. QED  BY <3>1
  <2>. QED  BY <2>1, <2>2, <2>3
<1>4. Taken(t) \in SUBSET (0..62)
  <2>1. CASE \A b \in t.bits : b < 63
    BY <1>3, <2>1 DEF Taken
  <2>2. CASE ~ \A b \in t.bits : b < 63
    BY <2>2 DEF Taken
  <2>. QED  BY <2>1, <2>2
<1>. QED  BY <1>2, <1>4 DEF TakenBits

\* The tables are tables of bits.
LEMMA TablesAre ==
  /\ CommonFeatures \in Seq(Nat) /\ DOMAIN ClassTable = {"network", "balloon"}
  /\ \A class \in {"network", "balloon"} : ClassTable[class] \in Seq(Nat)
<1>1. CommonFeatures \in Seq(Nat)
  BY DEF CommonFeatures
<1>2. NetFeatures \in Seq(Nat)
  BY DEF NetFeatures
<1>3. BaloonFeatures \in Seq(Nat)
  BY DEF BaloonFeatures
<1>. QED  BY <1>1, <1>2, <1>3 DEF ClassTable

LEMMA BitsBegin == BitsInit \/ NoBits => BitsInv
BY DEF BitsInit, NoBits, BitsInv

\* So at the end every bit has been named.
LEMMA BitsPromise == BitsInv => NamedOnce
<1>. SUFFICES ASSUME BitsInv, bitsAt = "done", query.command = "virtio"  PROVE NamedOnce
  BY DEF NamedOnce
<1>1. NamedAre(TakenBits)
  BY DEF BitsInv
<1>. QED  BY <1>1 DEF NamedAre, NamedOnce, TakenBits, Section, SpecificBits

\* A table that is parsed adds the bits it has and clears them.
LEMMA TableNamed ==
  ASSUME NEW sec \in Sections, NEW table \in Seq(Nat), NEW B, NEW w, words = <<w>>, NamedAre(B), B \cap w = {},
         \A b \in w \cap ToSet(table) : Section(b) = sec,
         ParseTable(table, sec), query' = query
  PROVE  words' = <<w \ ToSet(table)>> /\ NamedAre(B \cup (w \cap ToSet(table)))'
<1>1. words[1] = w
  OBVIOUS
<1>2. words' = <<w \ ToSet(table)>>
  BY <1>1 DEF ParseTable
<1>3. PICK r : r = Report(sec, table, FirstRows(table, w))
  OBVIOUS
<1>4. named' = named \o r
  BY <1>1, <1>3, Zenon DEF ParseTable, FirstRows
<1>5. PICK K : K = w \cap ToSet(table)
  OBVIOUS
<1>6. NamesOf(r, sec, K)
  BY <1>3, <1>5, ReportIs
<1>7. NamedAre(B \cup K)'
  BY <1>4, <1>5, <1>6, NamesAdd
<1>. QED  BY <1>2, <1>5, <1>7

\* The bits no table has are named in their order.
LEMMA RestNamed ==
  ASSUME NEW B, NEW w \in SUBSET (0..62), words = <<w>>, NamedAre(B), B \cap w = {},
         \A b \in w : Section(b) = "unknown", NameUnknown
  PROVE  NamedAre(B \cup w)'
<1>1. words[1] \cap 0..63 = w
  <2>1. \A b \in w : b \in 0..63
    OBVIOUS
  <2>. QED  BY <2>1
<1>2. PICK r : r = LET rest == Ascending(w) IN [k \in DOMAIN rest |-> <<"unknown", rest[k]>>]
  OBVIOUS
<1>3. named' = named \o r /\ query' = query
  BY <1>1, <1>2, Zenon DEF NameUnknown
<1>4. NamesOf(r, "unknown", w)
  BY <1>2, RestIs, Zenon
<1>5. "unknown" \in Sections
  BY DEF Sections
<1>. QED  BY <1>3, <1>4, <1>5, NamesAdd

\* A step of virtio names the bits of one table, a step of bits names none.
LEMMA BitsKeep == BitsInv /\ [BitsNext]_bitsVars => BitsInv'
<1>. SUFFICES ASSUME BitsInv, [BitsNext]_bitsVars  PROVE BitsInv'
  OBVIOUS
<1>1. CASE UNCHANGED bitsVars
  BY <1>1 DEF bitsVars, BitsInv, NamedAre, Section, SpecificBits, TakenBits
<1>2. CASE TakeFeatures
  <2>1. /\ query \in Queries /\ named' = << >> /\ query' = query
        /\ words' = <<TakenBits>> /\ bitsAt' = "common" /\ TakenBits' = TakenBits
    BY <1>2 DEF TakeFeatures, BitsInv, TakenBits
  <2>. QED  BY <2>1, TakenFits DEF BitsInv
<1>3. CASE NameCommon
  <2>. DEFINE C == ToSet(CommonFeatures)
  <2>1. /\ words = <<TakenBits>> /\ named = << >> /\ TakenBits \in SUBSET (0..62)
        /\ ParseTable(CommonFeatures, "common") /\ query' = query /\ TakenBits' = TakenBits
        /\ SpecificBits' = SpecificBits
        /\ bitsAt' = IF query.class \in DOMAIN ClassTable THEN "specific" ELSE "unknown"
    BY <1>3 DEF NameCommon, BitsInv, TakenBits, SpecificBits
  <2>2. NamedAre({})
    <3>1. IsFiniteSet({}) /\ Cardinality({}) = 0
      BY FS_EmptySet
    <3>2. ToSet(<< >>) = {}
      BY DEF ToSet
    <3>. QED  BY <2>1, <3>1, <3>2 DEF NamedAre
  <2>3. \A b \in TakenBits \cap C : Section(b) = "common"
    BY DEF Section
  <2>4. PICK w, table : w = TakenBits /\ table = CommonFeatures
    OBVIOUS
  <2>5. words' = <<w \ ToSet(table)>> /\ NamedAre({} \cup (w \cap ToSet(table)))'
    <3>1. {} \cap w = {} /\ words = <<w>> /\ ParseTable(table, "common") /\ "common" \in Sections
      BY <2>1, <2>4 DEF Sections
    <3>2. table \in Seq(Nat) /\ \A b \in w \cap ToSet(table) : Section(b) = "common"
      BY <2>3, <2>4, TablesAre
    <3>. QED  BY <2>1, <2>2, <3>1, <3>2, TableNamed, Zenon
  <2>6. {} \cup (w \cap ToSet(table)) = w \cap ToSet(table)
    OBVIOUS
  <2>9. words' = <<TakenBits \ C>> /\ NamedAre(TakenBits \cap C)'
    BY <2>1, <2>4, <2>5, <2>6
  <2>7. CASE query.class \in DOMAIN ClassTable
    BY <2>1, <2>7, <2>9 DEF BitsInv
  <2>8. CASE query.class \notin DOMAIN ClassTable
    <3>1. SpecificBits = {}
      BY <2>8 DEF SpecificBits
    <3>2. (TakenBits \ C) \ SpecificBits = TakenBits \ C /\ (TakenBits \cap C) \cup (TakenBits \cap SpecificBits) = TakenBits \cap C
      BY <3>1
    <3>. QED  BY <2>1, <2>8, <2>9, <3>2 DEF BitsInv
  <2>. QED  BY <2>7, <2>8
<1>4. CASE NameSpecific
  <2>. DEFINE C == ToSet(CommonFeatures)
  <2>1. /\ words = <<TakenBits \ C>> /\ NamedAre(TakenBits \cap C) /\ TakenBits \in SUBSET (0..62)
        /\ query.class \in DOMAIN ClassTable
        /\ ParseTable(ClassTable[query.class], "specific") /\ query' = query /\ TakenBits' = TakenBits
        /\ SpecificBits' = SpecificBits /\ bitsAt' = "unknown"
    BY <1>4 DEF NameSpecific, BitsInv, TakenBits, SpecificBits
  <2>2. PICK table \in Seq(Nat) : table = ClassTable[query.class]
    BY <2>1, TablesAre
  <2>3. SpecificBits = ToSet(table)
    BY <2>1, <2>2 DEF SpecificBits
  <2>4. \A b \in (TakenBits \ C) \cap ToSet(table) : Section(b) = "specific"
    BY <2>3 DEF Section
  <2>7. PICK w, B : w = TakenBits \ C /\ B = TakenBits \cap C
    OBVIOUS
  <2>8. words' = <<w \ ToSet(table)>> /\ NamedAre(B \cup (w \cap ToSet(table)))'
    <3>1. B \cap w = {} /\ words = <<w>> /\ NamedAre(B) /\ ParseTable(table, "specific") /\ "specific" \in Sections
      BY <2>1, <2>2, <2>7 DEF Sections
    <3>2. \A b \in w \cap ToSet(table) : Section(b) = "specific"
      BY <2>4, <2>7
    <3>. QED  BY <2>1, <3>1, <3>2, TableNamed, Zenon
  <2>5. /\ words' = <<(TakenBits \ C) \ ToSet(table)>>
        /\ NamedAre((TakenBits \cap C) \cup ((TakenBits \ C) \cap ToSet(table)))'
    BY <2>1, <2>7, <2>8
  <2>6. (TakenBits \cap C) \cup ((TakenBits \ C) \cap ToSet(table)) = (TakenBits \cap C) \cup (TakenBits \cap SpecificBits)
    BY <2>3
  <2>. QED  BY <2>1, <2>3, <2>5, <2>6 DEF BitsInv
<1>5. CASE NameUnknown
  <2>. DEFINE C == ToSet(CommonFeatures)
              B == (TakenBits \cap C) \cup (TakenBits \cap SpecificBits)
              w == (TakenBits \ C) \ SpecificBits
  <2>1. /\ words = <<w>> /\ NamedAre(B) /\ TakenBits \in SUBSET (0..62) /\ TakenBits' = TakenBits
        /\ bitsAt' = "done"
    BY <1>5 DEF NameUnknown, BitsInv, TakenBits
  <2>2. w \in SUBSET (0..62) /\ B \cap w = {} /\ \A b \in w : Section(b) = "unknown"
    BY <2>1 DEF Section
  <2>5. PICK old, rest : old = B /\ rest = w
    OBVIOUS
  <2>6. NamedAre(old \cup rest)'
    BY <1>5, <2>1, <2>2, <2>5, RestNamed
  <2>3. NamedAre(B \cup w)'
    BY <2>1, <2>5, <2>6
  <2>4. B \cup w = TakenBits
    OBVIOUS
  <2>. QED  BY <2>1, <2>3, <2>4 DEF BitsInv
<1>6. CASE MissingWord \/ OtherDevice
  <2>1. bitsAt' \in {"crashed", "failed"}
    BY <1>6 DEF MissingWord, OtherDevice
  <2>. QED  BY <2>1 DEF BitsInv
<1>7. CASE Convert
  <2>1. bitsAt' \in {"failed", "begin"} /\ query' = query /\ named' = named /\ bitsAt = "begin"
    BY <1>7 DEF Convert
  <2>. QED  BY <2>1 DEF BitsInv
<1>8. CASE ParseIommu
  <2>1. bitsAt' = "done" /\ query' = query /\ query.command = "bits"
    BY <1>8 DEF ParseIommu
  <2>. QED  BY <2>1 DEF BitsInv
<1>. QED  BY <1>1, <1>2, <1>3, <1>4, <1>5, <1>6, <1>7, <1>8 DEF BitsNext

\* Where the fields begin is the one function that has the sums.
Sums(f, fields) == f = [k \in DOMAIN fields |-> IF k = 1 THEN 0 ELSE f[k - 1] + fields[k - 1]]

LEMMA StartsAre ==
  ASSUME NEW fields \in Seq(Nat), NEW f, Sums(f, fields)
  PROVE  Starts(fields) = f
<1>1. PICK g : g = Starts(fields)
  OBVIOUS
<1>2. g = CHOOSE h : Sums(h, fields)
  BY <1>1 DEF Starts, Sums
<1>3. Sums(g, fields)
  BY <1>2
<1>4. PICK n \in Nat : n = Len(fields) /\ DOMAIN fields = 1..n
  OBVIOUS
<1>5. \A k \in 1..n : /\ f[k] = IF k = 1 THEN 0 ELSE f[k - 1] + fields[k - 1]
                      /\ g[k] = IF k = 1 THEN 0 ELSE g[k - 1] + fields[k - 1]
  BY <1>3, <1>4 DEF Sums
<1>6. PICK D : D = {k \in 1..n : f[k] # g[k]}
  OBVIOUS
<1>7. D = {}
  <2>. SUFFICES ASSUME NEW x \in D  PROVE FALSE
    OBVIOUS
  <2>1. D \in SUBSET (1..n) /\ D \in SUBSET Int
    BY <1>6
  <2>2. IsFiniteSet(1..n)
    BY FS_Interval
  <2>3. IsFiniteSet(D)
    BY <2>1, <2>2, FS_Subset
  <2>4. PICK k \in D : \A z \in D : k <= z
    BY <2>1, <2>3, LeastOf
  <2>5. k \in 1..n /\ f[k] # g[k]
    BY <1>6
  <2>6. k # 1
    BY <1>5, <2>5
  <2>7. k - 1 \in 1..n /\ ~(k <= k - 1)
    BY <2>5, <2>6
  <2>8. k - 1 \notin D
    BY <2>4, <2>7
  <2>9. f[k - 1] = g[k - 1]
    BY <1>6, <2>7, <2>8
  <2>. QED  BY <1>5, <2>5, <2>6, <2>9
<1>8. \A k \in 1..n : f[k] = g[k]
  BY <1>6, <1>7
<1>9. f = [k \in 1..n |-> f[k]] /\ g = [k \in 1..n |-> g[k]]
  BY <1>3, <1>4 DEF Sums
<1>. QED  BY <1>1, <1>8, <1>9

\* The comments beside the fields have the sums of their widths.
LEMMA CapsSums == CapsFields \in Seq(Nat) /\ Len(CapsFields) = 26 /\ CapsComments \in [1..26 -> Nat]
                  /\ Sums(CapsComments, CapsFields) /\ CapsComments[26] + CapsFields[26] = 64
<1>1. CapsFields \in Seq(Nat) /\ Len(CapsFields) = 26 /\ DOMAIN CapsFields = 1..26
  BY DEF CapsFields
<1>2. CapsComments \in Seq(Nat) /\ Len(CapsComments) = 26 /\ DOMAIN CapsComments = 1..26
  BY DEF CapsComments
<1>3. CapsComments[26] + CapsFields[26] = 64
  BY DEF CapsComments, CapsFields
<1>4. \A k \in 1..26 : CapsComments[k] = IF k = 1 THEN 0 ELSE CapsComments[k - 1] + CapsFields[k - 1]
  BY DEF CapsComments, CapsFields
<1>5. CapsComments = [k \in 1..26 |-> CapsComments[k]]
  BY <1>2
<1>6. \A k \in 1..26 : CapsComments[k] \in Nat
  BY DEF CapsComments
<1>7. CapsComments \in [1..26 -> Nat]
  BY <1>5, <1>6
<1>. QED  BY <1>1, <1>3, <1>4, <1>5, <1>7 DEF Sums

LEMMA EcapsSums == EcapsFields \in Seq(Nat) /\ Len(EcapsFields) = 40 /\ EcapsComments \in [1..40 -> Nat]
                   /\ Sums(EcapsComments, EcapsFields) /\ EcapsComments[40] + EcapsFields[40] = 64
<1>1. EcapsFields \in Seq(Nat) /\ Len(EcapsFields) = 40 /\ DOMAIN EcapsFields = 1..40
  BY DEF EcapsFields
<1>2. EcapsComments \in Seq(Nat) /\ Len(EcapsComments) = 40 /\ DOMAIN EcapsComments = 1..40
  BY DEF EcapsComments
<1>3. EcapsComments[40] + EcapsFields[40] = 64
  BY DEF EcapsComments, EcapsFields
<1>4. \A k \in 1..40 : EcapsComments[k] = IF k = 1 THEN 0 ELSE EcapsComments[k - 1] + EcapsFields[k - 1]
  BY DEF EcapsComments, EcapsFields
<1>5. EcapsComments = [k \in 1..40 |-> EcapsComments[k]]
  BY <1>2
<1>6. \A k \in 1..40 : EcapsComments[k] \in Nat
  BY DEF EcapsComments
<1>7. EcapsComments \in [1..40 -> Nat]
  BY <1>5, <1>6
<1>. QED  BY <1>1, <1>3, <1>4, <1>5, <1>7 DEF Sums

\* The fields d of a word begin at these bits, the last one ends at bit 63.
FieldsShown(d, first, n, word) ==
  \A k \in DOMAIN d : d[k] = {b - first[k] : b \in word \cap first[k]..(IF k = n THEN 63 ELSE first[k + 1] - 1)}

\* So the fields that are shown are those of the comments.
LEMMA DumpIs ==
  ASSUME NEW fields \in Seq(Nat), NEW n \in Nat, n = Len(fields), NEW first \in [1..n -> Nat], Sums(first, fields),
         first[n] + fields[n] = 64, NEW hidden, NEW word
  PROVE  FieldsShown(Dump(fields, hidden, word), first, n, word)
<1>. SUFFICES ASSUME NEW k \in DOMAIN Dump(fields, hidden, word)
              PROVE  Dump(fields, hidden, word)[k] =
                       {b - first[k] : b \in word \cap first[k]..(IF k = n THEN 63 ELSE first[k + 1] - 1)}
  BY DEF FieldsShown
<1>1. PICK start : start = Starts(fields)
  OBVIOUS
<1>2. start = first
  BY <1>1, StartsAre
<1>3. Dump(fields, hidden, word) = [i \in DOMAIN fields \ hidden |-> {b \in 0..(fields[i] - 1) : first[i] + b \in word}]
  BY <1>1, <1>2 DEF Dump
<1>4. k \in 1..n /\ DOMAIN fields = 1..n
  BY <1>3
<1>5. \A i \in 1..n : first[i] = IF i = 1 THEN 0 ELSE first[i - 1] + fields[i - 1]
  BY <1>4 DEF Sums
<1>6. PICK m : m = IF k = n THEN 63 ELSE first[k + 1] - 1
  OBVIOUS
<1>7. PICK f : f = first[k]
  OBVIOUS
<1>8. PICK w \in Nat : w = fields[k]
  BY <1>4
<1>9. f \in Int /\ m = f + w - 1
  <2>1. CASE k = n
    BY <1>6, <1>7, <1>8, <2>1
  <2>2. CASE k # n
    <3>1. first[k + 1] = first[k] + fields[k]
      BY <1>4, <1>5, <2>2
    <3>2. f \in Int
      BY <1>4, <1>7
    <3>. QED  BY <1>6, <1>7, <1>8, <2>2, <3>1, <3>2
  <2>. QED  BY <2>1, <2>2
<1>10. {b \in 0..(w - 1) : f + b \in word} = {b - f : b \in word \cap f..m}
  <2>1. ASSUME NEW b \in 0..(w - 1), f + b \in word  PROVE b \in {c - f : c \in word \cap f..m}
    <3>1. f + b \in f..m /\ (f + b) - f = b
      BY <1>9
    <3>. QED  BY <2>1, <3>1
  <2>2. ASSUME NEW c \in word \cap f..m  PROVE c - f \in 0..(w - 1) /\ f + (c - f) \in word
    <3>1. c \in f..m /\ c \in word
      OBVIOUS
    <3>2. f + (c - f) = c
      BY <1>9, <3>1
    <3>. QED  BY <1>9, <3>1, <3>2
  <2>. QED  BY <2>1, <2>2
<1>11. Dump(fields, hidden, word)[k] = {b \in 0..(w - 1) : f + b \in word}
  BY <1>3, <1>7, <1>8
<1>. QED  BY <1>6, <1>7, <1>10, <1>11

LEMMA DumpsAre ==
  ASSUME NEW word
  PROVE  /\ FieldsShown(Dump(CapsFields, CapsHidden, word), CapsComments, 26, word)
         /\ FieldsShown(Dump(EcapsFields, EcapsHidden, word), EcapsComments, 40, word)
<1>1. ASSUME NEW n \in Nat, n = 26  PROVE FieldsShown(Dump(CapsFields, CapsHidden, word), CapsComments, n, word)
  <2>1. /\ CapsFields \in Seq(Nat) /\ CapsComments \in [1..n -> Nat] /\ Sums(CapsComments, CapsFields)
        /\ CapsComments[n] + CapsFields[n] = 64 /\ n = Len(CapsFields)
    BY <1>1, CapsSums
  <2>. QED  BY <2>1, DumpIs
<1>2. ASSUME NEW n \in Nat, n = 40  PROVE FieldsShown(Dump(EcapsFields, EcapsHidden, word), EcapsComments, n, word)
  <2>1. /\ EcapsFields \in Seq(Nat) /\ EcapsComments \in [1..n -> Nat] /\ Sums(EcapsComments, EcapsFields)
        /\ EcapsComments[n] + EcapsFields[n] = 64 /\ n = Len(EcapsFields)
    BY <1>2, EcapsSums
  <2>. QED  BY <2>1, DumpIs
<1>. QED  BY <1>1, <1>2

\* What is shown is the dump of the words, unless bits are named.
ShownInv ==
  /\ bitsAt \in {"common", "specific", "unknown"} => query.command = "virtio"
  /\ bitsAt = "done" /\ query.command = "bits" =>
       shown = <<Dump(CapsFields, CapsHidden, words[1]), Dump(EcapsFields, EcapsHidden, words[2])>>

LEMMA ShownKeeps == ShownInv /\ [BitsNext]_bitsVars => ShownInv'
<1>. SUFFICES ASSUME ShownInv, [BitsNext]_bitsVars  PROVE ShownInv'
  OBVIOUS
<1>1. CASE UNCHANGED bitsVars
  BY <1>1 DEF bitsVars, ShownInv
<1>2. CASE TakeFeatures
  BY <1>2 DEF TakeFeatures, ShownInv
<1>3. CASE NameCommon
  BY <1>3 DEF NameCommon, ShownInv
<1>4. CASE NameSpecific
  BY <1>4 DEF NameSpecific, ShownInv
<1>5. CASE NameUnknown
  BY <1>5 DEF NameUnknown, ShownInv
<1>6. CASE MissingWord \/ OtherDevice
  BY <1>6 DEF MissingWord, OtherDevice, ShownInv
<1>7. CASE Convert
  <2>1. bitsAt' \in {"failed", "begin"}
    BY <1>7 DEF Convert
  <2>. QED  BY <2>1 DEF ShownInv
<1>8. CASE ParseIommu
  BY <1>8 DEF ParseIommu, ShownInv
<1>. QED  BY <1>1, <1>2, <1>3, <1>4, <1>5, <1>6, <1>7, <1>8 DEF BitsNext

LEMMA ShownPromise == ShownInv => ShownAsCommented
<1>. SUFFICES ASSUME ShownInv, bitsAt = "done", query.command = "bits",
                     NEW w \in 1..2,
                     NEW first, first = IF w = 1 THEN CapsComments ELSE EcapsComments,
                     NEW k \in DOMAIN shown[w]
              PROVE  shown[w][k] =
                       {b - first[k] : b \in words[w] \cap first[k]..(IF k = Len(first) THEN 63 ELSE first[k + 1] - 1)}
  BY DEF ShownAsCommented
<1>1. CASE w = 1
  <2>1. shown[w] = Dump(CapsFields, CapsHidden, words[1]) /\ first = CapsComments /\ Len(first) = 26
    BY <1>1 DEF ShownInv, CapsComments
  <2>2. PICK v : v = words[w]
    OBVIOUS
  <2>3. FieldsShown(shown[w], first, 26, v)
    BY <2>1, <2>2, <1>1, DumpsAre
  <2>. QED  BY <2>1, <2>2, <2>3 DEF FieldsShown
<1>2. CASE w = 2
  <2>1. shown[w] = Dump(EcapsFields, EcapsHidden, words[2]) /\ first = EcapsComments /\ Len(first) = 40
    BY <1>2 DEF ShownInv, EcapsComments
  <2>2. PICK v : v = words[w]
    OBVIOUS
  <2>3. FieldsShown(shown[w], first, 40, v)
    BY <2>1, <2>2, <1>2, DumpsAre
  <2>. QED  BY <2>1, <2>2, <2>3 DEF FieldsShown
<1>. QED  BY <1>1, <1>2

LEMMA ShownBegins == BitsInit \/ NoBits => ShownInv
BY DEF BitsInit, NoBits, ShownInv

-----------------------------------------------------------------------------
(* PerfMonitor.                                                            *)

\* The count stays below -count; without -loop it is that of the history.
PerfInv ==
  \/ NoPerf
  \/ /\ perf \in PerfConfigs
     /\ consecutive \in Nat /\ consecutive < perf.count /\ streak \in Nat
     /\ ~perf.loops /\ perfAt # "exit" => consecutive = streak

\* What a configuration is.
LEMMA PerfConfigIs ==
  ASSUME perf \in PerfConfigs
  PROVE  perf.loops \in BOOLEAN /\ perf.count \in Nat \ {0}
<1>1. perf.loops \in BOOLEAN /\ perf.count \in 1 .. MaxCount
  BY DEF PerfConfigs
<1>2. perf.count \in Nat \ {0}
  BY <1>1, PerfAssumption
<1>. QED  BY <1>1, <1>2

\* The command begins with nothing measured.
LEMMA PerfBegins == PerfInit => PerfInv
BY PerfConfigIs DEF PerfInit, PerfInv

\* A turn counts a measurement, or forgets those before it.
LEMMA PerfKeeps == PerfInv /\ [PerfNext]_perfVars => PerfInv'
<1>. SUFFICES ASSUME PerfInv, [PerfNext]_perfVars  PROVE PerfInv'
  OBVIOUS
<1>0. CASE NoPerf
  BY <1>0 DEF NoPerf, PerfInv, PerfNext, perfVars, AddCounter, FirstPoll, KeyHit, Turn, FailedPoll, PollCounter
<1>1. CASE ~NoPerf
  <2>. USE PerfConfigIs, <1>1 DEF PerfInv
  <2>1. CASE UNCHANGED perfVars
    BY <2>1 DEF perfVars
  <2>2. CASE AddCounter
    BY <2>2 DEF AddCounter
  <2>3. ASSUME NEW ok \in BOOLEAN, FirstPoll(ok)  PROVE PerfInv'
    BY <2>3 DEF FirstPoll
  <2>4. CASE KeyHit
    BY <2>4 DEF KeyHit
  <2>5. CASE FailedPoll
    BY <2>5 DEF FailedPoll, Count, Measured
  <2>6. ASSUME NEW v \in CounterValues, PollCounter(v)  PROVE PerfInv'
    BY <2>6 DEF PollCounter, Count, Measured
  <2>. QED  BY <2>1, <2>2, <2>3, <2>4, <2>5, <2>6 DEF PerfNext, Turn
<1>. QED  BY <1>0, <1>1

\* Without -loop the action runs exactly when it is due.
DueOnly == ~perf.loops /\ perfAt = "poll" => (did' = "act" <=> streak' = perf.count)

LEMMA PerfPromise == PerfInv /\ [PerfNext]_perfVars => [DueOnly]_perfVars
<1>. SUFFICES ASSUME PerfInv, PerfNext, ~perf.loops, perfAt = "poll"  PROVE did' = "act" <=> streak' = perf.count
  BY DEF DueOnly
<1>1. /\ perf \in PerfConfigs /\ consecutive = streak /\ streak \in Nat /\ streak < perf.count
      /\ perf.count \in Nat \ {0}
  BY PerfConfigIs DEF PerfInv, NoPerf
<1>2. CASE KeyHit
  BY <1>1, <1>2 DEF KeyHit
<1>3. CASE FailedPoll
  BY <1>1, <1>3 DEF FailedPoll, Measured
<1>4. ASSUME NEW v \in CounterValues, PollCounter(v)  PROVE did' = "act" <=> streak' = perf.count
  <2>1. CASE High(v)
    BY <1>1, <1>4, <2>1 DEF PollCounter, Count, Measured
  <2>2. CASE ~High(v)
    BY <1>1, <1>4, <2>2 DEF PollCounter, Count, Measured
  <2>. QED  BY <2>1, <2>2
<1>. QED  BY <1>2, <1>3, <1>4 DEF PerfNext, Turn, AddCounter, FirstPoll

-----------------------------------------------------------------------------
(* The composition.                                                        *)

\* Nothing that was mapped is kept by accident.
LEMMA MemoryPromise == MemoryInv => ViewsReturned
<1>. SUFFICES ASSUME MemoryInv PROVE ViewsReturned
  OBVIOUS
<1>0. CASE NoMemory
  BY <1>0 DEF NoMemory, ViewsReturned
<1>1. CASE MemoryTypeOK /\ ViewsInv /\ CountInv
  <2>1. job.op \in {"pte", "pte2", "pte3"}
    BY <1>1, JobIs DEF MemoryTypeOK
  <2>2. job.op # "pte2" => views <= 1
    BY <1>1, <2>1 DEF MemoryTypeOK, ViewsInv
  <2>3. memoryAt = "end" => section = FALSE /\ views = IF mapped = 0 THEN 0 ELSE mapped - 1
    BY <1>1 DEF ViewsInv
  <2>4. memoryAt = "end" /\ job.op = "pte" => done = Asked
    BY <1>1 DEF MemoryTypeOK, CountInv, Asked, UintMax, Jobs
  <2>5. memoryAt = "end" /\ job.op = "pte3" => done <= job.count
    BY <1>1 DEF CountInv
  <2>. QED  BY <2>2, <2>3, <2>4, <2>5 DEF ViewsReturned, Asked, UintMax
<1>. QED  BY <1>0, <1>1 DEF MemoryInv

IInv == MemoryInv /\ DevicesInv /\ ParserInv /\ BlocksInv /\ CommandLineInv /\ NamingInv
        /\ PatchInv /\ RunawayInv /\ BitsInv /\ ShownInv /\ PerfInv

\* One command begins, the others are not run.
LEMMA CommandsBegin == Init => IInv
<1>. SUFFICES ASSUME Init PROVE IInv
  OBVIOUS
<1>1. MemoryInit \/ NoMemory
  BY DEF Init, Either
<1>2. DevicesInit \/ NoPnp
  BY DEF Init, Either
<1>3. ParserInit \/ NoParser
  BY DEF Init, Either
<1>4. LineInit \/ NoLine
  BY DEF Init, Either
<1>5. PatchInit \/ NoPatch
  BY DEF Init, Either
<1>6. RunawayInit \/ NoRunaway
  BY DEF Init, Either
<1>7. BitsInit \/ NoBits
  BY DEF Init, Either
<1>8. PerfInit \/ NoPerf
  BY DEF Init, Either
<1>. QED  BY <1>1, <1>2, <1>3, <1>4, <1>5, <1>6, <1>7, <1>8, MemoryBegins, DevicesBegin, ParserBegins, BlocksBegin,
             LineBegins, NamingBegins, PatchBegins, RunawayBegins,
             BitsBegin, ShownBegins, PerfBegins
             DEF IInv, MemoryInv, DevicesInv, ParserInv, BlocksInv, CommandLineInv, PatchInv, PerfInv

\* Every step is one of the command that runs and leaves the others alone.
LEMMA OneCommandSteps ==
  [Next]_vars => /\ [MemoryNext]_memoryVars /\ [DevicesNext]_pnpVars
                 /\ [ParserNext]_parserVars /\ [LineNext]_lineVars
                 /\ [PatchNext]_patchVars /\ [RunawayNext]_runVars
                 /\ [BitsNext]_bitsVars /\ [PerfNext]_perfVars
BY DEF Next, vars, MemoryStep, DevicesStep, ParserStep, LineStep, PatchStep, RunawayStep, BitsStep,
       PerfStep

\* So each part of the invariant is kept by its own command.
LEMMA CommandsKeep == IInv /\ [Next]_vars => IInv'
BY OneCommandSteps, MemoryKeeps, DevicesKeep, ParserKeeps, BlocksKeep, LineKeeps, NamingKeeps, PatchKeeps,
   RunawayKeeps, BitsKeep, ShownKeeps, PerfKeeps DEF IInv

\* All of them hold at every moment of every command.
LEMMA CommandsInvariant == Spec => []IInv
BY CommandsBegin, CommandsKeep, PTL DEF Spec

\* The memory command keeps no view by accident (ViewsReturned), however many
\* iterations and chunks and whatever the system refuses.
THEOREM ViewsAlwaysReturned == Spec => []ViewsReturned
<1>1. IInv => ViewsReturned
  BY MemoryPromise DEF IInv
<1>. QED  BY <1>1, CommandsInvariant, PTL

\* The pnp command makes the system install only when, of what it enumerated
\* and queried, one device matches and one driver is named; the driver that is
\* installed is then the one named, or one that was not enumerated, queried or
\* marked (InstalledOnPurpose).  Only if nothing was missed is it the one that
\* was asked for of the whole machine.  The machine may be of any size.
THEOREM AlwaysInstalledOnPurpose == Spec => []InstalledOnPurpose
<1>1. IInv => InstalledOnPurpose
  BY DevicesPromise DEF IInv
<1>. QED  BY <1>1, CommandsInvariant, PTL

\* The parser prints, or has in its pending block, each line that matches
\* (NothingLost), in files of any length and with any number of filters.
THEOREM NeverLost == Spec => []NothingLost
<1>1. IInv => NothingLost
  BY ParserPromise DEF IInv
<1>. QED  BY <1>1, CommandsInvariant, PTL

\* Nothing is printed that was not asked for, out of order or too often
\* (PrintedOnPurpose), from files of any length.
THEOREM AlwaysPrintedOnPurpose == Spec => []PrintedOnPurpose
<1>1. IInv => PrintedOnPurpose
  BY BlocksPromise DEF IInv
<1>. QED  BY <1>1, CommandsInvariant, PTL

\* A wanted block that is over is in the output, whole, in one piece and once
\* (BlocksWhole), however long it is and whatever surrounds it.
THEOREM BlocksAlwaysWhole == Spec => []BlocksWhole
<1>1. IInv => BlocksWhole
  BY BlocksPromise DEF IInv
<1>. QED  BY <1>1, CommandsInvariant, PTL

\* A switch that is well formed works at every place of a line of any length,
\* nested commands included (SwitchesWorkAnywhere).
THEOREM SwitchesAlwaysWork == Spec => []SwitchesWorkAnywhere
<1>1. IInv => SwitchesWorkAnywhere
  BY LinePromise DEF IInv
<1>. QED  BY <1>1, CommandsInvariant, PTL

\* What is run is what the words before its parameters name
\* (RunsWhatWasNamed), on a line of any length, nested commands included.
THEOREM AlwaysRunsWhatWasNamed == Spec => []RunsWhatWasNamed
<1>1. IInv => RunsWhatWasNamed
  BY DEF IInv, NamingInv
<1>. QED  BY <1>1, CommandsInvariant, PTL

\* The patch command changes a file of any size at the place only that is
\* expected of those that Find can see (OnlyThePlaceChanges), wherever the write
\* that follows the search stops.
THEOREM OnlyThePlaceEverChanges == Spec => []OnlyThePlaceChanges
<1>1. IInv => OnlyThePlaceChanges
  BY PatchPromise DEF IInv
<1>. QED  BY <1>1, CommandsInvariant, PTL

\* It reports success when Find can see a place to patch, and otherwise only
\* failure, unless it could not read the file (ReportedTruly).  Find does not
\* see a place at the very end of the file, and the pattern looked for is what
\* ReadBuf made of the words.
THEOREM AlwaysReportedTruly == Spec => []ReportedTruly
<1>1. IInv => ReportedTruly
  BY PatchPromise DEF IInv
<1>. QED  BY <1>1, CommandsInvariant, PTL

\* A report of any number of threads is loaded as it is, in whatever order its
\* lines come and wherever the array has to grow (LoadedFaithfully).
THEOREM AlwaysLoadedFaithfully == Spec => []LoadedFaithfully
<1>1. IInv => LoadedFaithfully
  BY RunawayPromise DEF IInv
<1>. QED  BY <1>1, CommandsInvariant, PTL

\* The later report is recognised whatever the width of the clock and whenever
\* it wraps, if less than half its range passed and no identifier was used again
\* (LaterRecognized).
THEOREM LaterAlwaysRecognized == Spec => []LaterRecognized
<1>1. IInv => LaterRecognized
  BY RunawayPromise DEF IInv
<1>. QED  BY <1>1, CommandsInvariant, PTL

\* Every thread of either report is accounted for once and rightly, if no
\* identifier was used again (EveryThreadReported), provided that no thread takes
\* up half the range of the clock between the reports.
THEOREM ThreadsAlwaysReported ==
  ASSUME MaxBusy < 2^(Width - 1)
  PROVE  Spec => []EveryThreadReported
<1>1. IInv => EveryThreadReported
  BY RunawayPromise DEF IInv, Half
<1>. QED  BY <1>1, CommandsInvariant, PTL

\* The virtio command names every bit of every word once, in the section it
\* belongs to (NamedOnce).
THEOREM AlwaysNamedOnce == Spec => []NamedOnce
<1>1. IInv => NamedOnce
  BY BitsPromise DEF IInv
<1>. QED  BY <1>1, CommandsInvariant, PTL

\* The bits command shows of any two words the fields that the comments beside
\* the bit fields promise (ShownAsCommented).
THEOREM AlwaysShownAsCommented == Spec => []ShownAsCommented
<1>1. IInv => ShownAsCommented
  BY ShownPromise DEF IInv
<1>. QED  BY <1>1, CommandsInvariant, PTL

\* The perf command without -loop runs its action exactly when the last -count
\* measurements succeeded and reached the limit (ActsOnTime), for every counter
\* and every -count.
THEOREM AlwaysActsOnTime == Spec => ActsOnTime
<1>1. IInv /\ [Next]_vars => [DueOnly]_perfVars
  BY OneCommandSteps, PerfPromise DEF IInv
<1>. QED  BY <1>1, CommandsInvariant, PTL DEF Spec, ActsOnTime, DueOnly
=============================================================================
