----------------------------- MODULE LoRaProofs -----------------------------
(* Theorems about LoRaReceiver for any pairwise coprime moduli, any        *)
(* timeout and sleep cycle, and any number of keys, wake cycles, lost and  *)
(* altered packets.                                                        *)
EXTENDS LoRaProperties, CrtCodeProofs

WakeRecords == [key : Keys, value : Values, sent : SUBSET Indices, woke : Nat, last : Nat,
                end : {"sleep", "reboot"}]
Packets == [key : Keys, index : Indices, residue : Nat, wake : Nat]
Residues == UNION {[I -> Nat] : I \in SUBSET Indices}

(* The device's wake cycles, one after another: a deep sleep lies between  *)
(* two of them, or each of them and of those between ended in a reboot.    *)
Cycles ==
  /\ sensor \in 0 .. Booting
  /\ sensor # Booting => wakes # <<>> /\ wakes[Last].end = "sleep"
  /\ sensor = Booting /\ wakes # <<>> => wakes[Last].end = "reboot"
  /\ wakes \in Seq(WakeRecords) /\ altered \in Nat /\ clock \in 0 .. MaxTime
  /\ \A w \in DOMAIN wakes : wakes[w].woke <= wakes[w].last /\ wakes[w].last <= clock
  /\ \A v, w \in DOMAIN wakes : v < w => wakes[v].last <= wakes[w].woke
  /\ \A v, w \in DOMAIN wakes : v < w /\ wakes[w].woke < wakes[v].last + SleepCycle =>
       \A u \in v .. w - 1 : wakes[u].end = "reboot"

(* A packet of a wake cycle.                                               *)
Genuine(p) ==
  /\ p \in Packets /\ p.wake \in DOMAIN wakes /\ p.key = wakes[p.wake].key
  /\ altered = 0 => Intact(p)

(* Threads outrun the clock: what waits for a live one was sent just now.  *)
OnAir ==
  /\ channel \in [Indices -> Seq(Packets)]
  /\ \A i \in Indices : \A p \in Range(channel[i]) :
       Genuine(p) /\ p.index = i /\ (thread[i] # Dead => wakes[p.wake].last = clock)

(* Packets of a channel are received in the order of their cycles.         *)
Ordered ==
  /\ \A i \in Indices : \A m, n \in DOMAIN channel[i] : m < n =>
       channel[i][m].wake <= channel[i][n].wake
  /\ \A k \in DOMAIN assemblies : \A q \in assemblies[k].packets :
       \A p \in Range(channel[q.index]) : q.wake <= p.wake

Heard(packets) == {p.index : p \in packets}

(* An assembly is fed by cycles of its key, the first of which it began    *)
(* in; the others woke while it was alive.                                 *)
Fed(k, assembly) ==
  /\ assembly \in [first_seen : Nat, residues : Residues, packets : SUBSET Packets]
  /\ assembly.first_seen <= clock
  /\ \E p \in assembly.packets : wakes[p.wake].woke <= assembly.first_seen
  /\ \A p \in assembly.packets :
       /\ Genuine(p) /\ p.key = k
       /\ assembly.first_seen <= wakes[p.wake].last
       /\ wakes[p.wake].woke < assembly.first_seen + Timeout
  /\ DOMAIN assembly.residues = Heard(assembly.packets)
  /\ \A i \in DOMAIN assembly.residues :
       \E p \in assembly.packets : p.index = i /\ p.residue = assembly.residues[i]

Assembling ==
  /\ DOMAIN assemblies \subseteq Keys \ assembled
  /\ \A k \in DOMAIN assemblies :
       Fed(k, assemblies[k]) /\ ~Decodes(assemblies[k].residues)

(* A reading comes from cycles of its key, each of which woke within the   *)
(* timeout of the others, and from unaltered packets of one cycle its      *)
(* value is decoded from residues of the one measured.                     *)
Genuinely(reading) ==
  /\ reading.key \in assembled /\ reading.packets # {}
  /\ \A p \in reading.packets : Genuine(p) /\ p.key = reading.key
  /\ \A p, q \in reading.packets : wakes[q.wake].woke < wakes[p.wake].last + Timeout
  /\ \A w \in DOMAIN wakes :
       (\A p \in reading.packets : Intact(p) /\ p.wake = w) =>
         \E I \in SUBSET Indices :
           /\ Cardinality(I) >= 2 /\ I = Heard(reading.packets)
           /\ reading.value = decode([i \in I |-> encode(wakes[w].value)[i]])

(* Each assembled key has one reading, under way or delivered.             *)
Delivering(i) == thread[i].pc = "deliver"
Readings ==
  /\ assembled \subseteq Keys
  /\ DOMAIN thread = Indices
  /\ \A i \in Indices : thread[i] \in {Waiting, Dead} \/ Delivering(i)
  /\ \E S : delivered \in Seq(S)
  /\ \A i \in Indices : Delivering(i) => Genuinely(thread[i].reading)
  /\ \A n \in DOMAIN delivered : Genuinely(delivered[n])
  /\ \A m, n \in DOMAIN delivered : delivered[m].key = delivered[n].key => m = n
  /\ \A i, j \in Indices :
       Delivering(i) /\ Delivering(j) /\ thread[i].reading.key = thread[j].reading.key => i = j
  /\ \A i \in Indices, n \in DOMAIN delivered :
       Delivering(i) => thread[i].reading.key # delivered[n].key

LoRaInv == Cycles /\ OnAir /\ Ordered /\ Assembling /\ Readings

(* The readings made: delivered ones and those a thread is about to.       *)
Made == Range(delivered) \cup {thread[i].reading : i \in {j \in Indices : Delivering(j)}}

(* A wake cycle whose key has a reading, of this cycle or an earlier one.  *)
Covered(w) ==
  \E reading \in Made :
    reading.key = wakes[w].key /\ \E p \in reading.packets : p.wake <= w

Young(w) == clock < wakes[w].woke + Timeout

OnTheAir(w, i) == \E p \in Range(channel[i]) : p.wake = w

(* Residue i of a cycle is on the air, or in an assembly that outlives the *)
(* cycle's time and is fed by this cycle or an earlier one.                *)
Held(w, i) ==
  \/ OnTheAir(w, i)
  \/ LET k == wakes[w].key
     IN  /\ k \in DOMAIN assemblies /\ i \in DOMAIN assemblies[k].residues
         /\ wakes[w].woke <= assemblies[k].first_seen
         /\ \E p \in assemblies[k].packets : p.wake <= w

Alone(w) == \A v \in DOMAIN wakes : ~Overlaps(v, w)

(* Of a cycle's residues one at most went into an assembly begun before    *)
(* it woke, and none when no earlier cycle of its key overlaps it.         *)
Traced(w) ==
  /\ Alone(w) => \A i \in wakes[w].sent : Held(w, i)
  /\ \A i, j \in wakes[w].sent : i = j \/ Held(w, i) \/ Held(w, j)
  /\ \A k \in DOMAIN assemblies :
       k = wakes[w].key /\ assemblies[k].first_seen < wakes[w].woke =>
         \A i \in wakes[w].sent : OnTheAir(w, i) \/ i \in DOMAIN assemblies[k].residues

(* A cycle has its reading, is promised none, or its residues are there.   *)
NothingLost(w) ==
  \/ Covered(w)
  \/ ~Promised(w) /\ (w < Last \/ ~Young(w))
  \/ Young(w) /\ wakes[w].key \notin assembled /\ Traced(w)

LossInv ==
  /\ \A k \in assembled : \E reading \in Made : reading.key = k
  /\ altered = 0 => /\ \A i \in Indices : thread[i] # Dead
                    /\ \A w \in DOMAIN wakes : NothingLost(w)

-----------------------------------------------------------------------------
(* Nothing is on the air or in the receiver initially.                     *)
LEMMA LoRaInitInv == Init => LoRaInv
<1> SUFFICES ASSUME Init PROVE LoRaInv
  OBVIOUS
<1>1. Cycles
  BY ReceiverAssumption DEF Init, Cycles, Booting, Indices
<1>2. OnAir
  BY DEF Init, OnAir, Range
<1>3. Assembling /\ Ordered
  BY DEF Init, Assembling, Ordered
<1>4. Readings
  BY DEF Init, Readings, Waiting, Dead, Delivering
<1> QED
  BY <1>1, <1>2, <1>3, <1>4 DEF LoRaInv

(* The moduli and the clocks.                                              *)
LEMMA Constants ==
  /\ Timeout \in Nat \ {0} /\ SleepCycle \in Nat /\ SleepCycle >= Timeout /\ MaxTime \in Nat
  /\ Values \subseteq Nat /\ Wild \in Nat
  /\ Modulus \in [Indices -> Nat \ {0, 1}]
  /\ \A v \in Values, i \in Indices : encode(v)[i] \in 0 .. Modulus[i] - 1
<1>1. \A v \in Nat, m \in Nat \ {0, 1} : v % m \in 0 .. m - 1
  OBVIOUS
<1> QED
  BY <1>1, ReceiverAssumption, CrtAssumption DEF encode

(* The numbers in a cycle's record.                                        *)
LEMMA CycleTimes ==
  ASSUME Cycles
  PROVE  /\ \A w \in DOMAIN wakes :
              /\ w \in Nat \ {0} /\ wakes[w] \in WakeRecords
              /\ wakes[w].woke \in Nat /\ wakes[w].last \in Nat
              /\ wakes[w].woke <= wakes[w].last /\ wakes[w].last <= clock
              /\ wakes[w].sent \subseteq Indices /\ wakes[w].value \in Values
              /\ wakes[w].key \in Keys
         /\ Last \in Nat /\ DOMAIN wakes = 1 .. Last /\ clock \in Nat
         /\ sensor # Booting => Last \in DOMAIN wakes
<1>1. wakes \in Seq(WakeRecords) /\ clock \in Nat
  BY Constants DEF Cycles
<1>2. Last \in Nat /\ DOMAIN wakes = 1 .. Last
  BY <1>1 DEF Last
<1>3. \A w \in DOMAIN wakes : wakes[w] \in WakeRecords
  BY <1>1
<1>4. sensor # Booting => Last \in DOMAIN wakes
  BY <1>1, <1>2 DEF Cycles, Last
<1> QED
  BY <1>1, <1>2, <1>3, <1>4 DEF WakeRecords, Cycles

(* What a step of the radio leaves of the cycles before.                   *)
CyclesKept ==
  \A w \in DOMAIN wakes :
    /\ w \in DOMAIN wakes' /\ wakes'[w].key = wakes[w].key
    /\ wakes'[w].value = wakes[w].value /\ wakes'[w].woke = wakes[w].woke
    /\ wakes[w].last <= wakes'[w].last

(* Genuine packets stay so.                                                *)
LEMMA GenuineKept ==
  ASSUME CyclesKept, altered' = 0 => altered = 0, NEW p, Genuine(p)
  PROVE  Genuine(p)' /\ (Intact(p)' <=> Intact(p))
BY DEF CyclesKept, Genuine, Intact, encode

(* Readings keep their cycles.                                             *)
LEMMA GenuinelyKept ==
  ASSUME Cycles, Cycles', CyclesKept, altered' = 0 => altered = 0, assembled \subseteq assembled',
         NEW x, Genuinely(x)
  PROVE  Genuinely(x)'
<1>1. \A p \in x.packets : /\ Genuine(p) /\ Genuine(p)' /\ (Intact(p)' <=> Intact(p))
                           /\ p.key = x.key /\ p.wake \in DOMAIN wakes
  BY GenuineKept DEF Genuinely, Genuine
<1>2. ASSUME NEW p \in x.packets, NEW q \in x.packets
      PROVE  wakes'[q.wake].woke < wakes'[p.wake].last + Timeout
  <2>1. wakes[q.wake].woke < wakes[p.wake].last + Timeout
    BY DEF Genuinely
  <2>2. /\ wakes'[q.wake].woke = wakes[q.wake].woke /\ wakes[p.wake].last <= wakes'[p.wake].last
        /\ p.wake \in DOMAIN wakes' /\ q.wake \in DOMAIN wakes
    BY <1>1 DEF CyclesKept
  <2>3. wakes'[p.wake].last \in Nat
    <3>1. wakes'[p.wake] \in WakeRecords
      BY <2>2 DEF Cycles
    <3> QED
      BY <3>1 DEF WakeRecords
  <2>4. wakes[p.wake].last \in Nat /\ wakes[q.wake].woke \in Nat
    BY <1>1, CycleTimes
  <2> QED
    BY <2>1, <2>2, <2>3, <2>4, Constants
<1>3. ASSUME NEW w \in DOMAIN wakes', \A p \in x.packets : (Intact(p) /\ p.wake = w)'
      PROVE  \E I \in SUBSET Indices :
               /\ Cardinality(I) >= 2 /\ I = Heard(x.packets)
               /\ x.value = decode([i \in I |-> encode(wakes'[w].value)[i]])
  <2>1. \A p \in x.packets : Intact(p) /\ p.wake = w
    BY <1>1, <1>3
  <2>2. w \in DOMAIN wakes
    BY <1>1, <2>1 DEF Genuinely
  <2>3. wakes'[w].value = wakes[w].value
    BY <2>2 DEF CyclesKept
  <2> QED
    BY <2>1, <2>2, <2>3 DEF Genuinely
<1>4. x.key \in assembled' /\ x.packets # {}
  BY DEF Genuinely
<1> QED
  BY <1>1, <1>2, <1>3, <1>4 DEF Genuinely

(* Assemblies too.                                                         *)
LEMMA FedKept ==
  ASSUME Cycles, Cycles', CyclesKept, altered' = 0 => altered = 0, clock' >= clock,
         NEW k, NEW a, Fed(k, a)
  PROVE  Fed(k, a)'
<1>1. ASSUME NEW p \in a.packets
      PROVE  /\ Genuine(p)' /\ p.key = k /\ wakes'[p.wake].woke = wakes[p.wake].woke
             /\ a.first_seen <= wakes'[p.wake].last
             /\ wakes'[p.wake].woke < a.first_seen + Timeout
  <2>1. /\ Genuine(p) /\ p.key = k /\ a.first_seen <= wakes[p.wake].last
        /\ wakes[p.wake].woke < a.first_seen + Timeout /\ a.first_seen \in Nat
    BY DEF Fed
  <2>2. Genuine(p)'
    BY <2>1, GenuineKept
  <2>3. /\ p.wake \in DOMAIN wakes /\ p.wake \in DOMAIN wakes'
        /\ wakes'[p.wake].woke = wakes[p.wake].woke /\ wakes[p.wake].last <= wakes'[p.wake].last
    BY <2>1 DEF Genuine, CyclesKept
  <2>4. wakes'[p.wake].last \in Nat
    <3>1. wakes'[p.wake] \in WakeRecords
      BY <2>3 DEF Cycles
    <3> QED
      BY <3>1 DEF WakeRecords
  <2>5. wakes[p.wake].last \in Nat
    BY <2>3, CycleTimes
  <2> QED
    BY <2>1, <2>2, <2>3, <2>4, <2>5
<1>2. a.first_seen <= clock'
  BY CycleTimes DEF Fed, Cycles
<1>3. \E p \in a.packets : wakes'[p.wake].woke <= a.first_seen
  BY <1>1 DEF Fed
<1> QED
  BY <1>1, <1>2, <1>3 DEF Fed

(* A step of the radio changes nothing in the receiver.                    *)
LEMMA ReceiverKept ==
  ASSUME LoRaInv, CyclesKept, altered' = 0 => altered = 0, UNCHANGED receiver, Cycles',
         clock' >= clock
  PROVE  Assembling' /\ Readings'
<1>1. Cycles /\ UNCHANGED <<assemblies, assembled, thread, delivered>>
  BY DEF LoRaInv, receiver
<1>2. Assembling'
  <2>1. \A k, a : Fed(k, a) => Fed(k, a)'
    BY <1>1, FedKept
  <2> QED
    BY <1>1, <2>1 DEF LoRaInv, Assembling
<1>3. Readings'
  <2>1. ASSUME NEW x, Genuinely(x) PROVE Genuinely(x)'
    BY <1>1, <2>1, GenuinelyKept
  <2> QED
    BY <1>1, <2>1 DEF LoRaInv, Readings, Delivering
<1> QED
  BY <1>2, <1>3

-----------------------------------------------------------------------------
(* The device wakes: its cycle begins now.                                 *)
LEMMA WakeInv ==
  ASSUME LoRaInv, NEW k \in Keys, NEW v \in Values, Wake(k, v), UNCHANGED clock
  PROVE  LoRaInv' /\ CyclesKept
<1> DEFINE new == [key |-> k, value |-> v, sent |-> {}, woke |-> clock, last |-> clock,
                   end |-> "sleep"]
           n == Last + 1
<1>1. /\ wakes \in Seq(WakeRecords) /\ new \in WakeRecords /\ wakes' = Append(wakes, new)
      /\ sensor' = 0 /\ clock \in Nat /\ UNCHANGED <<altered, channel, receiver>>
  BY Constants DEF LoRaInv, Cycles, Wake, WakeRecords
<1>2. new.key = k /\ new.woke = clock /\ new.last = clock /\ new.end = "sleep"
  OBVIOUS
<1>3. /\ \A w \in DOMAIN wakes : /\ w \in Nat \ {0} /\ wakes[w].woke \in Nat /\ wakes[w].last \in Nat
                                 /\ wakes[w].woke <= wakes[w].last /\ wakes[w].last <= clock
      /\ Last \in Nat /\ DOMAIN wakes = 1 .. Last
  BY CycleTimes DEF LoRaInv
<1> HIDE DEF new
<1>4. /\ n \in Nat \ {0} /\ DOMAIN wakes = 1 .. n - 1 /\ DOMAIN wakes' = 1 .. n
      /\ wakes'[n] = new /\ \A w \in DOMAIN wakes : wakes'[w] = wakes[w]
      /\ wakes' \in Seq(WakeRecords) /\ Last' = n
  BY <1>1, <1>3 DEF Last
<1>5. CyclesKept
  BY <1>3, <1>4 DEF CyclesKept
<1>6. Cycles'
  <2>1. \A w \in DOMAIN wakes' : wakes'[w].woke <= wakes'[w].last /\ wakes'[w].last <= clock
    BY <1>1, <1>2, <1>3, <1>4
  <2>2. ASSUME NEW u \in DOMAIN wakes', NEW w \in DOMAIN wakes', u < w
        PROVE  wakes'[u].last <= wakes'[w].woke
    <3>1. u \in DOMAIN wakes /\ wakes'[u] = wakes[u] /\ (w = n \/ w \in DOMAIN wakes)
      BY <1>4, <2>2
    <3> QED
      BY <1>2, <1>3, <1>4, <2>2, <3>1 DEF LoRaInv, Cycles
  <2>3. ASSUME NEW u \in DOMAIN wakes', NEW w \in DOMAIN wakes', u < w,
               wakes'[w].woke < wakes'[u].last + SleepCycle, NEW x \in u .. w - 1
        PROVE  wakes'[x].end = "reboot"
    <3>1. /\ u \in DOMAIN wakes /\ x \in DOMAIN wakes /\ wakes'[u] = wakes[u] /\ wakes'[x] = wakes[x]
          /\ u \in Nat /\ x \in Nat /\ w \in Nat
      BY <1>4, <2>3
    <3>2. CASE w # n
      <4>1. w \in DOMAIN wakes /\ wakes'[w] = wakes[w]
        BY <1>4, <3>2
      <4> QED
        BY <2>3, <3>1, <4>1 DEF LoRaInv, Cycles
    <3>3. CASE w = n
      <4>1. clock < wakes[u].last + SleepCycle
        BY <1>2, <1>4, <2>3, <3>1, <3>3
      <4>2. Last \in DOMAIN wakes /\ u <= Last /\ x <= Last
        BY <1>3, <3>1
      <4>3. wakes[u].last <= wakes[Last].last
        <5>1. CASE u = Last
          BY <1>3, <4>2, <5>1
        <5>2. CASE u < Last
          <6>1. wakes[u].last <= wakes[Last].woke
            BY <3>1, <4>2, <5>2 DEF LoRaInv, Cycles
          <6> QED
            BY <1>3, <3>1, <4>2, <6>1
        <5> QED
          BY <1>3, <3>1, <4>2, <5>1, <5>2
      <4>4. sensor = Booting
        <5>1. sensor = Booting \/ clock >= wakes[Last].last + SleepCycle
          BY <1>1 DEF Wake
        <5>2. /\ wakes[u].last \in Nat /\ wakes[Last].last \in Nat
              /\ SleepCycle \in Nat /\ clock \in Nat
          BY <1>1, <1>3, <3>1, <4>2, Constants
        <5> QED
          BY <4>1, <4>3, <5>1, <5>2
      <4>5. wakes[Last].end = "reboot"
        BY <4>2, <4>4 DEF LoRaInv, Cycles
      <4>6. CASE x = Last
        BY <3>1, <4>5, <4>6
      <4>7. CASE x < Last
        <5>1. u < Last /\ x \in u .. Last - 1
          BY <1>3, <2>3, <3>1, <4>7
        <5>2. wakes[Last].woke < wakes[u].last + SleepCycle
          <6>1. /\ wakes[Last].woke \in Nat /\ wakes[Last].last \in Nat
                /\ wakes[Last].woke <= wakes[Last].last /\ wakes[Last].last <= clock
            BY <1>3, <4>2
          <6>2. wakes[u].last \in Nat /\ SleepCycle \in Nat /\ clock \in Nat
            BY <1>1, <1>3, <3>1, Constants
          <6> QED
            BY <4>1, <6>1, <6>2
        <5> QED
          BY <3>1, <4>2, <5>1, <5>2, SMTT(30) DEF LoRaInv, Cycles
      <4> QED
        BY <1>3, <3>1, <4>2, <4>6, <4>7
    <3> QED
      BY <3>2, <3>3
  <2>4. /\ wakes' # <<>> /\ sensor' \in 0 .. Booting /\ sensor' # Booting
        /\ wakes'[Last'].end = "sleep"
    BY <1>1, <1>2, <1>4 DEF Booting
  <2>5. altered' \in Nat /\ clock' \in 0 .. MaxTime
    BY <1>1 DEF LoRaInv, Cycles
  <2>6. clock' = clock
    OBVIOUS
  <2> QED
    BY <1>4, <2>1, <2>2, <2>3, <2>4, <2>5, <2>6 DEF Cycles
<1>7. OnAir'
  <2>1. \A p : Genuine(p) => Genuine(p)' /\ wakes'[p.wake] = wakes[p.wake]
    BY <1>1, <1>4, <1>5, GenuineKept DEF Genuine
  <2>2. ASSUME NEW i \in Indices, NEW p \in Range(channel[i])
        PROVE  Genuine(p)' /\ p.index = i /\ (thread[i] # Dead => wakes'[p.wake].last = clock)
    BY <2>1 DEF LoRaInv, OnAir
  <2>3. channel' = channel /\ thread' = thread /\ clock' = clock
    BY <1>1 DEF receiver
  <2> QED
    BY <2>2, <2>3 DEF LoRaInv, OnAir
<1>8. Assembling' /\ Readings'
  BY <1>1, <1>5, <1>6, ReceiverKept
<1>9. Ordered'
  BY <1>1 DEF LoRaInv, Ordered, receiver
<1> QED
  BY <1>5, <1>6, <1>7, <1>8, <1>9 DEF LoRaInv

(* The last cycle goes on, or ends in a reboot.                            *)
LEMMA CycleGoesOn ==
  ASSUME Cycles, sensor # Booting, NEW rec \in WakeRecords, clock' = clock,
         rec.key = wakes[Last].key, rec.value = wakes[Last].value, rec.woke = wakes[Last].woke,
         rec.last \in {wakes[Last].last, clock}, wakes' = [wakes EXCEPT ![Last] = rec],
         altered' \in Nat, sensor' \in 0 .. Booting,
         rec.end = IF sensor' = Booting THEN "reboot" ELSE "sleep"
  PROVE  /\ CyclesKept /\ Cycles' /\ Last \in DOMAIN wakes /\ DOMAIN wakes' = DOMAIN wakes
         /\ wakes'[Last] = rec /\ Last' = Last
         /\ \A w \in DOMAIN wakes \ {Last} : wakes'[w] = wakes[w]
<1>1. /\ wakes \in Seq(WakeRecords) /\ clock \in Nat /\ Last \in DOMAIN wakes /\ Last \in Nat
      /\ DOMAIN wakes = 1 .. Last /\ Last = Len(wakes)
  BY CycleTimes DEF Cycles, Last
<1>2. \A w \in DOMAIN wakes : /\ wakes[w].last \in Nat /\ wakes[w].woke \in Nat /\ w \in Nat
                              /\ wakes[w].woke <= wakes[w].last /\ wakes[w].last <= clock
  BY CycleTimes
<1>3. /\ wakes' \in Seq(WakeRecords) /\ DOMAIN wakes' = DOMAIN wakes /\ wakes'[Last] = rec
      /\ \A w \in DOMAIN wakes \ {Last} : wakes'[w] = wakes[w]
      /\ Len(wakes') = Len(wakes)
  BY <1>1, SMTT(30)
<1>4. Last' = Last
  BY <1>3 DEF Last
<1>5. wakes[Last].last <= rec.last /\ rec.last <= clock
  BY <1>1, <1>2
<1>6. CyclesKept
  BY <1>1, <1>2, <1>3, <1>5 DEF CyclesKept
<1>7. \A w \in DOMAIN wakes' : wakes'[w].woke <= wakes'[w].last /\ wakes'[w].last <= clock
  BY <1>1, <1>2, <1>3, <1>5
<1>8. ASSUME NEW u \in DOMAIN wakes', NEW w \in DOMAIN wakes', u < w
      PROVE  /\ wakes'[u] = wakes[u] /\ u # Last /\ u \in DOMAIN wakes
             /\ wakes'[w].woke = wakes[w].woke /\ w \in DOMAIN wakes
  BY <1>1, <1>2, <1>3, <1>8
<1>9. ASSUME NEW u \in DOMAIN wakes', NEW w \in DOMAIN wakes', u < w
      PROVE  wakes'[u].last <= wakes'[w].woke
  BY <1>8, <1>9 DEF Cycles
<1>10. ASSUME NEW u \in DOMAIN wakes', NEW w \in DOMAIN wakes', u < w,
              wakes'[w].woke < wakes'[u].last + SleepCycle, NEW x \in u .. w - 1
       PROVE  wakes'[x].end = "reboot"
  <2>1. x \in DOMAIN wakes /\ x < w
    BY <1>1, <1>2, <1>8, <1>10
  <2>2. wakes[x].end = "reboot"
    BY <1>8, <1>10 DEF Cycles
  <2>3. wakes'[x] = wakes[x]
    BY <1>3, <1>8, <1>10, <2>1
  <2> QED
    BY <2>2, <2>3
<1>11. wakes' # <<>>
  BY <1>1, <1>3
<1>12. Cycles'
  <2>1. clock' \in 0 .. MaxTime
    BY DEF Cycles
  <2>2. /\ sensor' # Booting => wakes' # <<>> /\ wakes'[Last'].end = "sleep"
        /\ sensor' = Booting => wakes'[Last'].end = "reboot"
    BY <1>3, <1>4, <1>11
  <2> QED
    BY <1>3, <1>7, <1>9, <1>10, <2>1, <2>2 DEF Cycles
<1> QED
  BY <1>1, <1>3, <1>4, <1>6, <1>12

(* What the actions write to the record of the last cycle.                 *)
Rewritten(rec, S, t, e) ==
  /\ rec \in WakeRecords /\ rec.key = wakes[Last].key /\ rec.value = wakes[Last].value
  /\ rec.woke = wakes[Last].woke /\ rec.sent = S /\ rec.last = t /\ rec.end = e

LEMMA RecordSent ==
  ASSUME Cycles, sensor # Booting, NEW S \in SUBSET Indices, NEW t \in Nat
  PROVE  \E rec : /\ Rewritten(rec, S, t, "sleep")
                  /\ [wakes EXCEPT ![Last].sent = S, ![Last].last = t] = [wakes EXCEPT ![Last] = rec]
<1>1. Last \in DOMAIN wakes /\ wakes[Last] \in WakeRecords /\ wakes[Last].end = "sleep"
  BY CycleTimes DEF Cycles
<1> DEFINE once == [wakes[Last] EXCEPT !.sent = S]
           twice == [once EXCEPT !.last = t]
<1>2. /\ once \in WakeRecords /\ once.key = wakes[Last].key /\ once.value = wakes[Last].value
      /\ once.sent = S /\ once.woke = wakes[Last].woke /\ once.end = "sleep"
  BY <1>1 DEF WakeRecords
<1>3. [wakes EXCEPT ![Last].sent = S, ![Last].last = t] = [wakes EXCEPT ![Last] = twice]
  BY <1>1
<1> HIDE DEF once
<1>4. /\ twice \in WakeRecords /\ twice.key = once.key /\ twice.value = once.value
      /\ twice.sent = once.sent /\ twice.woke = once.woke /\ twice.last = t
      /\ twice.end = once.end
  BY <1>2 DEF WakeRecords
<1> HIDE DEF twice
<1>5. Rewritten(twice, S, t, "sleep")
  BY <1>2, <1>4 DEF Rewritten
<1> QED
  BY <1>3, <1>5

LEMMA RecordUnsent ==
  ASSUME Cycles, sensor # Booting, NEW t \in Nat
  PROVE  \E rec : /\ Rewritten(rec, wakes[Last].sent, t, "sleep")
                  /\ [wakes EXCEPT ![Last].last = t] = [wakes EXCEPT ![Last] = rec]
<1>1. Last \in DOMAIN wakes /\ wakes[Last] \in WakeRecords /\ wakes[Last].end = "sleep"
  BY CycleTimes DEF Cycles
<1> DEFINE later == [wakes[Last] EXCEPT !.last = t]
<1>2. Rewritten(later, wakes[Last].sent, t, "sleep")
  BY <1>1 DEF WakeRecords, Rewritten
<1>3. [wakes EXCEPT ![Last].last = t] = [wakes EXCEPT ![Last] = later]
  BY <1>1
<1> QED
  BY <1>2, <1>3

LEMMA RecordRebooted ==
  ASSUME Cycles, sensor # Booting
  PROVE  \E rec : /\ Rewritten(rec, wakes[Last].sent, wakes[Last].last, "reboot")
                  /\ [wakes EXCEPT ![Last].end = "reboot"] = [wakes EXCEPT ![Last] = rec]
<1>1. Last \in DOMAIN wakes /\ wakes[Last] \in WakeRecords
  BY CycleTimes
<1> DEFINE done == [wakes[Last] EXCEPT !.end = "reboot"]
<1>2. Rewritten(done, wakes[Last].sent, wakes[Last].last, "reboot")
  BY <1>1 DEF WakeRecords, Rewritten
<1>3. [wakes EXCEPT ![Last].end = "reboot"] = [wakes EXCEPT ![Last] = done]
  BY <1>1
<1> QED
  BY <1>2, <1>3

(* What is on the air stays genuine and recent while the last cycle goes   *)
(* on.                                                                     *)
LEMMA OnAirKept ==
  ASSUME LoRaInv, CyclesKept, altered' = 0 => altered = 0, thread' = thread, clock' = clock,
         \A w \in DOMAIN wakes : wakes'[w].last \in {wakes[w].last, clock},
         NEW i \in Indices, NEW p \in Range(channel[i])
  PROVE  Genuine(p)' /\ p.index = i /\ (thread'[i] # Dead => wakes'[p.wake].last = clock')
<1>1. Genuine(p) /\ p.index = i /\ (thread[i] # Dead => wakes[p.wake].last = clock)
  BY DEF LoRaInv, OnAir
<1>2. p.wake \in DOMAIN wakes /\ Genuine(p)'
  BY <1>1, GenuineKept DEF Genuine
<1> QED
  BY <1>1, <1>2

(* A step of the sensor that puts nothing on the air.                      *)
LEMMA QuietStep ==
  ASSUME LoRaInv, CyclesKept, Cycles', UNCHANGED <<altered, channel, receiver, clock>>,
         \A w \in DOMAIN wakes : wakes'[w].last \in {wakes[w].last, clock}
  PROVE  LoRaInv'
<1>1. /\ altered' = altered /\ channel' = channel /\ clock' = clock
      /\ thread' = thread /\ assemblies' = assemblies
  BY DEF receiver
<1>2. OnAir'
  <2>1. ASSUME NEW i \in Indices, NEW p \in Range(channel[i])
        PROVE  Genuine(p)' /\ p.index = i /\ (thread'[i] # Dead => wakes'[p.wake].last = clock')
    BY <1>1, OnAirKept
  <2> QED
    BY <1>1, <2>1 DEF LoRaInv, OnAir
<1>3. clock' >= clock
  BY <1>1, CycleTimes DEF LoRaInv
<1>4. Assembling' /\ Readings'
  BY <1>1, <1>3, ReceiverKept
<1>5. Ordered'
  BY <1>1 DEF LoRaInv, Ordered
<1> QED
  BY <1>2, <1>4, <1>5 DEF LoRaInv

(* Sending a residue that is not heard, falling asleep, rebooting.         *)
Silence == LoseResidue \/ Sleep \/ Reboot

LEMMA SilenceInv ==
  ASSUME LoRaInv, Silence, UNCHANGED clock
  PROVE  /\ LoRaInv' /\ CyclesKept /\ DOMAIN wakes' = DOMAIN wakes /\ Last' = Last
         /\ \A w \in DOMAIN wakes \ {Last} : wakes'[w] = wakes[w]
         /\ \A w \in DOMAIN wakes : /\ wakes'[w].sent = wakes[w].sent
                                    /\ wakes'[w].last \in {wakes[w].last, clock}
<1>1. /\ sensor # Booting /\ sensor' \in 0 .. Booting /\ UNCHANGED <<altered, channel, receiver>>
      /\ altered' \in Nat /\ Cycles /\ clock \in Nat
  BY CycleTimes DEF Silence, LoseResidue, Sleep, Reboot, Indices, Booting, Sent, Asleep, LoRaInv, Cycles
<1>2. Last \in DOMAIN wakes /\ wakes[Last] \in WakeRecords
  BY <1>1, CycleTimes
<1>3. wakes[Last].end = "sleep"
  BY <1>1 DEF Cycles
<1>4. PICK rec, t, e : /\ Rewritten(rec, wakes[Last].sent, t, e)
                       /\ t \in {wakes[Last].last, clock}
                       /\ e = IF sensor' = Booting THEN "reboot" ELSE "sleep"
                       /\ wakes' = [wakes EXCEPT ![Last] = rec]
  <2>1. CASE LoseResidue
    <3>1. sensor' # Booting /\ wakes' = [wakes EXCEPT ![Last].last = clock]
      BY <2>1 DEF LoseResidue, Indices, Booting
    <3> QED
      BY <1>1, <3>1, RecordUnsent
  <2>2. CASE Sleep
    <3>1. wakes' = [wakes EXCEPT ![Last] = wakes[Last]]
      BY <1>1, <1>2, <2>2 DEF Sleep, Cycles
    <3>2. sensor' # Booting
      BY <2>2 DEF Sleep, Asleep, Booting
    <3>3. Rewritten(wakes[Last], wakes[Last].sent, wakes[Last].last, "sleep")
      BY <1>2, <1>3 DEF Rewritten
    <3> QED
      BY <3>1, <3>2, <3>3
  <2>3. CASE Reboot
    <3>1. sensor' = Booting /\ wakes' = [wakes EXCEPT ![Last].end = "reboot"]
      BY <2>3 DEF Reboot
    <3> QED
      BY <1>1, <3>1, RecordRebooted
  <2> QED
    BY <2>1, <2>2, <2>3 DEF Silence
<1>5. /\ rec \in WakeRecords /\ rec.key = wakes[Last].key /\ rec.value = wakes[Last].value
      /\ rec.woke = wakes[Last].woke /\ rec.sent = wakes[Last].sent
      /\ rec.last \in {wakes[Last].last, clock}
      /\ rec.end = (IF sensor' = Booting THEN "reboot" ELSE "sleep")
      /\ wakes' = [wakes EXCEPT ![Last] = rec]
  BY <1>4 DEF Rewritten
<1>6. /\ CyclesKept /\ Cycles' /\ DOMAIN wakes' = DOMAIN wakes /\ wakes'[Last] = rec /\ Last' = Last
      /\ \A w \in DOMAIN wakes \ {Last} : wakes'[w] = wakes[w]
  BY <1>1, <1>5, CycleGoesOn
<1>7. \A w \in DOMAIN wakes : /\ wakes'[w].sent = wakes[w].sent
                              /\ wakes'[w].last \in {wakes[w].last, clock}
  BY <1>5, <1>6
<1>8. LoRaInv'
  BY <1>1, <1>6, <1>7, QuietStep
<1> QED
  BY <1>6, <1>7, <1>8

(* Sending a residue.                                                      *)
LEMMA TransmitInv ==
  ASSUME LoRaInv, TransmitResidue, UNCHANGED clock
  PROVE  /\ LoRaInv' /\ CyclesKept /\ DOMAIN wakes' = DOMAIN wakes /\ Last' = Last
         /\ Last \in DOMAIN wakes /\ wakes'[Last].last = clock
         /\ wakes'[Last].sent = wakes[Last].sent \cup {sensor}
         /\ \A w \in DOMAIN wakes \ {Last} : wakes'[w] = wakes[w]
<1> DEFINE intact == encode(wakes[Last].value)[sensor]
<1>1. PICK residue \in {intact, 0, Wild} :
        /\ channel' = [channel EXCEPT ![sensor] = Append(@, Packet(sensor, residue))]
        /\ altered' = altered + (IF residue = intact THEN 0 ELSE 1)
  BY DEF TransmitResidue
<1> DEFINE new == Packet(sensor, residue)
           S == wakes[Last].sent \cup {sensor}
<1>2. /\ sensor \in Indices /\ sensor # Booting /\ sensor' \in 0 .. Booting /\ sensor' # Booting
      /\ UNCHANGED receiver /\ Cycles
      /\ wakes' = [wakes EXCEPT ![Last].sent = S, ![Last].last = clock]
  BY DEF TransmitResidue, Indices, Booting, LoRaInv
<1>3. clock \in Nat /\ altered \in Nat /\ Last \in DOMAIN wakes /\ wakes[Last] \in WakeRecords
      /\ Last \in Nat
  BY <1>2, CycleTimes DEF Cycles
<1>4. S \in SUBSET Indices /\ wakes[Last].value \in Values /\ wakes[Last].key \in Keys
  BY <1>2, <1>3 DEF WakeRecords
<1>5. residue \in Nat
  <2>1. intact \in 0 .. Modulus[sensor] - 1 /\ Modulus[sensor] \in Nat /\ Wild \in Nat
    BY <1>2, <1>4, Constants
  <2> QED
    BY <1>1, <2>1
<1>6. altered' \in Nat /\ (altered' = 0 => altered = 0 /\ residue = intact)
  BY <1>1, <1>3
<1> HIDE DEF S
<1>7. PICK rec : /\ rec \in WakeRecords
                 /\ rec.key = wakes[Last].key /\ rec.value = wakes[Last].value
                 /\ rec.woke = wakes[Last].woke /\ rec.sent = S /\ rec.last = clock
                 /\ rec.end = "sleep" /\ wakes' = [wakes EXCEPT ![Last] = rec]
  <2>1. \E rec : /\ Rewritten(rec, S, clock, "sleep")
                 /\ wakes' = [wakes EXCEPT ![Last] = rec]
    <3>1. PICK rec : /\ Rewritten(rec, S, clock, "sleep")
                     /\ [wakes EXCEPT ![Last].sent = S, ![Last].last = clock]
                          = [wakes EXCEPT ![Last] = rec]
      <4>1. Cycles /\ sensor # Booting /\ clock \in Nat /\ S \in SUBSET Indices
        BY <1>2, <1>3, <1>4
      <4> QED
        BY <4>1, RecordSent, Zenon
    <3>2. wakes' = [wakes EXCEPT ![Last].sent = S, ![Last].last = clock]
      BY <1>2
    <3> QED
      BY <3>1, <3>2
  <2> QED
    BY <2>1 DEF Rewritten
<1>8. /\ CyclesKept /\ Cycles' /\ DOMAIN wakes' = DOMAIN wakes /\ Last' = Last
      /\ wakes'[Last] = rec
      /\ \A w \in DOMAIN wakes \ {Last} : wakes'[w] = wakes[w]
  BY <1>2, <1>6, <1>7, CycleGoesOn
<1>9. /\ new \in Packets /\ new.wake = Last /\ new.key = wakes[Last].key
      /\ new.index = sensor /\ new.residue = residue
  BY <1>2, <1>3, <1>4, <1>5 DEF Packet, Packets
<1>10. ASSUME NEW q, q = new PROVE Genuine(q)'
  <2>1. /\ q \in Packets /\ q.wake = Last /\ q.key = wakes[Last].key
        /\ q.index = sensor /\ q.residue = residue
    BY <1>9, <1>10
  <2>2. wakes'[Last].key = wakes[Last].key /\ wakes'[Last].value = wakes[Last].value
    BY <1>7, <1>8
  <2> QED
    BY <1>3, <1>6, <1>8, <2>1, <2>2 DEF Genuine, Intact, encode
<1> HIDE DEF new
<1>11. channel \in [Indices -> Seq(Packets)]
  BY DEF LoRaInv, OnAir
<1>12. /\ channel' \in [Indices -> Seq(Packets)] /\ channel[sensor] \in Seq(Packets)
       /\ channel'[sensor] = Append(channel[sensor], new)
       /\ \A i \in Indices \ {sensor} : channel'[i] = channel[i]
  BY <1>1, <1>2, <1>9, <1>11 DEF new
<1>13. ASSUME NEW i \in Indices, NEW p \in Range(channel'[i])
       PROVE  p \in Range(channel[i]) \/ (p = new /\ i = sensor)
  <2>1. CASE i # sensor
    BY <1>12, <1>13, <2>1
  <2>2. CASE i = sensor
    BY <1>9, <1>12, <1>13, <2>2 DEF Range
  <2> QED
    BY <2>1, <2>2
<1>14. OnAir'
  <2>1. thread' = thread /\ clock' = clock
    BY <1>2 DEF receiver
  <2>2. \A w \in DOMAIN wakes : wakes'[w].last \in {wakes[w].last, clock}
    BY <1>7, <1>8
  <2>3. ASSUME NEW i \in Indices, NEW p \in Range(channel[i])
        PROVE  Genuine(p)' /\ p.index = i /\ (thread'[i] # Dead => wakes'[p.wake].last = clock')
    BY <1>6, <1>8, <2>1, <2>2, OnAirKept
  <2>4. ASSUME NEW i \in Indices, NEW p \in Range(channel'[i])
        PROVE  Genuine(p)' /\ p.index = i /\ (thread'[i] # Dead => wakes'[p.wake].last = clock')
    <3>1. CASE p = new /\ i = sensor
      BY <1>7, <1>8, <1>9, <1>10, <2>1, <3>1
    <3> QED
      BY <1>13, <2>3, <2>4, <3>1
  <2> QED
    BY <1>12, <2>4 DEF OnAir
<1>15. Ordered'
  <2>1. ASSUME NEW i \in Indices, NEW p \in Range(channel[i]) PROVE p.wake <= Last
    <3>1. p.wake \in DOMAIN wakes
      BY DEF LoRaInv, OnAir, Genuine
    <3> QED
      BY <1>2, <3>1, CycleTimes
  <2>2. ASSUME NEW i \in Indices, NEW m \in DOMAIN channel'[i], NEW n \in DOMAIN channel'[i], m < n
        PROVE  channel'[i][m].wake <= channel'[i][n].wake
    <3>1. CASE i # sensor
      BY <1>12, <2>2, <3>1 DEF LoRaInv, Ordered
    <3>2. CASE i = sensor /\ n \in DOMAIN channel[i]
      <4>1. /\ m \in DOMAIN channel[i] /\ channel'[i][m] = channel[i][m]
            /\ channel'[i][n] = channel[i][n]
        BY <1>12, <2>2, <3>2
      <4> QED
        BY <2>2, <3>2, <4>1 DEF LoRaInv, Ordered
    <3>3. CASE i = sensor /\ n \notin DOMAIN channel[i]
      <4>1. /\ m \in DOMAIN channel[i] /\ channel'[i][m] = channel[i][m]
            /\ channel'[i][n] = new
        BY <1>12, <2>2, <3>3
      <4>2. channel[i][m] \in Range(channel[i])
        BY <4>1 DEF Range
      <4> QED
        BY <1>9, <2>1, <4>1, <4>2
    <3> QED
      BY <3>1, <3>2, <3>3
  <2>3. ASSUME NEW k \in DOMAIN assemblies, NEW q \in assemblies[k].packets,
               NEW p \in Range(channel'[q.index])
        PROVE  q.wake <= p.wake
    <3>1. Genuine(q) /\ q.index \in Indices /\ q.wake \in DOMAIN wakes
      BY DEF LoRaInv, Assembling, Fed, Genuine, Packets
    <3>2. q.wake <= Last
      BY <1>2, <3>1, CycleTimes
    <3>3. p \in Range(channel[q.index]) \/ p = new
      BY <1>13, <2>3, <3>1
    <3> QED
      BY <1>9, <3>2, <3>3 DEF LoRaInv, Ordered
  <2>4. assemblies' = assemblies
    BY <1>2 DEF receiver
  <2> QED
    BY <2>2, <2>3, <2>4 DEF Ordered
<1>16. Assembling' /\ Readings'
  <2>1. clock' >= clock
    BY <1>3
  <2> QED
    BY <1>2, <1>6, <1>8, <2>1, ReceiverKept
<1> QED
  BY <1>3, <1>7, <1>8, <1>14, <1>15, <1>16 DEF LoRaInv, S

-----------------------------------------------------------------------------
(* What _expire_locked leaves.                                             *)
LEMMA UnexpiredKept ==
  ASSUME LoRaInv
  PROVE  /\ DOMAIN Unexpired \subseteq DOMAIN assemblies
         /\ \A k \in DOMAIN Unexpired : /\ Unexpired[k] = assemblies[k] /\ Fed(k, Unexpired[k])
                                        /\ ~Decodes(Unexpired[k].residues)
                                        /\ clock - Unexpired[k].first_seen < Timeout
<1>1. /\ DOMAIN Unexpired = {l \in DOMAIN assemblies : ~Expired(assemblies[l])}
      /\ \A k \in DOMAIN Unexpired : Unexpired[k] = assemblies[k]
  BY DEF Unexpired
<1>2. ASSUME NEW k \in DOMAIN Unexpired
      PROVE  /\ Fed(k, Unexpired[k]) /\ ~Decodes(Unexpired[k].residues)
             /\ clock - Unexpired[k].first_seen < Timeout
  <2>1. Fed(k, assemblies[k]) /\ ~Decodes(assemblies[k].residues) /\ ~Expired(assemblies[k])
    BY <1>1 DEF LoRaInv, Assembling
  <2>2. assemblies[k].first_seen \in Nat /\ clock \in Nat
    BY <2>1 DEF Fed, LoRaInv, Cycles
  <2> QED
    BY <1>1, <2>1, <2>2, Constants DEF Expired
<1> QED
  BY <1>1, <1>2

(* What the packet joins is an assembly of its key that has not expired.   *)
LEMMA JoinedFed ==
  ASSUME LoRaInv, NEW i \in Indices, thread[i] # Dead, NEW p \in Range(channel[i]),
         NEW joined, joined = Joined(Unexpired, p)
  PROVE  /\ Fed(p.key, joined) /\ p \in joined.packets
         /\ p.index \in DOMAIN joined.residues
         /\ p.key \in DOMAIN Unexpired =>
              /\ DOMAIN Unexpired[p.key].residues \subseteq DOMAIN joined.residues
              /\ joined.packets = Unexpired[p.key].packets \cup {p}
              /\ joined.first_seen = Unexpired[p.key].first_seen
         /\ p.key \notin DOMAIN Unexpired => joined.packets = {p} /\ joined.first_seen = clock
<1> DEFINE old == IF p.key \in DOMAIN Unexpired THEN Unexpired[p.key]
                  ELSE [first_seen |-> clock, residues |-> [j \in {} |-> 0], packets |-> {}]
<1>1. /\ Genuine(p) /\ p \in Packets /\ p.index = i /\ p.residue \in Nat
      /\ wakes[p.wake].last = clock /\ p.wake \in DOMAIN wakes
  BY DEF LoRaInv, OnAir, Genuine, Packets
<1>2. /\ clock \in Nat /\ wakes[p.wake].woke \in Nat /\ wakes[p.wake].woke <= clock
  BY <1>1, CycleTimes DEF LoRaInv
<1>3. /\ old \in [first_seen : Nat, residues : Residues, packets : SUBSET Packets]
      /\ old.first_seen <= clock /\ clock < old.first_seen + Timeout
      /\ old.packets = {} => old.first_seen = clock
      /\ old.packets # {} => \E q \in old.packets : wakes[q.wake].woke <= old.first_seen
      /\ \A q \in old.packets :
           /\ Genuine(q) /\ q.key = p.key /\ old.first_seen <= wakes[q.wake].last
           /\ wakes[q.wake].woke < old.first_seen + Timeout
      /\ DOMAIN old.residues = Heard(old.packets)
      /\ \A j \in DOMAIN old.residues :
           \E q \in old.packets : q.index = j /\ q.residue = old.residues[j]
  <2>1. CASE p.key \in DOMAIN Unexpired
    <3>1. old = Unexpired[p.key] /\ Fed(p.key, old) /\ clock - old.first_seen < Timeout
      BY <2>1, UnexpiredKept
    <3> HIDE DEF old
    <3>2. old.first_seen \in Nat
      BY <3>1 DEF Fed
    <3>3. clock < old.first_seen + Timeout
      BY <1>2, <3>1, <3>2, Constants
    <3>4. old.packets # {}
      BY <3>1 DEF Fed
    <3> QED
      BY <3>1, <3>3, <3>4 DEF Fed
  <2>2. CASE p.key \notin DOMAIN Unexpired
    <3>1. old = [first_seen |-> clock, residues |-> [j \in {} |-> 0], packets |-> {}]
      BY <2>2
    <3>2. [j \in {} |-> 0] \in [{} -> Nat] /\ {} \in SUBSET Indices
      OBVIOUS
    <3>3. [j \in {} |-> 0] \in Residues
      BY <3>2 DEF Residues
    <3>4. clock < clock + Timeout
      BY <1>2, Constants
    <3> QED
      BY <1>2, <3>1, <3>3, <3>4 DEF Heard
  <2> QED
    BY <2>1, <2>2
<1>4. joined = [old EXCEPT !.residues = With(@, p.index, p.residue), !.packets = @ \cup {p}]
  BY DEF Joined
<1>5. /\ p.key \in DOMAIN Unexpired => Unexpired[p.key] = old
      /\ p.key \notin DOMAIN Unexpired => old.packets = {} /\ old.first_seen = clock
  OBVIOUS
<1> HIDE DEF old
<1> DEFINE res == [x \in {i} \cup DOMAIN old.residues |-> IF x = i THEN p.residue ELSE old.residues[x]]
<1>6. /\ old.residues \in Residues /\ old.packets \subseteq Packets /\ old.first_seen \in Nat
      /\ old = [first_seen |-> old.first_seen, residues |-> old.residues, packets |-> old.packets]
  BY <1>3
<1>7. With(old.residues, p.index, p.residue) = res
  BY <1>1 DEF With
<1>8. res \in Residues
  <2>1. PICK I \in SUBSET Indices : old.residues \in [I -> Nat]
    BY <1>6 DEF Residues
  <2>2. res \in [{i} \cup I -> Nat] /\ {i} \cup I \in SUBSET Indices
    BY <1>1, <2>1
  <2> QED
    BY <2>2 DEF Residues
<1>9. joined = [first_seen |-> old.first_seen, residues |-> res, packets |-> old.packets \cup {p}]
  BY <1>4, <1>6, <1>7
<1>10. /\ DOMAIN res = {i} \cup DOMAIN old.residues /\ res[i] = p.residue
       /\ \A x \in DOMAIN old.residues \ {i} : res[x] = old.residues[x]
  OBVIOUS
<1> HIDE DEF res
<1>11. /\ joined \in [first_seen : Nat, residues : Residues, packets : SUBSET Packets]
       /\ joined.first_seen = old.first_seen /\ joined.residues = res
       /\ joined.packets = old.packets \cup {p}
  BY <1>1, <1>6, <1>8, <1>9
<1>12. ASSUME NEW q \in joined.packets
       PROVE  /\ Genuine(q) /\ q.key = p.key /\ joined.first_seen <= wakes[q.wake].last
              /\ wakes[q.wake].woke < joined.first_seen + Timeout
  <2>1. CASE q \in old.packets
    BY <1>3, <1>11, <2>1
  <2>2. CASE q = p
    <3>1. wakes[p.wake].woke < old.first_seen + Timeout
      BY <1>2, <1>3, <1>6, Constants
    <3> QED
      BY <1>1, <1>3, <1>11, <2>2, <3>1
  <2> QED
    BY <1>11, <2>1, <2>2
<1>13. \A j \in DOMAIN res : \E q \in joined.packets : q.index = j /\ q.residue = res[j]
  BY <1>1, <1>3, <1>10, <1>11
<1>14. \E q \in joined.packets : wakes[q.wake].woke <= joined.first_seen
  BY <1>2, <1>3, <1>11
<1>15. Fed(p.key, joined)
  <2>1. DOMAIN joined.residues = Heard(joined.packets)
    BY <1>1, <1>3, <1>10, <1>11 DEF Heard
  <2>2. joined.first_seen <= clock
    BY <1>3, <1>11
  <2>3. \A j \in DOMAIN joined.residues :
          \E q \in joined.packets : q.index = j /\ q.residue = joined.residues[j]
    BY <1>11, <1>13
  <2> QED
    BY <1>11, <1>12, <1>14, <2>1, <2>2, <2>3 DEF Fed
<1> QED
  BY <1>1, <1>5, <1>10, <1>11, <1>15

-----------------------------------------------------------------------------
(* Steps that leave the cycles as they are.                                *)
LEMMA CyclesSame ==
  ASSUME Cycles, UNCHANGED <<sensor, wakes, altered, clock>>
  PROVE  Cycles' /\ CyclesKept /\ Last' = Last
<1>1. Last' = Last
  BY DEF Last
<1>2. CyclesKept
  <2>1. \A w \in DOMAIN wakes : wakes[w].last <= wakes'[w].last
    BY CycleTimes
  <2> QED
    BY <2>1 DEF CyclesKept
<1> QED
  BY <1>1, <1>2 DEF Cycles

(* Expiry drops assemblies and nothing else.                               *)
LEMMA ExpireInv ==
  ASSUME LoRaInv, ExpireIncomplete, UNCHANGED clock
  PROVE  LoRaInv'
<1>1. /\ UNCHANGED <<sensor, wakes, altered, channel, assembled, thread, delivered, clock>>
      /\ assemblies' = Unexpired
  BY DEF ExpireIncomplete, radio
<1>2. Cycles' /\ OnAir' /\ Readings'
  <2>1. Cycles'
    BY <1>1, CyclesSame DEF LoRaInv
  <2>2. OnAir'
    BY <1>1 DEF LoRaInv, OnAir, Genuine, Intact
  <2>3. \A x : Genuinely(x) => Genuinely(x)'
    BY <1>1 DEF Genuinely, Genuine, Intact
  <2>4. Readings'
    BY <1>1, <2>3 DEF LoRaInv, Readings, Delivering
  <2> QED
    BY <2>1, <2>2, <2>4
<1>3. Assembling'
  <2>1. \A k, a : Fed(k, a) => Fed(k, a)'
    BY <1>1 DEF Fed, Genuine, Intact
  <2> QED
    BY <1>1, <2>1, UnexpiredKept DEF LoRaInv, Assembling
<1>4. Ordered'
  BY <1>1, UnexpiredKept DEF LoRaInv, Ordered
<1> QED
  BY <1>2, <1>3, <1>4 DEF LoRaInv

(* The clock moves on when no live thread has anything to do.              *)
LEMMA TickInv ==
  ASSUME LoRaInv, Tick
  PROVE  LoRaInv'
<1>1. /\ UNCHANGED <<sensor, wakes, altered, channel>> /\ UNCHANGED receiver
      /\ clock' = clock + 1 /\ clock \in Nat /\ clock' \in 0 .. MaxTime
  BY Constants DEF Tick, radio, LoRaInv, Cycles
<1>2. \A w \in DOMAIN wakes : /\ wakes[w].last \in Nat /\ wakes[w].woke \in Nat
                              /\ wakes[w].woke <= wakes[w].last /\ wakes[w].last <= clock
  BY CycleTimes DEF LoRaInv
<1>3. Cycles'
  <2>1. \A w \in DOMAIN wakes : wakes[w].last <= clock'
    BY <1>1, <1>2
  <2> QED
    BY <1>1, <2>1 DEF LoRaInv, Cycles, Last
<1>4. CyclesKept
  BY <1>1, <1>2 DEF CyclesKept
<1>5. OnAir'
  <2>1. ASSUME NEW i \in Indices, NEW p \in Range(channel[i]) PROVE thread[i] = Dead
    <3>1. thread[i] # Waiting
      BY DEF Tick, Range
    <3> QED
      BY <3>1 DEF Tick, LoRaInv, Readings, Delivering
  <2> QED
    BY <1>1, <2>1 DEF LoRaInv, OnAir, Genuine, Intact, receiver
<1>6. Assembling' /\ Readings'
  <2>1. clock' >= clock
    BY <1>1
  <2> QED
    BY <1>1, <1>3, <1>4, <2>1, ReceiverKept
<1>7. Ordered'
  BY <1>1 DEF LoRaInv, Ordered, receiver
<1> QED
  BY <1>3, <1>5, <1>6, <1>7 DEF LoRaInv

(* The reading leaves its thread for the queue.                            *)
LEMMA DeliverInv ==
  ASSUME LoRaInv, NEW i \in Indices, Deliver(i), UNCHANGED clock
  PROVE  LoRaInv'
<1>1. /\ UNCHANGED <<sensor, wakes, altered, channel, assemblies, assembled, clock>>
      /\ thread' = [thread EXCEPT ![i] = Waiting] /\ Delivering(i) /\ DOMAIN thread = Indices
      /\ delivered' = Append(delivered, thread[i].reading)
  BY DEF Deliver, radio, Delivering, LoRaInv, Readings
<1>2. DOMAIN thread' = Indices /\ thread'[i] = Waiting /\ \A j \in Indices \ {i} : thread'[j] = thread[j]
  BY <1>1
<1>3. Cycles'
  BY <1>1, CyclesSame DEF LoRaInv
<1>4. OnAir'
  <2>1. thread[i] # Dead
    BY <1>1 DEF Delivering, Dead
  <2>2. ASSUME NEW j \in Indices, thread'[j] # Dead PROVE thread[j] # Dead
    BY <1>2, <2>1, <2>2
  <2> QED
    BY <1>1, <2>2 DEF LoRaInv, OnAir, Genuine, Intact
<1>5. Assembling'
  BY <1>1 DEF LoRaInv, Assembling, Fed, Genuine, Intact
<1>6. Readings'
  <2> DEFINE r == thread[i].reading
             n == Len(delivered) + 1
  <2>1. Genuinely(r) /\ \A m \in DOMAIN delivered : delivered[m].key # r.key
    BY <1>1 DEF LoRaInv, Readings
  <2>2. \A x : Genuinely(x) => Genuinely(x)'
    BY <1>1 DEF Genuinely, Genuine, Intact
  <2> HIDE DEF r
  <2>3. PICK S : delivered \in Seq(S)
    BY DEF LoRaInv, Readings
  <2>4. delivered' = Append(delivered, r) /\ delivered \in Seq(S \cup {r})
    BY <1>1, <2>3 DEF r
  <2>5. /\ delivered' \in Seq(S \cup {r}) /\ DOMAIN delivered' = DOMAIN delivered \cup {n}
        /\ delivered'[n] = r /\ \A m \in DOMAIN delivered : delivered'[m] = delivered[m]
    BY <2>4
  <2> HIDE DEF n
  <2>6. \A j \in Indices : Delivering(j)' => /\ j # i /\ Delivering(j) /\ thread'[j] = thread[j]
                                             /\ thread[j].reading.key # r.key
    BY <1>1, <1>2 DEF Delivering, Waiting, r, LoRaInv, Readings
  <2>7. \A m \in DOMAIN delivered' : Genuinely(delivered'[m])
    BY <2>1, <2>5 DEF LoRaInv, Readings
  <2>8. \A m, l \in DOMAIN delivered' : delivered'[m].key = delivered'[l].key => m = l
    BY <2>1, <2>5 DEF LoRaInv, Readings
  <2>9. \A j \in Indices, m \in DOMAIN delivered' :
           Delivering(j)' => thread'[j].reading.key # delivered'[m].key
    BY <2>5, <2>6 DEF LoRaInv, Readings
  <2>10. /\ \A j \in Indices : thread'[j] \in {Waiting, Dead} \/ Delivering(j)'
         /\ \A j \in Indices : Delivering(j)' => Genuinely(thread'[j].reading)
         /\ \A j, k \in Indices : Delivering(j)' /\ Delivering(k)'
              /\ thread'[j].reading.key = thread'[k].reading.key => j = k
    <3>1. \A j \in Indices : thread'[j] \in {Waiting, Dead} \/ Delivering(j)'
      BY <1>2 DEF LoRaInv, Readings, Delivering
    <3>2. \A j \in Indices : Delivering(j)' => Genuinely(thread'[j].reading)
      BY <2>6 DEF LoRaInv, Readings
    <3>3. \A j, k \in Indices : Delivering(j)' /\ Delivering(k)'
              /\ thread'[j].reading.key = thread'[k].reading.key => j = k
      BY <2>6 DEF LoRaInv, Readings
    <3> QED
      BY <3>1, <3>2, <3>3
  <2>11. assembled' \subseteq Keys
    BY <1>1 DEF LoRaInv, Readings
  <2> QED
    BY <1>2, <2>2, <2>5, <2>7, <2>8, <2>9, <2>10, <2>11 DEF Readings
<1>7. Ordered'
  BY <1>1 DEF LoRaInv, Ordered
<1> QED
  BY <1>3, <1>4, <1>5, <1>6, <1>7 DEF LoRaInv

(* A received packet is dropped, kept in its key's assembly, or completes  *)
(* the key's one reading.                                                  *)
LEMMA ReceiveInv ==
  ASSUME LoRaInv, NEW i \in Indices, Receive(i), UNCHANGED clock
  PROVE  LoRaInv'
<1>1. /\ UNCHANGED <<sensor, wakes, altered, delivered, clock>>
      /\ thread[i] = Waiting /\ channel[i] # <<>> /\ DOMAIN thread = Indices
      /\ channel' = [channel EXCEPT ![i] = Tail(channel[i])]
      /\ channel \in [Indices -> Seq(Packets)]
  BY DEF Receive, radio, LoRaInv, Readings, OnAir
<1>2. thread[i] # Dead /\ ~Delivering(i)
  BY <1>1 DEF Waiting, Dead, Delivering
<1>3. PICK p : p = Head(channel[i])
  OBVIOUS
<1>4. PICK joined : joined = Joined(Unexpired, p)
  OBVIOUS
<1>5. p \in Range(channel[i]) /\ Genuine(p) /\ p \in Packets /\ p.key \in Keys
  <2>1. channel[i] \in Seq(Packets)
    BY <1>1
  <2>2. p \in Range(channel[i])
    BY <1>1, <1>3, <2>1 DEF Range
  <2>3. Genuine(p)
    BY <2>2 DEF LoRaInv, OnAir
  <2> QED
    BY <2>2, <2>3 DEF Genuine, Packets
<1>6. /\ Fed(p.key, joined) /\ p \in joined.packets
      /\ \A q \in joined.packets :
           q = p \/ (p.key \in DOMAIN Unexpired /\ q \in Unexpired[p.key].packets)
  BY <1>2, <1>4, <1>5, JoinedFed
<1>7. PICK kept : kept = With(Unexpired, p.key, joined)
  OBVIOUS
<1>8. /\ DOMAIN kept = DOMAIN Unexpired \cup {p.key} /\ kept[p.key] = joined
      /\ \A k \in DOMAIN Unexpired \ {p.key} : kept[k] = Unexpired[k]
  BY <1>7 DEF With
<1> PICK r : r = Reading(p.key, joined)
  OBVIOUS
<1> DEFINE Dropped == p.key \in assembled /\ assemblies' = Unexpired /\ UNCHANGED <<assembled, thread>>
           Few == /\ p.key \notin assembled /\ ~Enough(joined)
                  /\ assemblies' = kept /\ UNCHANGED <<assembled, thread>>
           Bad == /\ p.key \notin assembled /\ ~Decodes(joined.residues) /\ assemblies' = kept
                  /\ thread' = [thread EXCEPT ![i] = Dead] /\ UNCHANGED assembled
           Complete == /\ p.key \notin assembled /\ Decodes(joined.residues)
                       /\ assemblies' = Without(kept, p.key) /\ assembled' = assembled \cup {p.key}
                       /\ thread' = [thread EXCEPT ![i] = [pc |-> "deliver", reading |-> r]]
<1>9. Dropped \/ Few \/ Bad \/ Complete
  BY <1>3, <1>4, <1>7 DEF Receive, Remember
<1> HIDE DEF Dropped, Few, Bad, Complete
<1>10. Cycles'
  BY <1>1, CyclesSame DEF LoRaInv
<1>11. /\ DOMAIN thread' = Indices
       /\ \A j \in Indices \ {i} : thread'[j] = thread[j]
  BY <1>1, <1>9 DEF Dropped, Few, Bad, Complete
<1>12. OnAir'
  <2>1. channel' \in [Indices -> Seq(Packets)] /\ channel[i] \in Seq(Packets)
    BY <1>1
  <2>2. Range(Tail(channel[i])) \subseteq Range(channel[i])
    BY <1>1, <2>1 DEF Range
  <2>3. ASSUME NEW j \in Indices, NEW q \in Range(channel'[j])
        PROVE  q \in Range(channel[j]) /\ (thread'[j] # Dead => thread[j] # Dead)
    BY <1>1, <1>2, <1>11, <2>2, <2>3
  <2>4. \A q : Genuine(q) => Genuine(q)'
    BY <1>1 DEF Genuine, Intact
  <2>5. ASSUME NEW j \in Indices, NEW q \in Range(channel'[j])
        PROVE  Genuine(q)' /\ q.index = j /\ (thread'[j] # Dead => wakes'[q.wake].last = clock')
    BY <1>1, <2>3, <2>4 DEF LoRaInv, OnAir
  <2> QED
    BY <2>1, <2>5 DEF OnAir
<1>13. Assembling'
  <2>1. \A k, a : Fed(k, a) => Fed(k, a)'
    BY <1>1 DEF Fed, Genuine, Intact
  <2>2. /\ DOMAIN Unexpired \subseteq Keys \ assembled
        /\ \A k \in DOMAIN Unexpired : Fed(k, Unexpired[k]) /\ ~Decodes(Unexpired[k].residues)
    BY UnexpiredKept DEF LoRaInv, Assembling
  <2>3. CASE Dropped
    BY <2>1, <2>2, <2>3 DEF Dropped, Assembling
  <2>4. CASE Few \/ Bad
    <3>1. ~Decodes(joined.residues)
      BY <2>4 DEF Few, Bad, Decodes, Enough
    <3> QED
      BY <1>5, <1>6, <1>8, <2>1, <2>2, <2>4, <3>1 DEF Few, Bad, Assembling
  <2>5. CASE Complete
    <3>1. /\ DOMAIN assemblies' \subseteq DOMAIN Unexpired \ {p.key}
          /\ \A k \in DOMAIN assemblies' : assemblies'[k] = Unexpired[k]
      BY <1>8, <2>5 DEF Complete, Without
    <3> QED
      BY <2>1, <2>2, <2>5, <3>1 DEF Complete, Assembling
  <2> QED
    BY <1>9, <2>3, <2>4, <2>5
<1>14. \A x : Genuinely(x) => Genuinely(x)'
  <2>1. assembled \subseteq assembled'
    BY <1>9 DEF Dropped, Few, Bad, Complete
  <2>2. Cycles /\ CyclesKept
    BY <1>1, CyclesSame DEF LoRaInv
  <2> QED
    BY <1>1, <1>10, <2>1, <2>2, GenuinelyKept
<1>17. Ordered'
  <2>1. /\ channel[i] \in Seq(Packets) /\ channel'[i] = Tail(channel[i])
        /\ \A j \in Indices \ {i} : channel'[j] = channel[j]
    BY <1>1
  <2>2. /\ Len(channel[i]) \in Nat \ {0} /\ DOMAIN channel[i] = 1 .. Len(channel[i])
        /\ DOMAIN channel'[i] = 1 .. Len(channel[i]) - 1 /\ p = channel[i][1]
        /\ \A n \in DOMAIN channel'[i] : channel'[i][n] = channel[i][n + 1]
    BY <1>1, <1>3, <2>1
  <2>3. ASSUME NEW j \in Indices, NEW m \in DOMAIN channel'[j], NEW n \in DOMAIN channel'[j], m < n
        PROVE  channel'[j][m].wake <= channel'[j][n].wake
    <3>1. CASE j # i
      BY <2>1, <2>3, <3>1 DEF LoRaInv, Ordered
    <3>2. CASE j = i
      <4>1. /\ m + 1 \in DOMAIN channel[i] /\ n + 1 \in DOMAIN channel[i] /\ m + 1 < n + 1
            /\ channel'[j][m] = channel[i][m + 1] /\ channel'[j][n] = channel[i][n + 1]
        BY <2>2, <2>3, <3>2, SMTT(30)
      <4> QED
        BY <4>1 DEF LoRaInv, Ordered
    <3> QED
      BY <3>1, <3>2
  <2>4. ASSUME NEW q \in Range(channel'[i]) PROVE p.wake <= q.wake /\ q \in Range(channel[i])
    <3>1. PICK n \in DOMAIN channel'[i] : q = channel'[i][n]
      BY <2>4 DEF Range
    <3>2. /\ n + 1 \in DOMAIN channel[i] /\ 1 \in DOMAIN channel[i] /\ 1 < n + 1
          /\ q = channel[i][n + 1]
      BY <2>2, <3>1
    <3> QED
      BY <2>2, <3>2 DEF LoRaInv, Ordered, Range
  <2>5. ASSUME NEW k \in DOMAIN assemblies', NEW q \in assemblies'[k].packets
        PROVE  q = p \/ (k \in DOMAIN Unexpired /\ q \in Unexpired[k].packets)
    <3>1. assemblies' = Unexpired \/ assemblies' = kept \/ assemblies' = Without(kept, p.key)
      BY <1>9 DEF Dropped, Few, Bad, Complete
    <3> QED
      BY <1>6, <1>8, <2>5, <3>1 DEF Without
  <2>6. ASSUME NEW k \in DOMAIN assemblies', NEW q \in assemblies'[k].packets,
               NEW x \in Range(channel'[q.index])
        PROVE  q.wake <= x.wake
    <3>1. CASE q = p
      <4>1. p.index = i
        BY <1>5 DEF LoRaInv, OnAir
      <4> QED
        BY <2>4, <2>6, <3>1, <4>1
    <3>2. CASE k \in DOMAIN Unexpired /\ q \in Unexpired[k].packets
      <4>1. k \in DOMAIN assemblies /\ q \in assemblies[k].packets
        BY <3>2, UnexpiredKept
      <4>2. q.index \in Indices
        BY <4>1 DEF LoRaInv, Assembling, Fed, Packets
      <4>3. x \in Range(channel[q.index])
        BY <2>1, <2>4, <2>6, <4>2
      <4> QED
        BY <4>1, <4>3 DEF LoRaInv, Ordered
    <3> QED
      BY <2>5, <3>1, <3>2
  <2> QED
    BY <2>3, <2>6 DEF Ordered
<1>15. CASE Dropped \/ Few \/ Bad
  <2>1. assembled' = assembled /\ delivered' = delivered
    BY <1>1, <1>15 DEF Dropped, Few, Bad
  <2>2. \A j \in Indices : thread'[j] = thread[j] \/ thread'[j] = Dead
    BY <1>1, <1>15 DEF Dropped, Few, Bad
  <2>3. \A j \in Indices : Delivering(j)' => Delivering(j) /\ thread'[j] = thread[j]
    BY <2>2 DEF Delivering, Dead
  <2>4. ASSUME NEW j \in Indices PROVE thread'[j] \in {Waiting, Dead} \/ Delivering(j)'
    <3>1. CASE thread'[j] = thread[j]
      BY <3>1 DEF LoRaInv, Readings, Delivering
    <3> QED
      BY <2>2, <3>1
  <2>5. /\ \A j \in Indices : Delivering(j)' => Genuinely(thread[j].reading)'
        /\ \A n \in DOMAIN delivered : Genuinely(delivered[n])'
    <3>1. ASSUME NEW j \in Indices, Delivering(j)' PROVE Genuinely(thread[j].reading)'
      <4>1. PICK x : x = thread[j].reading
        OBVIOUS
      <4>2. Genuinely(x)' /\ x = thread'[j].reading
        BY <1>14, <2>3, <3>1, <4>1 DEF LoRaInv, Readings
      <4> QED
        BY <4>2
    <3>2. ASSUME NEW n \in DOMAIN delivered PROVE Genuinely(delivered[n])'
      <4>1. PICK x : x = delivered[n]
        OBVIOUS
      <4>2. Genuinely(x)' /\ x = delivered'[n]
        BY <1>14, <2>1, <4>1 DEF LoRaInv, Readings
      <4> QED
        BY <4>2
    <3> QED
      BY <3>1, <3>2
  <2>6. Readings'
    <3>1. /\ \A j, k \in Indices :
               Delivering(j)' /\ Delivering(k)' /\ thread'[j].reading.key = thread'[k].reading.key => j = k
          /\ \A j \in Indices, n \in DOMAIN delivered :
               Delivering(j)' => thread'[j].reading.key # delivered[n].key
      BY <2>3 DEF LoRaInv, Readings
    <3>2. /\ assembled \subseteq Keys
          /\ \A m, n \in DOMAIN delivered : delivered[m].key = delivered[n].key => m = n
      BY DEF LoRaInv, Readings
    <3>3. delivered' = delivered /\ assembled' = assembled
      BY <2>1
    <3>4. PICK S : delivered \in Seq(S)
      BY DEF LoRaInv, Readings
    <3>5. delivered' \in Seq(S)
      BY <3>3, <3>4
    <3> QED
      BY <1>11, <2>4, <2>5, <3>1, <3>2, <3>3, <3>5 DEF Readings
  <2> QED
    BY <1>10, <1>12, <1>13, <1>17, <2>6 DEF LoRaInv
<1>16. CASE Complete
  <2>1. Genuinely(r)'
    <3>1. r.key = p.key /\ r.packets = joined.packets /\ r.value = decode(joined.residues)
      BY DEF Reading
    <3>2. r.packets # {} /\ \A q \in r.packets : Genuine(q) /\ q.key = r.key
      BY <1>6, <3>1 DEF Fed
    <3>3. ASSUME NEW w \in DOMAIN wakes, \A q \in r.packets : Intact(q) /\ q.wake = w
          PROVE  \E I \in SUBSET Indices :
                   /\ Cardinality(I) >= 2 /\ I = Heard(r.packets)
                   /\ r.value = decode([j \in I |-> encode(wakes[w].value)[j]])
      <4> DEFINE I == DOMAIN joined.residues
      <4>1. I \in SUBSET Indices /\ joined.residues = [j \in I |-> joined.residues[j]]
        <5>1. joined.residues \in Residues
          BY <1>6 DEF Fed
        <5> QED
          BY <5>1 DEF Residues
      <4>2. Cardinality(I) >= 2 /\ I = Heard(r.packets)
        BY <1>6, <1>16, <3>1 DEF Complete, Decodes, Fed
      <4>3. joined.residues = [j \in I |-> encode(wakes[w].value)[j]]
        <5>1. ASSUME NEW j \in I PROVE joined.residues[j] = encode(wakes[w].value)[j]
          <6>1. PICK q2 \in joined.packets : q2.index = j /\ q2.residue = joined.residues[j]
            BY <1>6 DEF Fed
          <6> QED
            BY <3>1, <3>3, <6>1 DEF Intact
        <5> QED
          BY <4>1, <5>1
      <4> HIDE DEF I
      <4> QED
        BY <3>1, <4>1, <4>2, <4>3
    <3>4. r.key \in assembled'
      BY <1>16, <3>1 DEF Complete
    <3>5. ASSUME NEW q1 \in r.packets, NEW q2 \in r.packets
          PROVE  wakes[q2.wake].woke < wakes[q1.wake].last + Timeout
      <4>1. /\ wakes[q2.wake].woke < joined.first_seen + Timeout
            /\ joined.first_seen <= wakes[q1.wake].last /\ joined.first_seen \in Nat
            /\ q1.wake \in DOMAIN wakes /\ q2.wake \in DOMAIN wakes
        BY <1>6, <3>1 DEF Fed, Genuine
      <4>2. wakes[q2.wake].woke \in Nat /\ wakes[q1.wake].last \in Nat
        BY <4>1, CycleTimes DEF LoRaInv
      <4> QED
        BY <4>1, <4>2, Constants
    <3>6. wakes' = wakes /\ altered' = altered
      BY <1>1
    <3>7. \A q : (Genuine(q) => Genuine(q)') /\ (Intact(q)' <=> Intact(q))
      BY <3>6 DEF Genuine, Intact
    <3>8. ASSUME NEW w \in DOMAIN wakes', \A q \in r.packets : Intact(q)' /\ q.wake = w
          PROVE  \E I \in SUBSET Indices :
                   /\ Cardinality(I) >= 2 /\ I = Heard(r.packets)
                   /\ r.value = decode([j \in I |-> encode(wakes'[w].value)[j]])
      BY <3>3, <3>6, <3>7, <3>8
    <3> QED
      BY <3>2, <3>4, <3>5, <3>6, <3>7, <3>8 DEF Genuinely
  <2>2. /\ thread'[i].pc = "deliver" /\ thread'[i].reading = r /\ r.key = p.key
        /\ p.key \notin assembled /\ assembled' \subseteq Keys
    BY <1>1, <1>5, <1>16 DEF Complete, Reading, LoRaInv, Readings
  <2>3. \A j \in Indices : /\ Delivering(j)' => j = i \/ (Delivering(j) /\ thread'[j] = thread[j])
                           /\ Delivering(j) => thread[j].reading.key \in assembled
    BY <1>11 DEF Delivering, LoRaInv, Readings, Genuinely
  <2>4. \A n \in DOMAIN delivered : delivered[n].key \in assembled
    BY DEF LoRaInv, Readings, Genuinely
  <2>10. /\ \A j, k \in Indices : Delivering(j) /\ Delivering(k)
              /\ thread[j].reading.key = thread[k].reading.key => j = k
        /\ \A j \in Indices, n \in DOMAIN delivered :
              Delivering(j) => thread[j].reading.key # delivered[n].key
    BY DEF LoRaInv, Readings
  <2>5. ASSUME NEW j \in Indices PROVE thread'[j] \in {Waiting, Dead} \/ Delivering(j)'
    BY <1>11, <2>2 DEF LoRaInv, Readings, Delivering
  <2>6. ASSUME NEW j \in Indices, Delivering(j)' PROVE Genuinely(thread[j].reading)'
    <3>1. PICK x : x = thread'[j].reading
      OBVIOUS
    <3>2. Genuinely(x)'
      <4>1. CASE j = i
        BY <2>1, <2>2, <3>1, <4>1
      <4>2. CASE j # i
        <5>1. Delivering(j) /\ x = thread[j].reading
          BY <2>3, <2>6, <3>1, <4>2 DEF Delivering
        <5> QED
          BY <1>14, <5>1 DEF LoRaInv, Readings
      <4> QED
        BY <4>1, <4>2
    <3> QED
      BY <3>1, <3>2
  <2>7. ASSUME NEW j \in Indices, NEW k \in Indices, Delivering(j)', Delivering(k)',
               thread'[j].reading.key = thread'[k].reading.key
        PROVE  j = k
    BY <2>2, <2>3, <2>10, <2>7 DEF Delivering
  <2>8. ASSUME NEW j \in Indices, NEW n \in DOMAIN delivered, Delivering(j)'
        PROVE  thread'[j].reading.key # delivered[n].key
    BY <2>2, <2>3, <2>4, <2>10, <2>8 DEF Delivering
  <2>9. ASSUME NEW n \in DOMAIN delivered PROVE Genuinely(delivered[n])'
    <3>1. PICK x : x = delivered[n]
      OBVIOUS
    <3>2. Genuinely(x)' /\ delivered' = delivered
      BY <1>1, <1>14, <3>1 DEF LoRaInv, Readings
    <3> QED
      BY <3>1, <3>2
  <2>11. Readings'
    <3>1. \A m, n \in DOMAIN delivered : delivered[m].key = delivered[n].key => m = n
      BY DEF LoRaInv, Readings
    <3>2. delivered' = delivered
      BY <1>1
    <3>3. PICK S : delivered \in Seq(S)
      BY DEF LoRaInv, Readings
    <3>4. delivered' \in Seq(S)
      BY <3>2, <3>3
    <3> QED
      BY <1>11, <2>2, <2>5, <2>6, <2>7, <2>8, <2>9, <3>1, <3>2, <3>4 DEF Readings
  <2> QED
    BY <1>10, <1>12, <1>13, <1>17, <2>11 DEF LoRaInv
<1> QED
  BY <1>9, <1>15, <1>16

(* Every step preserves the invariant.                                     *)
LEMMA LoRaNextInv == LoRaInv /\ [Next]_vars => LoRaInv'
<1> SUFFICES ASSUME LoRaInv, [Next]_vars PROVE LoRaInv'
  OBVIOUS
<1>1. ASSUME NEW k \in Keys, NEW v \in Values, Wake(k, v), UNCHANGED clock PROVE LoRaInv'
  BY <1>1, WakeInv
<1>2. CASE TransmitResidue /\ UNCHANGED clock
  BY <1>2, TransmitInv
<1>3. CASE Silence /\ UNCHANGED clock
  BY <1>3, SilenceInv
<1>4. CASE ExpireIncomplete /\ UNCHANGED clock
  BY <1>4, ExpireInv
<1>5. ASSUME NEW i \in Indices, Receive(i), UNCHANGED clock PROVE LoRaInv'
  BY <1>5, ReceiveInv
<1>6. ASSUME NEW i \in Indices, Deliver(i), UNCHANGED clock PROVE LoRaInv'
  BY <1>6, DeliverInv
<1>7. CASE Tick
  BY <1>7, TickInv
<1>8. CASE UNCHANGED vars
  <2>1. UNCHANGED <<sensor, wakes, altered, channel, assemblies, assembled, thread, delivered, clock>>
    BY <1>8 DEF vars, radio, receiver
  <2>2. OnAir' /\ Ordered'
    BY <2>1 DEF LoRaInv, OnAir, Ordered, Genuine, Intact
  <2>3. CyclesKept /\ Cycles'
    BY <2>1, CyclesSame DEF LoRaInv
  <2>4. Assembling' /\ Readings'
    <3>1. altered' = altered /\ clock' >= clock /\ UNCHANGED receiver
      BY <2>1, CycleTimes DEF receiver, LoRaInv
    <3> QED
      BY <2>3, <3>1, ReceiverKept
  <2> QED
    BY <2>2, <2>3, <2>4 DEF LoRaInv
<1> QED
  BY <1>1, <1>2, <1>3, <1>4, <1>5, <1>6, <1>7, <1>8 DEF Next, Silence

(* The receiver's invariant, for any number of keys, cycles and packets    *)
(* lost or altered.                                                        *)
THEOREM LoRaInvariance == Spec => []LoRaInv
BY LoRaInitInv, LoRaNextInv, PTL DEF Spec

(* The type invariant (lora_rx.py:103-131): a key is being assembled or    *)
(* was, and what is kept incomplete does not decode.                       *)
THEOREM ReceiverTypes == Spec => []ReceiverTypeOK
<1>1. LoRaInv => ReceiverTypeOK
  <2> SUFFICES ASSUME LoRaInv PROVE ReceiverTypeOK
    OBVIOUS
  <2>1. \A i \in Indices : thread[i] \in {Waiting, Dead}
          \/ (thread[i].pc = "deliver" /\ thread[i].reading.key \in assembled)
    BY DEF LoRaInv, Readings, Genuinely, Delivering
  <2>2. \A n \in DOMAIN delivered : delivered[n].key \in assembled
    BY DEF LoRaInv, Readings, Genuinely
  <2> QED
    BY <2>1, <2>2 DEF ReceiverTypeOK, LoRaInv, Cycles, Assembling, Readings
<1> QED
  BY <1>1, LoRaInvariance, PTL

(* A key is delivered once (lora_rx.py:107-118), whichever threads hold    *)
(* its residues and however often the id is drawn.                         *)
THEOREM KeysDeliveredOnce == Spec => []DeliveredOnce
<1>1. LoRaInv => DeliveredOnce
  BY DEF LoRaInv, Readings, DeliveredOnce
<1> QED
  BY <1>1, LoRaInvariance, PTL

(* A reading delivered from unaltered packets is what the device measured   *)
(* in one wake cycle, modulo the product of the moduli that arrived          *)
(* (lora_rx.py:107-131), the gateway's formula inverting the encoder for any *)
(* coprime moduli; residues of several cycles meet only when one id was      *)
(* drawn twice within the timeout and every cycle in between ended in a      *)
(* reboot (main.c:107-138), for any timeout a deep sleep is not shorter      *)
(* than.                                                                     *)
THEOREM ReadingsAreMeasured == Spec => []DeliveredIsMeasured
<1>1. ASSUME LoRaInv, NEW n \in DOMAIN delivered, NEW p \in delivered[n].packets,
             NEW q \in delivered[n].packets, p.wake < q.wake
      PROVE  /\ Overlaps(p.wake, q.wake)
             /\ \A u \in p.wake .. q.wake - 1 : wakes[u].end = "reboot"
  <2>1. /\ Genuine(p) /\ Genuine(q) /\ p.key = delivered[n].key /\ q.key = delivered[n].key
        /\ wakes[q.wake].woke < wakes[p.wake].last + Timeout
    BY <1>1 DEF LoRaInv, Readings, Genuinely
  <2>2. /\ p.wake \in DOMAIN wakes /\ q.wake \in DOMAIN wakes
        /\ wakes[p.wake].key = wakes[q.wake].key
    BY <2>1 DEF Genuine
  <2>3. wakes[q.wake].woke \in Nat /\ wakes[p.wake].last \in Nat
    BY <1>1, <2>2, CycleTimes DEF LoRaInv
  <2>4. wakes[q.wake].woke < wakes[p.wake].last + SleepCycle
    BY <2>1, <2>3, Constants
  <2>5. \A u \in p.wake .. q.wake - 1 : wakes[u].end = "reboot"
    BY <1>1, <2>2, <2>4 DEF LoRaInv, Cycles
  <2> QED
    BY <1>1, <2>1, <2>2, <2>5 DEF Overlaps
<1>2. ASSUME LoRaInv, NEW n \in DOMAIN delivered, NEW w \in DOMAIN wakes,
             \A p \in delivered[n].packets : Intact(p) /\ p.wake = w
      PROVE  delivered[n].value = wakes[w].value % ProductOf({q.index : q \in delivered[n].packets})
  <2>1. Genuinely(delivered[n])
    BY <1>2 DEF LoRaInv, Readings
  <2>2. PICK I \in SUBSET Indices :
          /\ Cardinality(I) >= 2 /\ I = {q.index : q \in delivered[n].packets}
          /\ delivered[n].value = decode([i \in I |-> encode(wakes[w].value)[i]])
    BY <1>2, <2>1 DEF Genuinely, Heard
  <2>3. PICK v \in Int : v = wakes[w].value
    <3>1. wakes[w].value \in Values
      BY <1>2, CycleTimes DEF LoRaInv
    <3>2. \A v \in Values : v \in Int
      BY ReceiverAssumption
    <3> QED
      BY <3>1, <3>2, Zenon
  <2>4. decode(Arriving(v, I)) = v % ProductOf(I)
    BY <2>2, DecodeInverts, Zenon
  <2> QED
    BY <2>2, <2>3, <2>4, Zenon DEF Arriving
<1>3. LoRaInv => DeliveredIsMeasured
  <2> SUFFICES ASSUME LoRaInv, NEW n \in DOMAIN delivered,
                      \A p \in delivered[n].packets : Intact(p)
               PROVE  /\ \A p, q \in delivered[n].packets : p.wake < q.wake =>
                           /\ Overlaps(p.wake, q.wake)
                           /\ \A u \in p.wake .. q.wake - 1 : wakes[u].end = "reboot"
                      /\ \A w \in DOMAIN wakes : (\A p \in delivered[n].packets : p.wake = w) =>
                           delivered[n].value
                             = wakes[w].value % ProductOf({p.index : p \in delivered[n].packets})
    BY Zenon DEF DeliveredIsMeasured
  <2>1. \A p, q \in delivered[n].packets : p.wake < q.wake =>
          /\ Overlaps(p.wake, q.wake)
          /\ \A u \in p.wake .. q.wake - 1 : wakes[u].end = "reboot"
    BY <1>1, Zenon
  <2>2. ASSUME NEW w \in DOMAIN wakes, \A p \in delivered[n].packets : p.wake = w
        PROVE  delivered[n].value
                 = wakes[w].value % ProductOf({p.index : p \in delivered[n].packets})
    BY <1>2, <2>2, Zenon
  <2> QED
    BY <2>1, <2>2, Zenon
<1> QED
  BY <1>3, LoRaInvariance, PTL

-----------------------------------------------------------------------------
(* What nothing altered loses.                                             *)

(* Two residues are enough to have two of three, and to decode.            *)
LEMMA Pairs ==
  ASSUME NEW I \in SUBSET Indices
  PROVE  /\ \A i, j \in I : i # j => Cardinality(I) >= 2
         /\ Cardinality(I) >= 2 =>
              /\ \E i, j \in I : i # j
              /\ \A i, j \in Indices : i # j => i \in I \/ j \in I
<1>1. IsFiniteSet(Indices)
  <2>1. 0 \in Int /\ 2 \in Int
    OBVIOUS
  <2>2. IsFiniteSet(0 .. 2)
    BY <2>1, FS_Interval
  <2> QED
    BY <2>2 DEF Indices
<1>2. IsFiniteSet(I) /\ Cardinality(I) \in Nat
  BY <1>1, FS_Subset, FS_CardinalityType
<1>3. ASSUME NEW i \in I, NEW j \in I, i # j PROVE Cardinality(I) >= 2
  <2>1. IsFiniteSet({i}) /\ Cardinality({i}) = 1
    BY FS_Singleton
  <2>2. IsFiniteSet({i} \cup {j}) /\ Cardinality({i} \cup {j}) = 2
    <3>1. j \notin {i}
      BY <1>3
    <3>2. IsFiniteSet({i} \cup {j}) /\ Cardinality({i} \cup {j}) = Cardinality({i}) + 1
      BY <2>1, <3>1, FS_AddElement
    <3> QED
      BY <2>1, <3>2
  <2>3. {i} \cup {j} \subseteq I
    OBVIOUS
  <2> QED
    BY <1>2, <2>2, <2>3, FS_Subset
<1>4. ASSUME NEW e \in Indices, I \subseteq {e} PROVE ~(Cardinality(I) >= 2)
  <2>1. IsFiniteSet({e}) /\ Cardinality({e}) = 1
    BY FS_Singleton
  <2>2. Cardinality(I) <= 1
    BY <1>4, <2>1, FS_Subset
  <2> QED
    BY <1>2, <2>2
<1>5. ASSUME Cardinality(I) >= 2 PROVE \E i, j \in I : i # j
  <2>1. \A e \in Indices : ~(I \subseteq {e})
    BY <1>4, <1>5
  <2>2. ~(I \subseteq {0})
    <3>1. 0 \in Indices
      BY DEF Indices
    <3> QED
      BY <2>1, <3>1
  <2>3. PICK i \in I : i # 0
    BY <2>2
  <2>4. ~(I \subseteq {i})
    BY <2>1
  <2> QED
    BY <2>4
<1>6. ASSUME Cardinality(I) >= 2, NEW i \in Indices, NEW j \in Indices, i # j
      PROVE  i \in I \/ j \in I
  <2> SUFFICES ASSUME i \notin I, j \notin I PROVE FALSE
    OBVIOUS
  <2>1. \E e \in Indices : \A x \in Indices : x = i \/ x = j \/ x = e
    <3>1. \A x \in Indices : x = 0 \/ x = 1 \/ x = 2
      BY DEF Indices
    <3>2. 0 \in Indices /\ 1 \in Indices /\ 2 \in Indices
      BY DEF Indices
    <3> QED
      BY <1>6, <3>1, <3>2
  <2>2. \E e \in Indices : I \subseteq {e}
    BY <2>1
  <2> QED
    BY <1>4, <1>6, <2>2
<1> QED
  BY <1>3, <1>5, <1>6

(* Unaltered residues are in range.                                        *)
LEMMA IntactInRange ==
  ASSUME LoRaInv, altered = 0, NEW k, NEW a, Fed(k, a)
  PROVE  InRange(a.residues) /\ DOMAIN a.residues \in SUBSET Indices
<1>1. DOMAIN a.residues \in SUBSET Indices
  <2>1. a.residues \in Residues
    BY DEF Fed
  <2> QED
    BY <2>1 DEF Residues
<1>2. ASSUME NEW i \in DOMAIN a.residues PROVE a.residues[i] \in 0 .. (Modulus[i] - 1)
  <2>1. PICK p \in a.packets : p.index = i /\ p.residue = a.residues[i]
    BY DEF Fed
  <2>2. Genuine(p) /\ Intact(p) /\ p.wake \in DOMAIN wakes
    BY <2>1 DEF Fed, Genuine
  <2>3. wakes[p.wake].value \in Values /\ i \in Indices
    BY <1>1, <2>2, CycleTimes DEF LoRaInv
  <2> QED
    BY <2>1, <2>2, <2>3, Constants DEF Intact
<1> QED
  BY <1>1, <1>2 DEF InRange

(* Readings made come from wake cycles.                                    *)
LEMMA MadeGenuinely ==
  ASSUME LoRaInv, NEW reading \in Made
  PROVE  Genuinely(reading)
BY DEF LoRaInv, Readings, Made, Range

(* A reading once made is there for the cycle from then on.                *)
LEMMA CoveredKept ==
  ASSUME CyclesKept, Made \subseteq Made', NEW w \in DOMAIN wakes, Covered(w)
  PROVE  Covered(w)'
BY DEF CyclesKept, Covered

(* An assembly begun since a young cycle woke has not expired.             *)
LEMMA YoungUnexpired ==
  ASSUME LoRaInv, NEW w \in DOMAIN wakes, Young(w), NEW k \in DOMAIN assemblies,
         wakes[w].woke <= assemblies[k].first_seen
  PROVE  k \in DOMAIN Unexpired /\ Unexpired[k] = assemblies[k]
<1> DEFINE a == assemblies[k]
<1>1. Fed(k, a)
  BY DEF LoRaInv, Assembling
<1>2. a.first_seen \in Nat /\ clock \in Nat /\ wakes[w].woke \in Nat
  BY <1>1, CycleTimes DEF Fed, LoRaInv
<1>3. wakes[w].woke <= a.first_seen
  OBVIOUS
<1> HIDE DEF a
<1>4. ~Expired(a)
  BY <1>2, <1>3, Constants DEF Expired, Young
<1> QED
  BY <1>4 DEF Unexpired, a

(* Once the air is clear, a young cycle with enough residues has its       *)
(* reading: an assembly with two would decode.                             *)
LEMMA SettledIsCovered ==
  ASSUME LoRaInv, LossInv, altered = 0, NEW w \in DOMAIN wakes, Young(w), Promised(w),
         \A i \in Indices : channel[i] = <<>>
  PROVE  Covered(w)
<1> SUFFICES ASSUME ~Covered(w) PROVE FALSE
  OBVIOUS
<1>1. Traced(w)
  BY DEF LossInv, NothingLost
<1>2. wakes[w].sent \in SUBSET Indices
  BY CycleTimes DEF LoRaInv
<1>3. \E i, j \in wakes[w].sent : i # j /\ Held(w, i) /\ Held(w, j)
  <2>1. CASE wakes[w].sent = Indices
    <3>1. 0 \in wakes[w].sent /\ 1 \in wakes[w].sent /\ 2 \in wakes[w].sent
      BY <2>1 DEF Indices
    <3>2. Held(w, 0) \/ Held(w, 1)
      BY <1>1, <3>1 DEF Traced
    <3>3. Held(w, 1) \/ Held(w, 2)
      BY <1>1, <3>1 DEF Traced
    <3>4. Held(w, 0) \/ Held(w, 2)
      BY <1>1, <3>1 DEF Traced
    <3> QED
      BY <3>1, <3>2, <3>3, <3>4
  <2>2. CASE Cardinality(wakes[w].sent) >= 2 /\ Alone(w)
    <3>1. \E i, j \in wakes[w].sent : i # j
      BY <1>2, <2>2, Pairs
    <3> QED
      BY <1>1, <2>2, <3>1 DEF Traced
  <2> QED
    BY <2>1, <2>2 DEF Promised, Alone
<1>4. PICK i \in wakes[w].sent, j \in wakes[w].sent : i # j /\ Held(w, i) /\ Held(w, j)
  BY <1>3
<1>5. i \in Indices /\ j \in Indices
  BY <1>2
<1>6. ~OnTheAir(w, i) /\ ~OnTheAir(w, j)
  BY <1>5 DEF OnTheAir, Range
<1> DEFINE a == assemblies[wakes[w].key]
<1>7. wakes[w].key \in DOMAIN assemblies /\ i \in DOMAIN a.residues /\ j \in DOMAIN a.residues
  BY <1>4, <1>6 DEF Held
<1>8. Fed(wakes[w].key, a) /\ ~Decodes(a.residues)
  BY <1>7 DEF LoRaInv, Assembling
<1> HIDE DEF a
<1>9. InRange(a.residues) /\ DOMAIN a.residues \in SUBSET Indices
  BY <1>8, IntactInRange
<1>10. Cardinality(DOMAIN a.residues) >= 2
  BY <1>4, <1>7, <1>9, Pairs
<1> QED
  BY <1>8, <1>9, <1>10 DEF Decodes

(* Initially there is nothing to lose.                                     *)
LEMMA LossInit == Init => LossInv
BY DEF Init, LossInv, Made, Waiting, Dead

(* A step of the radio: residues go on the air, and a cycle that goes on   *)
(* past its time is promised nothing any more.                             *)
LEMMA RadioLoss ==
  ASSUME LoRaInv, LoRaInv', LossInv, CyclesKept, UNCHANGED receiver, clock' = clock,
         altered' = 0 => altered = 0, Last' \in Nat, Last <= Last',
         \A i \in Indices : Range(channel[i]) \subseteq Range(channel'[i]),
         \A w \in DOMAIN wakes : w # Last =>
           wakes'[w].sent = wakes[w].sent /\ wakes'[w].last = wakes[w].last,
         \A w \in DOMAIN wakes :
           \/ wakes'[w].sent = wakes[w].sent /\ wakes'[w].last = wakes[w].last
           \/ /\ wakes'[w].last = clock
              /\ \A i \in wakes'[w].sent \ wakes[w].sent : OnTheAir(w, i)',
         \A w \in DOMAIN wakes' \ DOMAIN wakes :
           wakes'[w].sent = {} /\ wakes'[w].woke = clock /\ w > Last
  PROVE  LossInv'
<1>1. UNCHANGED <<assemblies, assembled, thread, delivered>>
  BY DEF receiver
<1>2. Made' = Made
  BY <1>1 DEF Made, Delivering
<1>3. \A w \in DOMAIN wakes : /\ wakes'[w].sent \subseteq Indices /\ wakes[w].sent \subseteq Indices
                              /\ wakes[w].woke \in Nat /\ clock \in Nat /\ Last \in Nat
                              /\ w \in Nat /\ w <= Last
  <2>1. ASSUME NEW w \in DOMAIN wakes PROVE wakes'[w].sent \subseteq Indices
    <3>1. wakes'[w] \in WakeRecords
      BY DEF LoRaInv, Cycles, CyclesKept
    <3> QED
      BY <3>1 DEF WakeRecords
  <2> QED
    BY <2>1, CycleTimes DEF LoRaInv
<1>4. ASSUME NEW w \in DOMAIN wakes, altered = 0 PROVE NothingLost(w)'
  <2>1. Covered(w) => Covered(w)'
    BY <1>2, CoveredKept
  <2>2. (Young(w)' <=> Young(w)) /\ wakes'[w].woke = wakes[w].woke /\ wakes'[w].key = wakes[w].key
    BY DEF Young, CyclesKept
  <2>3. NothingLost(w)
    BY <1>4 DEF LossInv
  <2>4. Alone(w)' <=> Alone(w)
    <3>1. \A v : v \in DOMAIN wakes /\ v < w => v \in DOMAIN wakes' /\ (Overlaps(v, w)' <=> Overlaps(v, w))
      BY <1>3, <2>2 DEF Overlaps, CyclesKept
    <3>2. \A v : v \in DOMAIN wakes' /\ v < w => v \in DOMAIN wakes
      <4>1. DOMAIN wakes' = 1 .. Len(wakes') /\ Len(wakes') \in Nat
        BY DEF LoRaInv, Cycles
      <4>2. \A v \in DOMAIN wakes' : v \in Nat /\ 1 <= v
        BY <4>1
      <4>3. DOMAIN wakes = 1 .. Last
        BY CycleTimes DEF LoRaInv
      <4> QED
        BY <1>3, <4>2, <4>3
    <3> QED
      BY <3>1, <3>2 DEF Alone, Overlaps
  <2>5. ASSUME ~Promised(w), w < Last \/ ~Young(w) PROVE ~Promised(w)'
    <3>1. CASE wakes'[w].sent = wakes[w].sent /\ wakes'[w].last = wakes[w].last
      BY <2>2, <2>4, <2>5, <3>1 DEF Promised, Alone
    <3>2. CASE wakes'[w].last = clock /\ ~Young(w)
      BY <1>3, <2>2, <3>2, Constants DEF Promised, Young
    <3>3. CASE w < Last
      <4>1. w # Last
        BY <1>3, <3>3
      <4> QED
        BY <3>1, <4>1
    <3> QED
      BY <2>5, <3>1, <3>2, <3>3
  <2>6. \A i \in Indices : /\ OnTheAir(w, i) => OnTheAir(w, i)'
                           /\ Held(w, i) => Held(w, i)'
    <3>1. \A i \in Indices : OnTheAir(w, i) => OnTheAir(w, i)'
      BY DEF OnTheAir
    <3> QED
      BY <1>1, <2>2, <3>1 DEF Held
  <2>7. \A i \in wakes'[w].sent : i \in wakes[w].sent \/ OnTheAir(w, i)'
    OBVIOUS
  <2>8. ASSUME Traced(w) PROVE Traced(w)'
    <3>1. \A i \in wakes'[w].sent : OnTheAir(w, i)' => Held(w, i)'
      BY DEF Held
    <3>2. Alone(w)' => \A i \in wakes'[w].sent : Held(w, i)'
      BY <1>3, <2>4, <2>6, <2>7, <2>8, <3>1 DEF Traced
    <3>3. \A i, j \in wakes'[w].sent : i = j \/ Held(w, i)' \/ Held(w, j)'
      BY <1>3, <2>6, <2>7, <2>8, <3>1 DEF Traced
    <3>4. \A k \in DOMAIN assemblies :
            k = wakes[w].key /\ assemblies[k].first_seen < wakes[w].woke =>
              \A i \in wakes'[w].sent : OnTheAir(w, i)' \/ i \in DOMAIN assemblies[k].residues
      BY <1>3, <2>6, <2>7, <2>8 DEF Traced
    <3> QED
      BY <1>1, <2>2, <3>2, <3>3, <3>4 DEF Traced
  <2>9. w < Last => w < Last'
    BY <1>3
  <2> QED
    BY <1>1, <2>1, <2>2, <2>3, <2>5, <2>8, <2>9 DEF NothingLost
<1>5. ASSUME NEW w \in DOMAIN wakes', w \notin DOMAIN wakes, altered = 0 PROVE NothingLost(w)'
  <2>1. wakes'[w].sent = {} /\ wakes'[w].woke = clock /\ w > Last /\ w \in Nat
    <3>1. w \in Nat
      BY DEF LoRaInv, Cycles
    <3> QED
      BY <1>5, <3>1
  <2>2. clock \in Nat /\ Last \in Nat
    BY CycleTimes DEF LoRaInv
  <2>3. Young(w)'
    BY <2>1, <2>2, Constants DEF Young
  <2>4. CASE wakes'[w].key \in assembled
    <3>1. PICK reading \in Made : reading.key = wakes'[w].key
      BY <2>4 DEF LossInv
    <3>2. Genuinely(reading)
      BY MadeGenuinely
    <3>3. PICK p \in reading.packets : p.wake \in DOMAIN wakes
      BY <3>2 DEF Genuinely, Genuine
    <3>4. p.wake <= w
      <4>1. p.wake \in Nat /\ p.wake <= Last
        BY <3>3, CycleTimes DEF LoRaInv
      <4> QED
        BY <2>1, <2>2, <4>1
    <3>5. Covered(w)'
      BY <1>2, <3>1, <3>3, <3>4 DEF Covered
    <3> QED
      BY <3>5 DEF NothingLost
  <2>5. CASE wakes'[w].key \notin assembled
    <3>1. Traced(w)'
      BY <2>1 DEF Traced
    <3> QED
      BY <1>1, <2>3, <2>5, <3>1 DEF NothingLost
  <2> QED
    BY <2>4, <2>5
<1> QED
  BY <1>1, <1>2, <1>4, <1>5 DEF LossInv

(* Waking, sending and not being heard.                                    *)
LEMMA WakeLoss ==
  ASSUME LoRaInv, LossInv, NEW k \in Keys, NEW v \in Values, Wake(k, v), UNCHANGED clock
  PROVE  LossInv'
<1> DEFINE new == [key |-> k, value |-> v, sent |-> {}, woke |-> clock, last |-> clock,
                   end |-> "sleep"]
           n == Last + 1
<1>1. /\ wakes \in Seq(WakeRecords) /\ wakes' = Append(wakes, new)
      /\ UNCHANGED <<altered, channel, receiver>> /\ clock' = clock
      /\ Last \in Nat /\ DOMAIN wakes = 1 .. Last
  BY CycleTimes DEF LoRaInv, Cycles, Wake
<1>2. new.sent = {} /\ new.woke = clock
  OBVIOUS
<1> HIDE DEF new
<1>3. /\ DOMAIN wakes' \ DOMAIN wakes = {n} /\ wakes'[n] = new /\ n > Last
      /\ \A w \in DOMAIN wakes : wakes'[w] = wakes[w]
      /\ Last' \in Nat /\ Last <= Last'
  BY <1>1 DEF Last
<1> HIDE DEF n
<1>4. LoRaInv' /\ CyclesKept
  BY WakeInv
<1>5. /\ \A w \in DOMAIN wakes : wakes'[w].sent = wakes[w].sent /\ wakes'[w].last = wakes[w].last
      /\ \A w \in DOMAIN wakes' \ DOMAIN wakes :
           wakes'[w].sent = {} /\ wakes'[w].woke = clock /\ w > Last
  BY <1>2, <1>3
<1>6. altered' = altered /\ channel' = channel
  BY <1>1
<1> QED
  BY <1>1, <1>3, <1>4, <1>5, <1>6, RadioLoss

(* A residue that nobody hears was not counted as sent.                    *)
LEMMA SilenceLoss ==
  ASSUME LoRaInv, LossInv, Silence, UNCHANGED clock
  PROVE  LossInv'
<1>1. UNCHANGED <<altered, channel, receiver>> /\ clock' = clock
  BY DEF Silence, LoseResidue, Sleep, Reboot
<1>2. /\ LoRaInv' /\ CyclesKept /\ DOMAIN wakes' = DOMAIN wakes /\ Last' = Last
      /\ \A w \in DOMAIN wakes \ {Last} : wakes'[w] = wakes[w]
      /\ \A w \in DOMAIN wakes : /\ wakes'[w].sent = wakes[w].sent
                                 /\ wakes'[w].last \in {wakes[w].last, clock}
  BY SilenceInv
<1>3. Last \in Nat
  BY CycleTimes DEF LoRaInv
<1>4. /\ \A w \in DOMAIN wakes : w # Last =>
           wakes'[w].sent = wakes[w].sent /\ wakes'[w].last = wakes[w].last
      /\ \A w \in DOMAIN wakes :
           \/ wakes'[w].sent = wakes[w].sent /\ wakes'[w].last = wakes[w].last
           \/ /\ wakes'[w].last = clock
              /\ \A i \in wakes'[w].sent \ wakes[w].sent : OnTheAir(w, i)'
      /\ DOMAIN wakes' \ DOMAIN wakes = {}
  BY <1>2
<1>5. altered' = altered /\ channel' = channel /\ Last' \in Nat /\ Last <= Last'
  BY <1>1, <1>2, <1>3
<1> QED
  BY <1>1, <1>2, <1>4, <1>5, RadioLoss

(* A residue sent is on the air.                                           *)
LEMMA TransmitLoss ==
  ASSUME LoRaInv, LossInv, TransmitResidue, UNCHANGED clock
  PROVE  LossInv'
<1> DEFINE intact == encode(wakes[Last].value)[sensor]
<1>1. PICK residue :
        /\ channel' = [channel EXCEPT ![sensor] = Append(@, Packet(sensor, residue))]
        /\ altered' = altered + (IF residue = intact THEN 0 ELSE 1)
  BY DEF TransmitResidue
<1>2. sensor \in Indices /\ UNCHANGED receiver /\ clock' = clock
  BY DEF TransmitResidue
<1>3. /\ LoRaInv' /\ CyclesKept /\ DOMAIN wakes' = DOMAIN wakes /\ Last' = Last
      /\ Last \in DOMAIN wakes /\ wakes'[Last].last = clock
      /\ wakes'[Last].sent = wakes[Last].sent \cup {sensor}
      /\ \A w \in DOMAIN wakes \ {Last} : wakes'[w] = wakes[w]
  BY TransmitInv
<1>4. /\ altered \in Nat /\ Last \in Nat
      /\ channel \in [Indices -> Seq(Packets)] /\ channel' \in [Indices -> Seq(Packets)]
  BY <1>3, CycleTimes DEF LoRaInv, Cycles, OnAir
<1> DEFINE new == Packet(sensor, residue)
<1>5. new.wake = Last
  BY DEF Packet
<1> HIDE DEF new
<1>6. /\ channel[sensor] \in Seq(Packets) /\ channel'[sensor] = Append(channel[sensor], new)
      /\ \A i \in Indices \ {sensor} : channel'[i] = channel[i]
  BY <1>1, <1>2, <1>4 DEF new
<1>7. Range(channel[sensor]) \subseteq Range(channel'[sensor]) /\ new \in Range(channel'[sensor])
  <2>1. /\ DOMAIN channel[sensor] \subseteq DOMAIN channel'[sensor]
        /\ \A n \in DOMAIN channel[sensor] : channel'[sensor][n] = channel[sensor][n]
        /\ Len(channel[sensor]) + 1 \in DOMAIN channel'[sensor]
        /\ channel'[sensor][Len(channel[sensor]) + 1] = new
    BY <1>6
  <2> QED
    BY <2>1 DEF Range
<1>8. \A i \in Indices : Range(channel[i]) \subseteq Range(channel'[i])
  BY <1>6, <1>7
<1>9. altered' = 0 => altered = 0
  BY <1>1, <1>4
<1>10. \A i \in wakes'[Last].sent \ wakes[Last].sent : OnTheAir(Last, i)'
  <2>1. PICK s \in Indices : s = sensor
    BY <1>2
  <2>2. new \in Range(channel'[s]) /\ new.wake = Last'
    BY <1>3, <1>5, <1>7, <2>1
  <2>3. OnTheAir(Last, s)'
    BY <2>2 DEF OnTheAir
  <2> QED
    BY <1>3, <2>1, <2>3
<1>11. /\ \A w \in DOMAIN wakes : w # Last =>
            wakes'[w].sent = wakes[w].sent /\ wakes'[w].last = wakes[w].last
       /\ \A w \in DOMAIN wakes :
            \/ wakes'[w].sent = wakes[w].sent /\ wakes'[w].last = wakes[w].last
            \/ /\ wakes'[w].last = clock
               /\ \A i \in wakes'[w].sent \ wakes[w].sent : OnTheAir(w, i)'
       /\ DOMAIN wakes' \ DOMAIN wakes = {}
  BY <1>3, <1>10
<1>12. Last' \in Nat /\ Last <= Last'
  BY <1>3, <1>4
<1> QED
  BY <1>2, <1>3, <1>8, <1>9, <1>11, <1>12, RadioLoss

(* Steps of the receiver, with the cycles as they are.                     *)
LEMMA ExpireLoss ==
  ASSUME LoRaInv, LossInv, ExpireIncomplete, UNCHANGED clock
  PROVE  LossInv'
<1>1. /\ UNCHANGED <<wakes, altered, channel, assembled, thread, delivered, clock>>
      /\ assemblies' = Unexpired
  BY DEF ExpireIncomplete, radio
<1>2. Made' = Made /\ Last' = Last
  BY <1>1 DEF Made, Delivering, Last
<1>3. ASSUME altered = 0, NEW w \in DOMAIN wakes PROVE NothingLost(w)'
  <2>1. NothingLost(w)
    BY <1>3 DEF LossInv
  <2>2. /\ Covered(w)' <=> Covered(w)
        /\ Young(w)' <=> Young(w)
        /\ Promised(w)' <=> Promised(w)
        /\ Alone(w)' <=> Alone(w)
        /\ \A i : OnTheAir(w, i)' <=> OnTheAir(w, i)
    BY <1>1, <1>2 DEF Covered, Young, Promised, Alone, Overlaps, OnTheAir
  <2>3. ASSUME Young(w), NEW i \in Indices, Held(w, i) PROVE Held(w, i)'
    <3>1. CASE OnTheAir(w, i)
      BY <2>2, <3>1 DEF Held
    <3>2. CASE ~OnTheAir(w, i)
      <4> DEFINE k == wakes[w].key
      <4>1. /\ k \in DOMAIN assemblies /\ i \in DOMAIN assemblies[k].residues
            /\ wakes[w].woke <= assemblies[k].first_seen
            /\ \E p \in assemblies[k].packets : p.wake <= w
        BY <2>3, <3>2 DEF Held
      <4>2. k \in DOMAIN Unexpired /\ Unexpired[k] = assemblies[k]
        BY <2>3, <4>1, YoungUnexpired
      <4> QED
        BY <1>1, <4>1, <4>2 DEF Held
    <3> QED
      BY <3>1, <3>2
  <2>4. wakes[w].sent \subseteq Indices /\ wakes' = wakes
    BY <1>1, CycleTimes DEF LoRaInv
  <2>5. ASSUME Young(w), Traced(w) PROVE Traced(w)'
    <3>1. /\ Alone(w)' => \A i \in wakes[w].sent : Held(w, i)'
          /\ \A i, j \in wakes[w].sent : i = j \/ Held(w, i)' \/ Held(w, j)'
      BY <2>2, <2>3, <2>4, <2>5 DEF Traced
    <3>2. \A k \in DOMAIN Unexpired : k \in DOMAIN assemblies /\ Unexpired[k] = assemblies[k]
      BY UnexpiredKept
    <3>3. \A k \in DOMAIN Unexpired :
            k = wakes[w].key /\ Unexpired[k].first_seen < wakes[w].woke =>
              \A i \in wakes[w].sent : OnTheAir(w, i)' \/ i \in DOMAIN Unexpired[k].residues
      BY <2>2, <2>5, <3>2 DEF Traced
    <3> QED
      BY <1>1, <2>4, <3>1, <3>3 DEF Traced
  <2> QED
    BY <1>1, <1>2, <2>1, <2>2, <2>5 DEF NothingLost
<1> QED
  BY <1>1, <1>2, <1>3 DEF LossInv

(* Between two ticks everything that arrived was handled.                  *)
LEMMA TickLoss ==
  ASSUME LoRaInv, LossInv, Tick
  PROVE  LossInv'
<1>1. /\ UNCHANGED <<wakes, altered, channel, assemblies, assembled, thread, delivered>>
      /\ clock' = clock + 1
  BY DEF Tick, radio, receiver
<1>2. Made' = Made /\ Last' = Last
  BY <1>1 DEF Made, Delivering, Last
<1>3. ASSUME altered = 0, NEW w \in DOMAIN wakes PROVE NothingLost(w)'
  <2>1. NothingLost(w)
    BY <1>3 DEF LossInv
  <2>2. \A i \in Indices : channel[i] = <<>>
    BY <1>3 DEF LossInv, LoRaInv, Readings, Delivering, Tick
  <2>3. /\ Covered(w)' <=> Covered(w)
        /\ Promised(w)' <=> Promised(w)
        /\ Traced(w)' <=> Traced(w)
    BY <1>1, <1>2 DEF Covered, Promised, Traced, Alone, Overlaps, Held, OnTheAir
  <2>4. wakes[w].woke \in Nat /\ clock \in Nat /\ wakes' = wakes
    BY <1>1, CycleTimes DEF LoRaInv
  <2>5. Young(w)' => Young(w)
    BY <1>1, <2>4, Constants DEF Young
  <2>6. CASE Young(w)'
    BY <1>1, <1>2, <2>1, <2>3, <2>5, <2>6 DEF NothingLost
  <2>7. CASE ~Young(w)'
    <3>1. CASE Young(w) /\ Promised(w)
      <4>1. Covered(w)
        BY <1>3, <2>2, <3>1, SettledIsCovered
      <4> QED
        BY <2>3, <4>1 DEF NothingLost
    <3>2. CASE ~Promised(w)
      BY <2>3, <2>7, <3>2 DEF NothingLost
    <3>3. CASE ~Young(w)
      BY <2>1, <2>3, <2>7, <3>2, <3>3 DEF NothingLost
    <3> QED
      BY <3>1, <3>2, <3>3
  <2> QED
    BY <2>6, <2>7
<1> QED
  BY <1>1, <1>2, <1>3 DEF LossInv

(* A reading under way is delivered.                                       *)
LEMMA DeliverLoss ==
  ASSUME LoRaInv, LossInv, NEW i \in Indices, Deliver(i), UNCHANGED clock
  PROVE  LossInv'
<1>1. /\ UNCHANGED <<wakes, altered, channel, assemblies, assembled, clock>>
      /\ thread' = [thread EXCEPT ![i] = Waiting] /\ DOMAIN thread = Indices
      /\ delivered' = Append(delivered, thread[i].reading)
  BY DEF Deliver, radio, LoRaInv, Readings
<1>2. \A j \in Indices \ {i} : thread'[j] = thread[j]
  BY <1>1
<1>3. Range(delivered) \subseteq Range(delivered') /\ thread[i].reading \in Range(delivered')
  <2>1. PICK S : delivered \in Seq(S)
    BY DEF LoRaInv, Readings
  <2> DEFINE r == thread[i].reading
  <2>2. delivered' = Append(delivered, r)
    BY <1>1
  <2> HIDE DEF r
  <2>3. /\ DOMAIN delivered \subseteq DOMAIN delivered'
        /\ \A n \in DOMAIN delivered : delivered'[n] = delivered[n]
        /\ Len(delivered) + 1 \in DOMAIN delivered' /\ delivered'[Len(delivered) + 1] = r
    BY <2>1, <2>2
  <2> QED
    BY <2>3 DEF Range, r
<1>4. Made \subseteq Made'
  BY <1>2, <1>3 DEF Made, Delivering
<1>5. CyclesKept
  <2>1. \A w \in DOMAIN wakes : wakes[w] \in WakeRecords
    BY DEF LoRaInv, Cycles
  <2>2. \A w \in DOMAIN wakes : wakes[w].last \in Nat
    BY <2>1 DEF WakeRecords
  <2> QED
    BY <1>1, <2>2 DEF CyclesKept
<1>6. ASSUME altered = 0, NEW w \in DOMAIN wakes PROVE NothingLost(w)'
  <2>1. NothingLost(w)
    BY <1>6 DEF LossInv
  <2>2. Covered(w) => Covered(w)'
    BY <1>4, <1>5, CoveredKept
  <2>3. /\ Young(w)' <=> Young(w)
        /\ Promised(w)' <=> Promised(w)
        /\ Traced(w)' <=> Traced(w)
        /\ Last' = Last
    BY <1>1 DEF Young, Promised, Traced, Alone, Overlaps, Held, OnTheAir, Last
  <2> QED
    BY <1>1, <2>1, <2>2, <2>3 DEF NothingLost
<1>7. altered = 0 => \A j \in Indices : thread'[j] # Dead
  BY <1>1, <1>2 DEF LossInv, Waiting, Dead
<1> QED
  BY <1>1, <1>4, <1>6, <1>7 DEF LossInv

(* A packet that arrives for the key of a cycle that has its residues, and *)
(* is not the second: they stay where they are, or it is among them now.   *)
LEMMA FewTraced ==
  ASSUME LoRaInv, altered = 0, NEW i \in Indices, thread[i] # Dead, UNCHANGED <<wakes, clock>>,
         NEW p \in Range(channel[i]), NEW joined, joined = Joined(Unexpired, p), ~Enough(joined),
         NEW w \in DOMAIN wakes, Young(w), Traced(w), p.key = wakes[w].key,
         \A j \in Indices : OnTheAir(w, j) => OnTheAir(w, j)' \/ (j = i /\ p.wake = w),
         p.key \in DOMAIN assemblies', assemblies'[p.key] = joined
  PROVE  Traced(w)'
<1> DEFINE k == p.key
<1>1. /\ Fed(k, joined) /\ p \in joined.packets /\ i \in DOMAIN joined.residues
      /\ k \in DOMAIN Unexpired =>
           /\ DOMAIN Unexpired[k].residues \subseteq DOMAIN joined.residues
           /\ joined.packets = Unexpired[k].packets \cup {p}
           /\ joined.first_seen = Unexpired[k].first_seen
      /\ k \notin DOMAIN Unexpired => joined.first_seen = clock
  <2>1. p.index = i
    BY DEF LoRaInv, OnAir
  <2> QED
    BY <2>1, JoinedFed
<1>2. /\ wakes[w].woke \in Nat /\ wakes[w].last \in Nat /\ clock \in Nat /\ wakes[w].woke <= clock
      /\ wakes[w].sent \subseteq Indices /\ w \in Nat
  BY CycleTimes DEF LoRaInv
<1>3. joined.first_seen \in Nat
  BY <1>1 DEF Fed
<1>4. DOMAIN joined.residues \in SUBSET Indices
  BY <1>1, IntactInRange
<1>5. \A j, l \in DOMAIN joined.residues : j = l
  <2>1. ~(Cardinality(DOMAIN joined.residues) >= 2)
    BY DEF Enough
  <2> QED
    BY <1>4, <2>1, Pairs
<1>6. wakes'[w] = wakes[w] /\ (Alone(w)' <=> Alone(w))
  BY DEF Alone, Overlaps
<1>7. \A j : OnTheAir(w, j)' => Held(w, j)'
  BY DEF Held
<1>8. ASSUME p.wake = w, joined.first_seen < wakes[w].woke PROVE ~Alone(w)
  <2>1. k \in DOMAIN Unexpired
    BY <1>1, <1>2, <1>8
  <2>2. /\ Fed(k, Unexpired[k]) /\ clock - joined.first_seen < Timeout
        /\ Unexpired[k].first_seen = joined.first_seen
    BY <1>1, <2>1, UnexpiredKept
  <2>3. PICK q \in Unexpired[k].packets : wakes[q.wake].woke <= joined.first_seen
    BY <2>2 DEF Fed
  <2>4. /\ Genuine(q) /\ q.key = k /\ joined.first_seen <= wakes[q.wake].last
        /\ q.wake \in DOMAIN wakes /\ wakes[q.wake].key = wakes[w].key
    BY <2>2, <2>3 DEF Fed, Genuine
  <2>5. /\ wakes[q.wake].woke \in Nat /\ wakes[q.wake].last \in Nat /\ q.wake \in Nat
        /\ wakes[w].woke <= wakes[w].last
    BY <2>4, CycleTimes DEF LoRaInv
  <2>6. ~(w < q.wake)
    <3> SUFFICES ASSUME w < q.wake PROVE FALSE
      OBVIOUS
    <3>1. wakes[w].last <= wakes[q.wake].woke
      BY <2>4 DEF LoRaInv, Cycles
    <3> QED
      BY <1>2, <1>3, <1>8, <2>3, <2>5, <3>1
  <2>7. w # q.wake
    BY <1>2, <1>3, <1>8, <2>3
  <2>8. wakes[w].woke < wakes[q.wake].last + Timeout
    BY <1>2, <1>3, <2>2, <2>4, <2>5, Constants
  <2>9. q.wake < w
    BY <1>2, <2>5, <2>6, <2>7
  <2>10. Overlaps(q.wake, w)
    BY <2>4, <2>8, <2>9 DEF Overlaps
  <2> QED
    BY <2>4, <2>10 DEF Alone
<1>9. ASSUME NEW j \in Indices, Held(w, j), ~(p.wake = w /\ joined.first_seen < wakes[w].woke)
      PROVE  Held(w, j)'
  <2>1. CASE OnTheAir(w, j)
    <3>1. CASE OnTheAir(w, j)'
      BY <1>7, <3>1
    <3>2. CASE j = i /\ p.wake = w
      <4>1. wakes[w].woke <= joined.first_seen /\ p.wake <= w
        BY <1>2, <1>3, <1>9, <3>2
      <4> QED
        BY <1>1, <1>6, <3>2, <4>1 DEF Held
    <3> QED
      BY <2>1, <3>1, <3>2
  <2>2. CASE ~OnTheAir(w, j)
    <3>1. /\ k \in DOMAIN assemblies /\ j \in DOMAIN assemblies[k].residues
          /\ wakes[w].woke <= assemblies[k].first_seen
          /\ \E q \in assemblies[k].packets : q.wake <= w
      BY <1>9, <2>2 DEF Held
    <3>2. k \in DOMAIN Unexpired /\ Unexpired[k] = assemblies[k]
      BY <3>1, YoungUnexpired
    <3>3. /\ j \in DOMAIN joined.residues /\ wakes[w].woke <= joined.first_seen
          /\ \E q \in joined.packets : q.wake <= w
      BY <1>1, <3>1, <3>2
    <3> QED
      BY <1>6, <3>3 DEF Held
  <2> QED
    BY <2>1, <2>2
<1>10. ASSUME joined.first_seen < wakes[w].woke, NEW j \in wakes[w].sent
       PROVE  OnTheAir(w, j)' \/ j \in DOMAIN joined.residues
  <2>1. k \in DOMAIN Unexpired
    BY <1>1, <1>2, <1>10
  <2>2. k \in DOMAIN assemblies /\ Unexpired[k] = assemblies[k]
    BY <2>1, UnexpiredKept
  <2>3. OnTheAir(w, j) \/ j \in DOMAIN assemblies[k].residues
    BY <1>1, <1>10, <2>1, <2>2 DEF Traced
  <2> QED
    BY <1>1, <1>2, <2>1, <2>2, <2>3
<1>11. Alone(w)' => \A j \in wakes[w].sent : Held(w, j)'
  BY <1>2, <1>6, <1>8, <1>9 DEF Traced
<1>12. ASSUME NEW j \in wakes[w].sent, NEW l \in wakes[w].sent, j # l
       PROVE  Held(w, j)' \/ Held(w, l)'
  <2>1. CASE p.wake = w /\ joined.first_seen < wakes[w].woke
    BY <1>5, <1>7, <1>10, <1>12, <2>1
  <2>2. CASE ~(p.wake = w /\ joined.first_seen < wakes[w].woke)
    BY <1>2, <1>9, <1>12, <2>2 DEF Traced
  <2> QED
    BY <2>1, <2>2
<1>13. \A l \in DOMAIN assemblies' :
         l = wakes[w].key /\ assemblies'[l].first_seen < wakes[w].woke =>
           \A j \in wakes[w].sent : OnTheAir(w, j)' \/ j \in DOMAIN assemblies'[l].residues
  BY <1>10
<1> QED
  BY <1>6, <1>11, <1>12, <1>13 DEF Traced

(* A key completed by residues of later cycles only: the cycle had one     *)
(* residue left on the air at most.                                        *)
LEMMA LaterCompletes ==
  ASSUME LoRaInv, NEW i \in Indices, thread[i] # Dead,
         channel[i] # <<>>, NEW p, p = Head(channel[i]),
         NEW joined, joined = Joined(Unexpired, p), Enough(joined),
         NEW w \in DOMAIN wakes, Traced(w), p.key = wakes[w].key,
         \A q \in joined.packets : ~(q.wake <= w)
  PROVE  ~Promised(w) /\ w < Last
<1> DEFINE k == p.key
<1>1. /\ channel[i] \in Seq(Packets) /\ p = channel[i][1] /\ 1 \in DOMAIN channel[i]
      /\ p \in Range(channel[i]) /\ DOMAIN channel[i] \subseteq Nat \ {0}
  <2>1. channel[i] \in Seq(Packets)
    BY DEF LoRaInv, OnAir
  <2>2. p = channel[i][1] /\ 1 \in DOMAIN channel[i] /\ DOMAIN channel[i] \subseteq Nat \ {0}
    BY <2>1
  <2> QED
    BY <2>1, <2>2 DEF Range
<1>2. Genuine(p) /\ p.index = i /\ p.wake \in DOMAIN wakes
  BY <1>1 DEF LoRaInv, OnAir, Genuine
<1>3. /\ Fed(k, joined) /\ p \in joined.packets
      /\ k \in DOMAIN Unexpired => joined.packets = Unexpired[k].packets \cup {p}
      /\ k \notin DOMAIN Unexpired => joined.packets = {p}
  BY <1>1, JoinedFed
<1>4. /\ w \in Nat /\ p.wake \in Nat /\ p.wake <= Last /\ Last \in Nat
      /\ wakes[w].sent \in SUBSET Indices
  BY <1>2, CycleTimes DEF LoRaInv
<1>5. w < Last
  BY <1>3, <1>4
<1>6. DOMAIN joined.residues \in SUBSET Indices /\ DOMAIN joined.residues = Heard(joined.packets)
  <2>1. joined.residues \in Residues
    BY <1>3 DEF Fed
  <2> QED
    BY <1>3, <2>1 DEF Residues, Fed
<1>7. PICK d \in DOMAIN joined.residues : d # i
  <2>1. \E j, l \in DOMAIN joined.residues : j # l
    BY <1>6, Pairs DEF Enough
  <2> QED
    BY <2>1
<1>8. PICK q \in joined.packets : q.index = d
  BY <1>6, <1>7 DEF Heard
<1>9. q # p
  BY <1>2, <1>7, <1>8
<1>10. k \in DOMAIN Unexpired /\ q \in Unexpired[k].packets
  BY <1>3, <1>8, <1>9
<1>11. k \in DOMAIN assemblies /\ Unexpired[k] = assemblies[k]
  BY <1>10, UnexpiredKept
<1>12. q.wake \in Nat
  BY <1>3, <1>8 DEF Fed, Genuine, Packets
<1>13. ASSUME NEW x, x \in Range(channel[i]) \/ x \in Range(channel[d]) PROVE x.wake # w
  <2>1. x.wake \in Nat
    BY <1>6, <1>13 DEF LoRaInv, OnAir, Genuine, Packets
  <2>2. CASE x \in Range(channel[d])
    <3>1. q.wake <= x.wake
      BY <1>8, <1>10, <1>11, <2>2 DEF LoRaInv, Ordered
    <3> QED
      BY <1>4, <1>12, <2>1, <3>1
  <2>3. CASE x \in Range(channel[i])
    <3>1. PICK n \in DOMAIN channel[i] : x = channel[i][n]
      BY <2>3 DEF Range
    <3>2. n = 1 \/ 1 < n
      BY <1>1, <3>1
    <3>3. p.wake <= x.wake
      BY <1>1, <1>4, <3>1, <3>2 DEF LoRaInv, Ordered
    <3>4. ~(p.wake <= w)
      BY <1>3
    <3> QED
      BY <1>4, <2>1, <3>3, <3>4
  <2> QED
    BY <1>13, <2>2, <2>3
<1>14. ~Held(w, i) /\ ~Held(w, d)
  <2>1. ~OnTheAir(w, i) /\ ~OnTheAir(w, d)
    BY <1>13 DEF OnTheAir
  <2>2. ~\E x \in assemblies[k].packets : x.wake <= w
    BY <1>3, <1>10, <1>11
  <2> QED
    BY <2>1, <2>2 DEF Held
<1>15. ~Promised(w)
  <2>1. ~(wakes[w].sent = Indices)
    BY <1>6, <1>7, <1>14 DEF Traced
  <2>2. ~(Cardinality(wakes[w].sent) >= 2 /\ Alone(w))
    <3> SUFFICES ASSUME Cardinality(wakes[w].sent) >= 2, Alone(w) PROVE FALSE
      OBVIOUS
    <3>1. i \in wakes[w].sent \/ d \in wakes[w].sent
      BY <1>4, <1>6, <1>7, Pairs
    <3> QED
      BY <1>14, <3>1 DEF Traced
  <2> QED
    BY <2>1, <2>2 DEF Promised, Alone
<1> QED
  BY <1>5, <1>15

(* A packet received leaves the air for the assembly or the reading.       *)
LEMMA ReceiveLoss ==
  ASSUME LoRaInv, LossInv, NEW i \in Indices, Receive(i), UNCHANGED clock
  PROVE  LossInv'
<1>1. /\ UNCHANGED <<wakes, altered, delivered, clock>>
      /\ thread[i] = Waiting /\ channel[i] # <<>> /\ DOMAIN thread = Indices
      /\ channel' = [channel EXCEPT ![i] = Tail(channel[i])]
      /\ channel \in [Indices -> Seq(Packets)]
  BY DEF Receive, radio, LoRaInv, Readings, OnAir
<1>2. thread[i] # Dead /\ ~Delivering(i)
  BY <1>1 DEF Waiting, Dead, Delivering
<1>3. PICK p : p = Head(channel[i])
  OBVIOUS
<1>4. PICK joined : joined = Joined(Unexpired, p)
  OBVIOUS
<1>5. /\ p \in Range(channel[i]) /\ \A j \in Indices \ {i} : channel'[j] = channel[j]
      /\ \A q \in Range(channel[i]) : q = p \/ q \in Range(channel'[i])
  <2>1. channel[i] \in Seq(Packets) /\ channel'[i] = Tail(channel[i])
    BY <1>1
  <2>2. p \in Range(channel[i])
    BY <1>1, <1>3, <2>1 DEF Range
  <2>3. ASSUME NEW n \in DOMAIN channel[i], n # 1 PROVE channel[i][n] \in Range(channel'[i])
    <3>1. n - 1 \in DOMAIN channel'[i] /\ channel'[i][n - 1] = channel[i][n]
      BY <1>1, <2>1, <2>3
    <3> QED
      BY <3>1 DEF Range
  <2>4. channel[i][1] = p
    BY <1>1, <1>3, <2>1
  <2> QED
    BY <1>1, <2>2, <2>3, <2>4 DEF Range
<1>6. Genuine(p) /\ p.index = i
  BY <1>5 DEF LoRaInv, OnAir
<1>7. p.wake \in DOMAIN wakes /\ p.wake \in Nat /\ p.key = wakes[p.wake].key
  BY <1>6 DEF Genuine, Packets
<1>8. Fed(p.key, joined) /\ p \in joined.packets
  BY <1>2, <1>4, <1>5, JoinedFed
<1>10. PICK kept : kept = With(Unexpired, p.key, joined)
  OBVIOUS
<1>11. /\ DOMAIN kept = DOMAIN Unexpired \cup {p.key} /\ kept[p.key] = joined
       /\ \A k \in DOMAIN Unexpired \ {p.key} : kept[k] = Unexpired[k]
  BY <1>10 DEF With
<1>12. PICK r : r = Reading(p.key, joined)
  OBVIOUS
<1>13. r.key = p.key /\ r.packets = joined.packets
  BY <1>12 DEF Reading
<1> DEFINE Dropped == p.key \in assembled /\ assemblies' = Unexpired /\ UNCHANGED <<assembled, thread>>
           Few == /\ p.key \notin assembled /\ ~Enough(joined) /\ assemblies' = kept
                  /\ UNCHANGED <<assembled, thread>>
           Bad == /\ Enough(joined) /\ ~Decodes(joined.residues) /\ UNCHANGED assembled
                  /\ thread' = [thread EXCEPT ![i] = Dead]
           Complete == /\ p.key \notin assembled /\ Enough(joined)
                       /\ assemblies' = Without(kept, p.key)
                       /\ assembled' = assembled \cup {p.key}
                       /\ thread' = [thread EXCEPT ![i] = [pc |-> "deliver", reading |-> r]]
<1>14. Dropped \/ Few \/ Bad \/ Complete
  BY <1>3, <1>4, <1>10, <1>12 DEF Receive, Remember
<1> HIDE DEF Dropped, Few, Bad, Complete
<1>15. Made \subseteq Made'
  <2>1. \A j \in Indices \ {i} : thread'[j] = thread[j]
    BY <1>1, <1>14 DEF Dropped, Few, Bad, Complete
  <2>2. \A j \in Indices : Delivering(j) => j # i
    BY <1>2
  <2>3. delivered' = delivered
    BY <1>1
  <2> QED
    BY <2>1, <2>2, <2>3 DEF Made, Delivering
<1>16. Complete => r \in Made'
  BY <1>1 DEF Complete, Made, Delivering
<1>17. \A k \in assembled' : \E reading \in Made' : reading.key = k
  <2>1. CASE Complete
    BY <1>13, <1>15, <1>16, <2>1 DEF Complete, LossInv
  <2>2. CASE Dropped \/ Few \/ Bad
    BY <1>15, <2>2 DEF Dropped, Few, Bad, LossInv
  <2> QED
    BY <1>14, <2>1, <2>2
<1>18. altered = 0 => ~Bad
  <2> SUFFICES ASSUME altered = 0, Bad PROVE FALSE
    OBVIOUS
  <2>1. InRange(joined.residues)
    BY <1>8, IntactInRange
  <2> QED
    BY <2>1 DEF Bad, Enough, Decodes
<1>19. altered = 0 => \A j \in Indices : thread'[j] # Dead
  <2> SUFFICES ASSUME altered = 0, NEW j \in Indices PROVE thread'[j] # Dead
    OBVIOUS
  <2>1. thread[j] # Dead
    BY DEF LossInv
  <2>2. CASE Dropped \/ Few
    BY <2>1, <2>2 DEF Dropped, Few
  <2>3. CASE Complete
    <3>1. CASE j = i
      <4>1. thread'[j].pc = "deliver"
        BY <1>1, <2>3, <3>1 DEF Complete
      <4> QED
        BY <4>1 DEF Dead
    <3>2. CASE j # i
      BY <1>1, <2>1, <2>3, <3>2 DEF Complete
    <3> QED
      BY <3>1, <3>2
  <2> QED
    BY <1>14, <1>18, <2>2, <2>3
<1>20. CyclesKept
  <2>1. \A w \in DOMAIN wakes : wakes[w] \in WakeRecords
    BY DEF LoRaInv, Cycles
  <2>2. \A w \in DOMAIN wakes : wakes[w].last \in Nat
    BY <2>1 DEF WakeRecords
  <2> QED
    BY <1>1, <2>2 DEF CyclesKept
<1>21. \A w : /\ Covered(w) /\ w \in DOMAIN wakes => Covered(w)'
              /\ Young(w)' <=> Young(w)
              /\ Promised(w)' <=> Promised(w)
              /\ Alone(w)' <=> Alone(w)
  BY <1>1, <1>15, <1>20, CoveredKept DEF Young, Promised, Alone, Overlaps
<1>22. Last' = Last
  BY <1>1 DEF Last
<1>23. ASSUME NEW w, NEW j \in Indices, OnTheAir(w, j)
       PROVE  OnTheAir(w, j)' \/ (j = i /\ p.wake = w)
  BY <1>5, <1>23 DEF OnTheAir
<1>24. ASSUME altered = 0, NEW w \in DOMAIN wakes, ~Covered(w)', Young(w), Traced(w),
              wakes[w].key \notin assembled, p.key = wakes[w].key
       PROVE  NothingLost(w)'
  <2>1. Few \/ Complete
    BY <1>14, <1>18, <1>24 DEF Dropped
  <2>2. CASE Few
    <3>1. p.key \in DOMAIN assemblies' /\ assemblies'[p.key] = joined /\ ~Enough(joined)
      BY <1>11, <2>2 DEF Few
    <3>2. Traced(w)'
      BY <1>1, <1>2, <1>4, <1>5, <1>23, <1>24, <3>1, FewTraced
    <3>3. assembled' = assembled /\ wakes' = wakes
      BY <1>1, <2>2 DEF Few
    <3> QED
      BY <1>21, <1>24, <3>2, <3>3 DEF NothingLost
  <2>3. CASE Complete
    <3>1. \A q \in joined.packets : ~(q.wake <= w)
      BY <1>1, <1>13, <1>16, <1>24, <2>3 DEF Covered
    <3>2. Enough(joined)
      BY <2>3 DEF Complete
    <3>3. ~Promised(w) /\ w < Last
      BY <1>1, <1>2, <1>3, <1>4, <1>24, <3>1, <3>2, LaterCompletes
    <3> QED
      BY <1>21, <1>22, <3>3 DEF NothingLost
  <2> QED
    BY <2>1, <2>2, <2>3
<1>25. ASSUME altered = 0, NEW w \in DOMAIN wakes, Young(w), Traced(w),
              wakes[w].key \notin assembled, p.key # wakes[w].key
       PROVE  NothingLost(w)'
  <2> DEFINE k == wakes[w].key
  <2>1. /\ wakes' = wakes /\ k \notin assembled' /\ wakes[w].sent \subseteq Indices
    BY <1>1, <1>14, <1>18, <1>25, CycleTimes DEF LoRaInv, Dropped, Few, Complete
  <2>2. /\ k \in DOMAIN assemblies' <=> k \in DOMAIN Unexpired
        /\ k \in DOMAIN Unexpired => assemblies'[k] = Unexpired[k]
    BY <1>11, <1>14, <1>18, <1>25 DEF Dropped, Few, Complete, Without
  <2>3. \A j \in Indices : OnTheAir(w, j) => OnTheAir(w, j)'
    BY <1>7, <1>23, <1>25
  <2>4. ASSUME NEW j \in Indices, Held(w, j) PROVE Held(w, j)'
    <3>1. CASE OnTheAir(w, j)
      BY <2>3, <3>1 DEF Held
    <3>2. CASE ~OnTheAir(w, j)
      <4>1. /\ k \in DOMAIN assemblies /\ j \in DOMAIN assemblies[k].residues
            /\ wakes[w].woke <= assemblies[k].first_seen
            /\ \E q \in assemblies[k].packets : q.wake <= w
        BY <2>4, <3>2 DEF Held
      <4>2. k \in DOMAIN Unexpired /\ Unexpired[k] = assemblies[k]
        BY <1>25, <4>1, YoungUnexpired
      <4> QED
        BY <2>1, <2>2, <4>1, <4>2 DEF Held
    <3> QED
      BY <3>1, <3>2
  <2>5. Traced(w)'
    <3>1. /\ Alone(w)' => \A j \in wakes[w].sent : Held(w, j)'
          /\ \A j, l \in wakes[w].sent : j = l \/ Held(w, j)' \/ Held(w, l)'
      BY <1>21, <1>25, <2>1, <2>4 DEF Traced
    <3>2. ASSUME k \in DOMAIN assemblies', assemblies'[k].first_seen < wakes[w].woke,
                 NEW j \in wakes[w].sent
          PROVE  OnTheAir(w, j)' \/ j \in DOMAIN assemblies'[k].residues
      <4>1. /\ k \in DOMAIN assemblies /\ assemblies'[k] = assemblies[k]
        BY <2>2, <3>2, UnexpiredKept
      <4> QED
        BY <1>25, <2>1, <2>3, <3>2, <4>1 DEF Traced
    <3> QED
      BY <2>1, <3>1, <3>2 DEF Traced
  <2> QED
    BY <1>21, <1>25, <2>1, <2>5 DEF NothingLost
<1>26. ASSUME altered = 0, NEW w \in DOMAIN wakes PROVE NothingLost(w)'
  <2>1. NothingLost(w)
    BY <1>26 DEF LossInv
  <2>2. CASE Covered(w)
    BY <1>21, <2>2 DEF NothingLost
  <2>3. CASE ~Promised(w) /\ (w < Last \/ ~Young(w))
    BY <1>21, <1>22, <2>3 DEF NothingLost
  <2>4. CASE Young(w) /\ wakes[w].key \notin assembled /\ Traced(w)
    BY <1>24, <1>25, <1>26, <2>4 DEF NothingLost
  <2> QED
    BY <2>1, <2>2, <2>3, <2>4 DEF NothingLost
<1> QED
  BY <1>1, <1>17, <1>19, <1>26 DEF LossInv

(* Every step preserves what is known of the readings not lost.            *)
LEMMA LossNext == LoRaInv /\ LossInv /\ [Next]_vars => LossInv'
<1> SUFFICES ASSUME LoRaInv, LossInv, [Next]_vars PROVE LossInv'
  OBVIOUS
<1>1. ASSUME NEW k \in Keys, NEW v \in Values, Wake(k, v), UNCHANGED clock PROVE LossInv'
  BY <1>1, WakeLoss
<1>2. CASE TransmitResidue /\ UNCHANGED clock
  BY <1>2, TransmitLoss
<1>3. CASE Silence /\ UNCHANGED clock
  BY <1>3, SilenceLoss
<1>4. CASE ExpireIncomplete /\ UNCHANGED clock
  BY <1>4, ExpireLoss
<1>5. ASSUME NEW i \in Indices, Receive(i), UNCHANGED clock PROVE LossInv'
  BY <1>5, ReceiveLoss
<1>6. ASSUME NEW i \in Indices, Deliver(i), UNCHANGED clock PROVE LossInv'
  BY <1>6, DeliverLoss
<1>7. CASE Tick
  BY <1>7, TickLoss
<1>8. CASE UNCHANGED vars
  <2>1. UNCHANGED <<wakes, altered, channel, assemblies, assembled, thread, delivered, clock>>
    BY <1>8 DEF vars, radio, receiver
  <2>2. Made' = Made
    BY <2>1 DEF Made, Delivering
  <2>3. ASSUME NEW w PROVE NothingLost(w)' <=> NothingLost(w)
    <3>1. /\ Covered(w)' <=> Covered(w)
          /\ Young(w)' <=> Young(w)
          /\ Promised(w)' <=> Promised(w)
          /\ Traced(w)' <=> Traced(w)
          /\ Last' = Last
      BY <2>1, <2>2 DEF Covered, Young, Promised, Traced, Alone, Overlaps, Held, OnTheAir, Last
    <3> QED
      BY <2>1, <3>1 DEF NothingLost
  <2> QED
    BY <2>1, <2>2, <2>3 DEF LossInv
<1> QED
  BY <1>1, <1>2, <1>3, <1>4, <1>5, <1>6, <1>7, <1>8 DEF Next, Silence

(* Without altered packets nothing is lost but what was not received       *)
(* (DECISIONS.md:17; lora_rx.py:83-129): no receiving thread stops, and    *)
(* once everything sent is handled each cycle of which two residues        *)
(* arrived in time has its key delivered, from its own residues or those   *)
(* of an earlier cycle with the same id.  When the id was drawn before     *)
(* within the timeout, which a reboot allows, all three are needed: an     *)
(* assembly that expires takes one of them at most.                        *)
THEOREM LossTolerated == Spec => []LossIsTolerated
<1>1. LoRaInv /\ LossInv => LossIsTolerated
  <2> SUFFICES ASSUME LoRaInv, LossInv, altered = 0 PROVE LossIsTolerated
    BY DEF LossIsTolerated
  <2>1. ASSUME Quiet, NEW w \in DOMAIN wakes, Promised(w)
        PROVE  \E n \in DOMAIN delivered :
                 delivered[n].key = wakes[w].key /\ \E p \in delivered[n].packets : p.wake <= w
    <3>1. Covered(w)
      <4>1. CASE Young(w)
        <5>1. \A i \in Indices : channel[i] = <<>>
          BY <2>1 DEF Quiet
        <5> QED
          BY <2>1, <4>1, <5>1, SettledIsCovered
      <4>2. CASE ~Young(w)
        BY <2>1, <4>2 DEF LossInv, NothingLost
      <4> QED
        BY <4>1, <4>2
    <3>2. \A i \in Indices : ~Delivering(i)
      BY <2>1 DEF Quiet, Delivering, Waiting
    <3> QED
      BY <3>1, <3>2 DEF Covered, Made, Range
  <2>2. \A i \in Indices : thread[i] # Dead
    BY DEF LossInv
  <2> QED
    BY <2>1, <2>2 DEF LossIsTolerated
<1>2. Spec => [](LoRaInv /\ LossInv)
  BY LoRaInitInv, LoRaNextInv, LossInit, LossNext, PTL DEF Spec
<1> QED
  BY <1>1, <1>2, PTL
=============================================================================
