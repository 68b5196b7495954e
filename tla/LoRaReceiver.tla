---------------------------- MODULE LoRaReceiver ----------------------------
(* Residue transport: a sensor wakes, encodes a reading and sends its three *)
(* residues, one on each channel (esp32/main/main.c, lora_tx.c); the       *)
(* gateway's receiver has a thread per channel and assembles a reading     *)
(* from the first two that arrive (gateway/lora_rx.py).  Packets carry no  *)
(* CRC and may be lost or altered, and the sensor reboots at any moment.   *)
(* A reading is known by device and reading_id, its key.                   *)
EXTENDS CrtCode, Sequences

CONSTANTS Keys,              \* (device_id, reading_id), of one device
          Values,            \* encoded sensor values
          Wild,              \* a byte that is no residue
          Timeout,           \* timeout_seconds
          SleepCycle,        \* how long a deep sleep lasts
          MaxWakes,          \* bound on the wake cycles
          MaxAltered,        \* bound on the packets altered on the way
          MaxTime            \* bound of the clock

(* SLEEP_CYCLE_US is 30 minutes, timeout_seconds 60.                       *)
ASSUME ReceiverAssumption ==
  /\ Timeout \in Nat \ {0} /\ SleepCycle \in Nat /\ SleepCycle >= Timeout
  /\ Values \subseteq Nat /\ Wild \in Nat /\ \A i \in Indices : Wild >= Modulus[i]
  /\ MaxWakes \in Nat /\ MaxAltered \in Nat /\ MaxTime \in Nat

VARIABLES sensor,       \* the residue the device sends next, or what it does else
          wakes,        \* the wake cycles: key, value, residues that arrive, when it
                        \* woke and last sent, how it ends
          channel,      \* packets on each channel not yet received
          altered,      \* packets altered so far
          assemblies,   \* _assemblies
          assembled,    \* _assembled
          thread,       \* the receiving threads
          delivered,    \* readings queued and called back, in order
          clock

radio == <<sensor, wakes, altered>>
receiver == <<assemblies, assembled, thread, delivered>>
vars == <<radio, channel, receiver, clock>>

Sent == 3       \* one past the last residue: awake, nothing left to send
Asleep == 4     \* esp_deep_sleep
Booting == 5    \* powered up, or started again after a failed check
Waiting == [pc |-> "waiting"]
Dead == [pc |-> "dead"]

Init ==
  /\ sensor = Booting /\ wakes = <<>> /\ altered = 0
  /\ channel = [i \in Indices |-> <<>>]
  /\ assemblies = [k \in {} |-> {}] /\ assembled = {}
  /\ thread = [i \in Indices |-> Waiting]
  /\ delivered = <<>> /\ clock = 0

-----------------------------------------------------------------------------
(* The sensor.                                                             *)

Last == Len(wakes)

(* app_main up to the first transmission: at once after a reboot, else     *)
(* when the deep sleep is over.  reading_id is drawn at random: any key    *)
(* may come up again.                                                      *)
Wake(k, v) ==
  /\ Last < MaxWakes
  /\ \/ sensor = Booting
     \/ sensor = Asleep /\ clock >= wakes[Last].last + SleepCycle
  /\ wakes' = Append(wakes, [key |-> k, value |-> v, sent |-> {}, woke |-> clock,
                            last |-> clock, end |-> "sleep"])
  /\ sensor' = 0
  /\ UNCHANGED <<altered, channel, receiver>>

Packet(i, residue) == [key |-> wakes[Last].key, index |-> i, residue |-> residue, wake |-> Last]

(* A residue of the reading goes out and arrives as it is or altered.      *)
TransmitResidue ==
  /\ sensor \in Indices
  /\ LET intact == encode(wakes[Last].value)[sensor]
     IN  \E residue \in {intact} \cup (IF altered < MaxAltered THEN {0, Wild} ELSE {}) :
           /\ channel' = [channel EXCEPT ![sensor] = Append(@, Packet(sensor, residue))]
           /\ altered' = altered + (IF residue = intact THEN 0 ELSE 1)
  /\ sensor' = sensor + 1
  /\ wakes' = [wakes EXCEPT ![Last].sent = @ \cup {sensor}, ![Last].last = clock]
  /\ UNCHANGED receiver

(* It goes out and nobody hears it.                                        *)
LoseResidue ==
  /\ sensor \in Indices
  /\ sensor' = sensor + 1
  /\ wakes' = [wakes EXCEPT ![Last].last = clock]
  /\ UNCHANGED <<altered, channel, receiver>>

(* The end of app_main.                                                    *)
Sleep ==
  /\ sensor = Sent
  /\ sensor' = Asleep
  /\ UNCHANGED <<wakes, altered, channel, receiver>>

(* A check that fails, in lora_transmit_residue_packets before, during or  *)
(* after any packet, reboots the device without the sleep; so does a power *)
(* cut, awake or asleep.  The residues left are never sent.                *)
Reboot ==
  /\ sensor # Booting
  /\ sensor' = Booting
  /\ wakes' = [wakes EXCEPT ![Last].end = "reboot"]
  /\ UNCHANGED <<altered, channel, receiver>>

-----------------------------------------------------------------------------
(* The receiver.                                                           *)

(* Slip: an assembly may still grow when it is Timeout old.                *)
ExpiredLate(assembly) == clock - assembly.first_seen > Timeout

Expired(assembly) == clock - assembly.first_seen >= Timeout

(* _expire_locked.                                                         *)
Unexpired == [k \in {l \in DOMAIN assemblies : ~Expired(assemblies[l])} |-> assemblies[k]]

With(f, k, x) == [l \in DOMAIN f \cup {k} |-> IF l = k THEN x ELSE f[l]]
Without(asm, k) == [l \in DOMAIN asm \ {k} |-> asm[l]]

(* The assembly of p's key with p in it; a residue of the same modulus is  *)
(* replaced.                                                               *)
Joined(asm, p) ==
  LET old == IF p.key \in DOMAIN asm THEN asm[p.key]
             ELSE [first_seen |-> clock, residues |-> [i \in {} |-> 0], packets |-> {}]
  IN  [old EXCEPT !.residues = With(@, p.index, p.residue), !.packets = @ \cup {p}]

(* Slip: the reading waits for all three residues.                         *)
EnoughAtThree(assembly) == Cardinality(DOMAIN assembly.residues) >= 3

Enough(assembly) == Cardinality(DOMAIN assembly.residues) >= 2

Reading(k, assembly) ==
  [key |-> k, value |-> decode(assembly.residues), packets |-> assembly.packets]

(* Slip: a completed reading is not remembered.                            *)
RememberNothing(k) == assembled

Remember(k) == assembled \cup {k}

(* process_packet under the lock.  decode raises on a residue out of       *)
(* range: the assembly stays as it is and the thread is gone.              *)
Receive(i) ==
  /\ thread[i] = Waiting /\ channel[i] # <<>>
  /\ channel' = [channel EXCEPT ![i] = Tail(@)]
  /\ LET p == Head(channel[i])
         joined == Joined(Unexpired, p)
         kept == With(Unexpired, p.key, joined)
     IN  \/ /\ p.key \in assembled
            /\ assemblies' = Unexpired
            /\ UNCHANGED <<assembled, thread>>
         \/ /\ p.key \notin assembled /\ ~Enough(joined)
            /\ assemblies' = kept
            /\ UNCHANGED <<assembled, thread>>
         \/ /\ p.key \notin assembled /\ Enough(joined) /\ ~Decodes(joined.residues)
            /\ assemblies' = kept
            /\ thread' = [thread EXCEPT ![i] = Dead]
            /\ UNCHANGED assembled
         \/ /\ p.key \notin assembled /\ Enough(joined) /\ Decodes(joined.residues)
            /\ assemblies' = Without(kept, p.key)
            /\ assembled' = Remember(p.key)
            /\ thread' = [thread EXCEPT ![i] = [pc |-> "deliver", reading |-> Reading(p.key, joined)]]
  /\ UNCHANGED <<radio, delivered>>

(* The lock released: the reading is queued and called back.               *)
Deliver(i) ==
  /\ thread[i].pc = "deliver"
  /\ delivered' = Append(delivered, thread[i].reading)
  /\ thread' = [thread EXCEPT ![i] = Waiting]
  /\ UNCHANGED <<radio, channel, assemblies, assembled>>

(* expire_incomplete, called at any time.                                  *)
ExpireIncomplete ==
  /\ Unexpired # assemblies
  /\ assemblies' = Unexpired
  /\ UNCHANGED <<radio, channel, assembled, thread, delivered>>

(* Threads are faster than the clock: what a live thread can receive or    *)
(* deliver, it does before the next tick.                                  *)
Tick ==
  /\ clock < MaxTime
  /\ \A i \in Indices : /\ thread[i].pc # "deliver"
                        /\ thread[i] = Waiting => channel[i] = <<>>
  /\ clock' = clock + 1
  /\ UNCHANGED <<radio, channel, receiver>>

Next ==
  \/ /\ \/ \E k \in Keys, v \in Values : Wake(k, v)
        \/ TransmitResidue \/ LoseResidue \/ Sleep \/ Reboot
        \/ ExpireIncomplete
        \/ \E i \in Indices : Receive(i) \/ Deliver(i)
     /\ UNCHANGED clock
  \/ Tick

Spec == Init /\ [][Next]_vars
=============================================================================
