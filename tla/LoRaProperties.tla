--------------------------- MODULE LoRaProperties ---------------------------
(* What the residue transport promises of the readings it delivers.        *)
EXTENDS LoRaReceiver

(* The type invariant: a key is being assembled or was, never both; what is *)
(* kept incomplete lacks a residue or holds one no reading has.             *)
ReceiverTypeOK ==
  /\ sensor \in 0..Booting /\ clock \in 0..MaxTime /\ assembled \subseteq Keys
  /\ DOMAIN assemblies \subseteq Keys \ assembled
  /\ \A k \in DOMAIN assemblies : ~Decodes(assemblies[k].residues)
  /\ \A i \in Indices : \/ thread[i] \in {Waiting, Dead}
                        \/ thread[i].pc = "deliver" /\ thread[i].reading.key \in assembled
  /\ \A n \in DOMAIN delivered : delivered[n].key \in assembled

(* A key is delivered once while the receiver runs (lora_rx.py:107-118),    *)
(* whichever threads hold its residues, and whenever its id is drawn again. *)
DeliveredOnce ==
  \A m, n \in DOMAIN delivered : delivered[m].key = delivered[n].key => m = n

Intact(p) == p.residue = encode(wakes[p.wake].value)[p.index]

(* Cycle w woke while an assembly that the earlier cycle v of its key fed   *)
(* may have been alive.                                                     *)
Overlaps(v, w) ==
  v < w /\ wakes[v].key = wakes[w].key /\ wakes[w].woke < wakes[v].last + Timeout

(* A reading delivered from unaltered packets is what the device measured   *)
(* in one wake cycle, modulo the product of the moduli that arrived          *)
(* (lora_rx.py:107-131) - unless residues of several cycles met in it.  That *)
(* takes one reading_id drawn twice, the second time within the timeout of   *)
(* the residues sent before, and no cycle in between that ended in its sleep *)
(* (main.c:135-138): a reboot by a failed check (main.c:107-133) ended each. *)
DeliveredIsMeasured ==
  \A n \in DOMAIN delivered :
    LET packets == delivered[n].packets
    IN  (\A p \in packets : Intact(p)) =>
          /\ \A p, q \in packets : p.wake < q.wake =>
               Overlaps(p.wake, q.wake) /\ \A u \in p.wake .. q.wake - 1 : wakes[u].end = "reboot"
          /\ \A w \in DOMAIN wakes : (\A p \in packets : p.wake = w) =>
               delivered[n].value = wakes[w].value % ProductOf({p.index : p \in packets})

Quiet == \A i \in Indices : channel[i] = <<>> /\ thread[i] = Waiting

(* Two residues in time are enough, or all three when they may fall on      *)
(* either side of the end of an assembly that an earlier cycle began.       *)
Promised(w) ==
  /\ wakes[w].last < wakes[w].woke + Timeout
  /\ \/ wakes[w].sent = Indices
     \/ Cardinality(wakes[w].sent) >= 2 /\ ~\E v \in DOMAIN wakes : Overlaps(v, w)

(* Without altered packets nothing is lost but what was not received:       *)
(* lost packets, reboots, late residues and ids used again stop no          *)
(* receiving thread (lora_rx.py:83-91,114-116), and once everything sent is *)
(* handled, each key of which enough residues arrived in time was delivered *)
(* (DECISIONS.md:17; lora_rx.py:107-129), from this cycle's residues or,    *)
(* the one loss left, with those of an earlier cycle that drew the same id. *)
(* Enough are two, but all three when that id was drawn before within the   *)
(* timeout, which takes a reboot.                                           *)
LossIsTolerated ==
  altered = 0 =>
    /\ \A i \in Indices : thread[i] # Dead
    /\ Quiet =>
         \A w \in DOMAIN wakes : Promised(w) =>
           \E n \in DOMAIN delivered :
             /\ delivered[n].key = wakes[w].key
             /\ \E p \in delivered[n].packets : p.wake <= w
=============================================================================
