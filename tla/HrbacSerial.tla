---------------------------- MODULE HrbacSerial ----------------------------
(* What clients are promised of a smart contract: its functions take       *)
(* effect one at a time, each on the world state the previous ones left.   *)
(* The contract is a parameter; HrbacLedger instantiates it with HRBAC's.  *)
EXTENDS Sequences

CONSTANTS Calls,          \* the calls clients make
          TxIds,          \* transaction identifiers
          Times,          \* transaction timestamps
          InitialWorld,   \* the world state before the first transaction
          Accepts(_, _),  \* whether a transaction runs without an error
          Effect(_, _),   \* what it then does
          Apply(_, _)     \* a world state after an effect

VARIABLES world,    \* the world state
          log,      \* the transactions that took effect, in order
          answers   \* what each of them answered

vars == <<world, log, answers>>

Init == world = InitialWorld /\ log = <<>> /\ answers = <<>>

Execute(tx) ==
  /\ log' = Append(log, tx)
  /\ Accepts(world, tx)
  /\ world' = Apply(world, Effect(world, tx))
  /\ answers' = Append(answers, Effect(world, tx).answer)

Next == \E id \in TxIds, call \in Calls, t \in Times :
          Execute([id |-> id, call |-> call, ts |-> t])

Spec == Init /\ [][Next]_vars
=============================================================================
