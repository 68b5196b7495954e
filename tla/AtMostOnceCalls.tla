-------------------------- MODULE AtMostOnceCalls --------------------------
(* What a caller may rely on when it submits readings through a client     *)
(* that retries: a submission takes effect at most once, one reported as   *)
(* done has taken effect, and so has one reported as a replay; one that    *)
(* failed otherwise may have, or may still.                                *)
EXTENDS Naturals, Sequences

CONSTANTS MaxCalls   \* bound on the calls made

VARIABLES outcome,   \* what the caller of each submission has been told
          effects    \* how often each submission took effect

vars == <<outcome, effects>>

Init == outcome = <<>> /\ effects = <<>>

Submit ==
  /\ Len(outcome) < MaxCalls
  /\ outcome' = Append(outcome, "open")
  /\ effects' = Append(effects, 0)

TakeEffect(n) ==
  /\ effects[n] = 0
  /\ outcome[n] \in {"open", "raised"}
  /\ effects' = [effects EXCEPT ![n] = 1]
  /\ UNCHANGED outcome

Close(n, told) ==
  /\ outcome[n] = "open"
  /\ told \in {"returned", "replay"} => effects[n] = 1
  /\ outcome' = [outcome EXCEPT ![n] = told]
  /\ UNCHANGED effects

Next ==
  \/ Submit
  \/ \E n \in DOMAIN outcome :
       TakeEffect(n) \/ \E told \in {"returned", "replay", "raised"} : Close(n, told)

Spec == Init /\ [][Next]_vars
=============================================================================
