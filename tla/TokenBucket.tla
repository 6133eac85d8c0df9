---------------------------- MODULE TokenBucket ----------------------------
(***************************************************************************)
(* What the rate limiter promises each client: a bucket that is refilled   *)
(* as time passes, up to its capacity, and pays for the requests.          *)
(***************************************************************************)
EXTENDS Integers

CONSTANTS Clients, Rate, Burst, Cost

VARIABLE tokens   \* what each client could spend right now

Init == tokens = [k \in Clients |-> Burst]

\* A request is let through and paid for.
Pay(k) == tokens[k] >= Cost /\ tokens' = [tokens EXCEPT ![k] = @ - Cost]

\* Time passes.
Refill ==
  tokens' = [k \in Clients |->
               IF tokens[k] + Rate < Burst THEN tokens[k] + Rate ELSE Burst]

Next == Refill \/ \E k \in Clients : Pay(k)

Spec == Init /\ [][Next]_tokens

============================================================================
