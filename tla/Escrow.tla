------------------------------- MODULE Escrow -------------------------------
(***************************************************************************)
(* What a campaign promises its investors, whatever code carries it out:   *)
(* every unit an investor puts in sits in exactly one of three places, the *)
(* investor's own wallet, the escrow, or the SME; the escrow pays the SME  *)
(* all at once and only from Target up; whatever it does not pay the SME   *)
(* goes back to the wallet it came from; and each of the two ends, "paid"  *)
(* and "returning", is final.                                              *)
(***************************************************************************)
EXTENDS Integers

CONSTANTS Investors, Target

VARIABLES phase,    \* "open", "paid" or "returning"
          wallet,   \* wallet[i]: what investor i holds
          held,     \* held[i]: what the escrow holds for i
          paid,     \* paid[i]: what of i's money went to the SME
          pot       \* what counts towards Target while the escrow is open

vars == <<phase, wallet, held, paid, pot>>

Init ==
  /\ phase = "open"
  /\ wallet \in [Investors -> Nat]
  /\ held = [i \in Investors |-> 0]
  /\ paid = [i \in Investors |-> 0]
  /\ pot = 0

\* i puts a more in, and the pot stays below the target.
Deposit(i, a) ==
  /\ phase = "open"
  /\ pot + a < Target
  /\ wallet' = [wallet EXCEPT ![i] = @ - a]
  /\ held' = [held EXCEPT ![i] = @ + a]
  /\ pot' = pot + a
  /\ UNCHANGED <<phase, paid>>

\* i puts in the amount that reaches the target: the SME is paid at once.
DepositAndPay(i, a) ==
  /\ phase = "open"
  /\ pot + a >= Target
  /\ wallet' = [wallet EXCEPT ![i] = @ - a]
  /\ paid' = [held EXCEPT ![i] = @ + a]
  /\ held' = [j \in Investors |-> 0]
  /\ pot' = pot + a
  /\ phase' = "paid"

\* i takes everything back while the escrow is open.
TakeBack(i) ==
  /\ phase = "open"
  /\ wallet' = [wallet EXCEPT ![i] = @ + held[i]]
  /\ held' = [held EXCEPT ![i] = 0]
  /\ pot' = pot - held[i]
  /\ UNCHANGED <<phase, paid>>

\* The escrow closes without paying, and returns what it holds for S.
Return(S) ==
  /\ phase \in {"open", "returning"}
  /\ wallet' = [i \in Investors |-> IF i \in S THEN wallet[i] + held[i] ELSE wallet[i]]
  /\ held' = [i \in Investors |-> IF i \in S THEN 0 ELSE held[i]]
  /\ phase' = "returning"
  /\ pot' = 0
  /\ UNCHANGED paid

Next ==
  \/ \E i \in Investors :
       \/ \E a \in 1..wallet[i] : Deposit(i, a) \/ DepositAndPay(i, a)
       \/ TakeBack(i)
  \/ \E S \in SUBSET Investors : Return(S)

Spec == Init /\ [][Next]_vars
=============================================================================
