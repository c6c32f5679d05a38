--------------------------- MODULE RefundContract ---------------------------
(***************************************************************************)
(* What refundService.execute promises its callers, whatever runs at the   *)
(* same time, is refused or dies: a call gives money back at most once,    *)
(* never more than is left of its order, and books only what it has given. *)
(* A call that dies keeps its phase.  Refunds implements it; Returns is    *)
(* built on it.                                                            *)
(***************************************************************************)
EXTENDS Integers, FiniteSets, Functions

CONSTANTS
  Orders,      \* orders that were paid
  Total,       \* Total[o]: the order's total
  Calls,       \* calls of execute
  About        \* About[c]: the order call c is about

VARIABLES
  phase,       \* phase[c]: "open", then "given" and "booked", or "refused"
  sum          \* sum[c]: what c has given back

contractVars == <<phase, sum>>

Given(o) ==
  SumFunctionOnSet(sum, {c \in Calls : About[c] = o /\ phase[c] \in {"given", "booked"}})

ContractInit ==
  /\ phase = [c \in Calls |-> "open"]
  /\ sum = [c \in Calls |-> 0]

Give(c, n) ==
  /\ phase[c] = "open"
  /\ n > 0 /\ Given(About[c]) + n <= Total[About[c]]
  /\ phase' = [phase EXCEPT ![c] = "given"]
  /\ sum' = [sum EXCEPT ![c] = n]

Settle(c) ==
  /\ phase[c] = "given"
  /\ phase' = [phase EXCEPT ![c] = "booked"]
  /\ UNCHANGED sum

Decline(c) ==
  /\ phase[c] = "open"
  /\ phase' = [phase EXCEPT ![c] = "refused"]
  /\ UNCHANGED sum

ContractNext ==
  \E c \in Calls :
    \/ Settle(c) \/ Decline(c)
    \/ \E n \in 1 .. Total[About[c]] : Give(c, n)

ContractSpec == ContractInit /\ [][ContractNext]_contractVars
=============================================================================
