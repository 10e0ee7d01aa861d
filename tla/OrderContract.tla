----------------------------- MODULE OrderContract -----------------------------
(***************************************************************************)
(* What an order promises, seen from outside: it is opened, it may be      *)
(* taken up once, and it ends issued, which takes a signed certificate, or *)
(* failed; it never moves back.  The CA signs for it at most once.  This   *)
(* is the state table of docs/plan.html, section 05, with the comment on   *)
(* UpdateIfStatus.  The one exception is an order that has been taken up   *)
(* or closed and is then overtaken: written by a call that read it before. *)
(***************************************************************************)
CONSTANT Orders

VARIABLES
  state,   \* state[o]: the status a client sees
  signed,  \* the orders the CA has signed a certificate for
  overtaken

contractVars == <<state, signed, overtaken>>

ContractInit ==
  /\ state = [o \in Orders |-> "none"]
  /\ signed = {}
  /\ overtaken = {}

Move(o, from, to) == state[o] = from /\ state' = [state EXCEPT ![o] = to]

Open(o) == Move(o, "none", "awaiting_validation") /\ UNCHANGED <<signed, overtaken>>
Take(o) == Move(o, "awaiting_validation", "issuing") /\ UNCHANGED <<signed, overtaken>>

\* (An authority that decides at once has signed before the order is opened.)
Sign(o) ==
  /\ o \notin signed
  /\ signed' = signed \cup {o}
  /\ UNCHANGED <<state, overtaken>>

Close(o) == Move(o, "issuing", "issued") /\ o \in signed /\ UNCHANGED <<signed, overtaken>>

Fail(o) ==
  /\ Move(o, "awaiting_validation", "failed") \/ Move(o, "issuing", "failed")
  /\ UNCHANGED <<signed, overtaken>>

\* Whatever is written for an order that is or has been overtaken, issued takes a signature.
Overtake(o) ==
  /\ state[o] \in {"issuing", "issued", "failed"} \/ o \in overtaken
  /\ \E s \in {"awaiting_validation", "failed", "issued"} :
       /\ s = "issued" => o \in signed
       /\ state' = [state EXCEPT ![o] = s]
  /\ overtaken' = overtaken \cup {o}
  /\ UNCHANGED signed

ContractNext ==
  \E o \in Orders : Open(o) \/ Take(o) \/ Sign(o) \/ Close(o) \/ Fail(o) \/ Overtake(o)

ContractSpec == ContractInit /\ [][ContractNext]_contractVars
=============================================================================
