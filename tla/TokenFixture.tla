----------------------------- MODULE TokenFixture -----------------------------
(***************************************************************************)
(* The token the console is tried with (contracts/token-fixture).  A call  *)
(* that is not authorised, that fails an assertion or that overflows, the  *)
(* build having overflow checks, traps, and changes nothing.  Amounts are  *)
(* signed, and no call looks at their sign.                                *)
(***************************************************************************)
EXTENDS Integers, FiniteSets, Functions

CONSTANTS
  Holder,    \* addresses
  NoAdmin,
  Amount,    \* amounts that calls name
  MaxAmount  \* the largest i128

ASSUME TokenAssumption ==
  /\ NoAdmin \notin Holder /\ IsFiniteSet(Holder)
  /\ MaxAmount \in Nat /\ Amount \subseteq - MaxAmount .. MaxAmount

VARIABLES
  admin,    \* DataKey::Admin
  balance,  \* DataKey::Balance(account), 0 where there is none
  supply,   \* history: the amounts minted, and those of transfers to their own sender
  negative  \* history: an amount below 0 was minted or transferred

tokenVars == <<admin, balance, supply, negative>>

I128 == - (MaxAmount + 1) .. MaxAmount

TokenInit ==
  /\ admin = NoAdmin /\ balance = [h \in Holder |-> 0]
  /\ supply = 0 /\ negative = FALSE

(* init, which can be called again, by whoever wants to be the admin. *)
InitToken(h) ==
  /\ admin' = h
  /\ UNCHANGED <<balance, supply, negative>>

Mint(to, amount) ==
  /\ admin # NoAdmin
  /\ balance[to] + amount \in I128
  /\ balance' = [balance EXCEPT ![to] = @ + amount]
  /\ supply' = supply + amount /\ negative' = (negative \/ amount < 0)
  /\ UNCHANGED admin

(* Mutant: without its assertion. *)
MovesUnasserted(from, to, amount) ==
  balance' = [[balance EXCEPT ![from] = balance[from] - amount]
                      EXCEPT ![to] = balance[to] + amount]

(* Both balances are read before either is written: the second write of a  *)
(* transfer to oneself undoes the first.                                   *)
Moves(from, to, amount) ==
  /\ balance[from] >= amount
  /\ balance' = [[balance EXCEPT ![from] = balance[from] - amount]
                         EXCEPT ![to] = balance[to] + amount]

TokenTransfer(from, to, amount) ==
  /\ balance[from] - amount \in I128 /\ balance[to] + amount \in I128
  /\ Moves(from, to, amount)
  /\ supply' = IF from = to THEN supply + amount ELSE supply
  /\ negative' = (negative \/ amount < 0)
  /\ UNCHANGED admin

TokenNext ==
  \E h \in Holder :
    \/ InitToken(h)
    \/ \E amount \in Amount :
         \/ Mint(h, amount)
         \/ \E to \in Holder : TokenTransfer(h, to, amount)

TokenSpec == TokenInit /\ [][TokenNext]_tokenVars

-----------------------------------------------------------------------------
TokenTypeOK ==
  /\ admin \in Holder \cup {NoAdmin} /\ balance \in [Holder -> I128]
  /\ supply \in Int /\ negative \in BOOLEAN

(* A transfer neither makes nor loses anything, except one to its own      *)
(* sender, which adds its amount.                                          *)
SupplyIsKept == SumFunction(balance) = supply

(* Nobody owes anything, unless a negative amount was named.               *)
NobodyOwes == ~ negative => \A h \in Holder : balance[h] >= 0

(* Together: the token moves what was minted.                              *)
TokenInv == TokenTypeOK /\ SupplyIsKept /\ NobodyOwes
=============================================================================
