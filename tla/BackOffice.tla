----------------------------- MODULE BackOffice -----------------------------
(***************************************************************************)
(* The Django admin form of a wallet beside the funding service.  The form *)
(* shows `balance` read-only and offers `status`, and it is the only way   *)
(* to freeze a wallet (wallet/admin.py, WalletAdmin).  Its request reads   *)
(* the row WITHOUT a lock, and saves the model object it read: Django then *)
(* updates every column of the row, the balances too, with the values that *)
(* were read.  SetWalletStatus of Funding is the case in which nothing     *)
(* happens between the two; here they are two actions.                     *)
(***************************************************************************)
EXTENDS Funding

CONSTANT NoForm

ASSUME BackOfficeAssumption == NoForm \notin Wallets

VARIABLE form      (* The row that the request of the form read.           *)

officeVars == <<vars, form>>

OfficeTypeOK == TypeOK /\ form \in [Customers -> Wallets \cup {NoForm}]

OfficeInit == Init /\ form = [c \in Customers |-> NoForm]

ReadForm(c) ==
  /\ form[c] = NoForm
  /\ form' = [form EXCEPT ![c] = wallet[c]]
  /\ UNCHANGED vars

\* Mutant: the form adds the balance it read to the stored one.
SaveForm_Adds(c, status) ==
  /\ form[c] # NoForm
  /\ Lockable(c)
  /\ wallet' = [wallet EXCEPT ![c].recharge = @ + form[c].recharge, ![c].status = status]
  /\ form' = [form EXCEPT ![c] = NoForm]
  /\ UNCHANGED <<txn, session, adminVars>>

\* The UPDATE waits for the row lock of the wallet and then overwrites it.
SaveForm(c, status) ==
  /\ form[c] # NoForm
  /\ Lockable(c)
  /\ wallet' = [wallet EXCEPT ![c] = [form[c] EXCEPT !.status = status]]
  /\ form' = [form EXCEPT ![c] = NoForm]
  /\ UNCHANGED <<txn, session, adminVars>>

OfficeNext ==
  \/ Next /\ UNCHANGED form
  \/ \E c \in Customers : \/ ReadForm(c)
                          \/ \E status \in WalletStatuses : SaveForm(c, status)

OfficeSpec == OfficeInit /\ [][OfficeNext]_officeVars

=============================================================================
