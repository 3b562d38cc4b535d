------------------------------- MODULE Erc20 -------------------------------
(***************************************************************************)
(* The part of an ERC-20 token that the contracts of contracts/src rely on *)
(* (IERC20 and SafeERC20 of OpenZeppelin, which is not vendored in the     *)
(* repository).  A ledger is a function from accounts to balances.  A      *)
(* transfer that the balance does not cover reverts the whole transaction, *)
(* so callers use Covers as a guard.  Every payer is taken to have given   *)
(* the contract an unlimited allowance, as the contract tests do.          *)
(***************************************************************************)
EXTENDS Integers

Covers(ledger, from, amount) == amount <= ledger[from]

Transfer(ledger, from, to, amount) ==
  [ledger EXCEPT ![from] = @ - amount, ![to] = @ + amount]

=============================================================================
