------------------------------- MODULE Bridge -------------------------------
(***************************************************************************)
(* The bridge of move/sena/sources/bridge.move: custody, deposits,         *)
(* withdrawals against finalized assertions, and forced inclusion.  It     *)
(* reads the chain only through finalized_root, so the chain is any that   *)
(* keeps the promise of Settlement, as Assertions is shown to.  What       *)
(* credits a deposit on L2 and what debits a withdrawal there is not in    *)
(* the repository; the balances under a root are a parameter.              *)
(***************************************************************************)
EXTENDS Integers

CONSTANTS
  Claim, RootClaim, NoClaim,   \* of the chain
  Users,
  HeldAt,          \* the balance of each user under the root of each claim
  AMOUNT_MAX,      \* the largest amount of the bridged asset
  Amounts,         \* what may be deposited
  Funds,           \* what each user holds at the start
  MaxDeposits,
  FORCED_INCLUSION_TIMEOUT,
  Entries,         \* identifiers of forced entries
  MaxBridgeTime

ASSUME BridgeAssumption ==
  /\ HeldAt \in [Claim -> [Users -> Nat]]
  /\ {AMOUNT_MAX, FORCED_INCLUSION_TIMEOUT} \subseteq Nat

VARIABLES
  parent, fate,     \* the chain
  wallets,          \* what each user holds on L1
  custody, spent, deposit_count, forced,   \* the Bridge
  paid,             \* what was paid for each claim and user
  bridge_now

bridgeVars ==
  <<parent, fate, wallets, custody, spent, deposit_count, forced, paid, bridge_now>>

Chain == INSTANCE Settlement

BridgeInit ==
  /\ Chain!Init
  /\ wallets = [u \in Users |-> Funds]
  /\ custody = 0
  /\ spent = {}
  /\ deposit_count = 0
  /\ forced = <<>>
  /\ paid = [w \in Claim \X Users |-> 0]
  /\ bridge_now = 0

deposit(who, amount) ==
  /\ amount > 0
  /\ wallets[who] >= amount
  /\ deposit_count < MaxDeposits
  /\ wallets' = [wallets EXCEPT ![who] = @ - amount]
  /\ custody' = custody + amount
  /\ deposit_count' = deposit_count + 1
  /\ UNCHANGED <<parent, fate, spent, forced, paid, bridge_now>>

(* finalized_root aborts for any other assertion.                          *)
has_finalized_root(id) == id \in Chain!Made /\ fate[id] = "final"

withdrawal_id_slip(id, who) == <<id, who, custody>>

withdrawal_id(id, who) == <<id, who>>

(* The slot is the claimant's own, so that the value that proves against   *)
(* the root is the claimant's balance.                                     *)
withdraw(who, id) ==
  LET balance == HeldAt[id][who]
  IN  /\ has_finalized_root(id)
      /\ withdrawal_id(id, who) \notin spent
      /\ balance > 0
      /\ balance <= AMOUNT_MAX
      /\ custody >= balance
      /\ spent' = spent \cup {withdrawal_id(id, who)}
      /\ custody' = custody - balance
      /\ wallets' = [wallets EXCEPT ![who] = @ + balance]
      /\ paid' = [paid EXCEPT ![<<id, who>>] = @ + balance]
      /\ UNCHANGED <<parent, fate, deposit_count, forced, bridge_now>>

queued_by(who) == [submitter |-> who, submitted_at |-> bridge_now, included |-> FALSE]

force_include_slip(who, entry) ==
  /\ forced' = [e \in DOMAIN forced \cup {entry} |->
                  IF e = entry THEN queued_by(who) ELSE forced[e]]
  /\ UNCHANGED <<parent, fate, wallets, custody, spent, deposit_count, paid, bridge_now>>

force_include(who, entry) ==
  /\ entry \notin DOMAIN forced
  /\ forced' = [e \in DOMAIN forced \cup {entry} |->
                  IF e = entry THEN queued_by(who) ELSE forced[e]]
  /\ UNCHANGED <<parent, fate, wallets, custody, spent, deposit_count, paid, bridge_now>>

mark_included(entry) ==
  /\ entry \in DOMAIN forced
  /\ forced' = [forced EXCEPT ![entry].included = TRUE]
  /\ UNCHANGED <<parent, fate, wallets, custody, spent, deposit_count, paid, bridge_now>>

is_overdue(entry) ==
  /\ ~forced[entry].included
  /\ bridge_now >= forced[entry].submitted_at + FORCED_INCLUSION_TIMEOUT

ChainMoves ==
  /\ Chain!Next
  /\ UNCHANGED <<wallets, custody, spent, deposit_count, forced, paid, bridge_now>>

BridgeTick ==
  /\ bridge_now < MaxBridgeTime
  /\ bridge_now' = bridge_now + 1
  /\ UNCHANGED <<parent, fate, wallets, custody, spent, deposit_count, forced, paid>>

BridgeNext ==
  \/ \E who \in Users :
       \/ \E amount \in Amounts : deposit(who, amount)
       \/ \E id \in Claim : withdraw(who, id)
       \/ \E entry \in Entries : force_include(who, entry)
  \/ \E entry \in Entries : mark_included(entry)
  \/ ChainMoves
  \/ BridgeTick

BridgeSpec == BridgeInit /\ [][BridgeNext]_bridgeVars
-----------------------------------------------------------------------------
(* Money leaves custody only for an assertion that is final, which it      *)
(* stays whatever the chain does later, and for each user and assertion at *)
(* most the balance that user has under that root, however often the       *)
(* withdrawal is sent and whatever is deposited or paid in between.        *)
PaidOnceAndFinal ==
  \A w \in Claim \X Users :
    paid[w] > 0 => /\ w[1] \in Chain!Made
                   /\ fate[w[1]] = "final"
                   /\ paid[w] <= HeldAt[w[1]][w[2]]

(* A forced entry that is past its time stays so until it is included:     *)
(* submitting it again, by anyone, does not restart its clock.             *)
OverdueUntilIncluded ==
  [][\A entry \in DOMAIN forced :
       is_overdue(entry) => forced'[entry].included \/ is_overdue(entry)']_bridgeVars
=============================================================================
