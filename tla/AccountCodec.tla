---------------------------- MODULE AccountCodec ----------------------------
(* How an account is stored, Account::encode and Account::decode of        *)
(* crates/sena-stf/src/account.rs over the Reader of                       *)
(* crates/sena-primitives/src/codec.rs.  An integer of any width is one    *)
(* cell; a cell cut short is one that is missing.                          *)
EXTENDS Integers, SequencesExt

CONSTANTS
  Cells,       \* the integers a cell may hold
  MaxCells     \* bound: the length of an encoding

VARIABLE cells   \* the bytes of a slot, as they might be found

encode_account(a) ==
  LET assets == SetToSortSeq(DOMAIN a.balances, <)
  IN  <<a.nonce, Len(assets)>>
      \o FlattenSeq([i \in DOMAIN assets |-> <<assets[i], a.balances[assets[i]]>>])

entries(c) == 1..((Len(c) - 2) \div 2)
asset_at(c, i) == c[2 * i + 1]
amount_at(c, i) == c[2 * i + 2]

(* As many entries as counted and nothing after them, the assets strictly  *)
(* increasing, no amount zero.                                             *)
can_decode_slip(c) ==
  /\ Len(c) >= 2
  /\ Len(c) = 2 + 2 * c[2]
  /\ \A i \in entries(c) :
       /\ i > 1 => asset_at(c, i - 1) <= asset_at(c, i)
       /\ amount_at(c, i) # 0

can_decode(c) ==
  /\ Len(c) >= 2
  /\ Len(c) = 2 + 2 * c[2]
  /\ \A i \in entries(c) :
       /\ i > 1 => asset_at(c, i - 1) < asset_at(c, i)
       /\ amount_at(c, i) # 0

decode(c) ==
  [nonce    |-> c[1],
   balances |-> [a \in {asset_at(c, i) : i \in entries(c)} |->
                   amount_at(c, CHOOSE i \in entries(c) : asset_at(c, i) = a)]]
-----------------------------------------------------------------------------
CodecInit == cells = <<>>

CodecNext ==
  /\ Len(cells) < MaxCells
  /\ \E c \in Cells : cells' = Append(cells, c)

(* An account has one encoding: whatever decodes is what the account it    *)
(* decodes to is written as, so the two sides of a dispute and L1 commit   *)
(* to the same bytes, and an entry out of order, repeated or zero, or a    *)
(* cell too many or too few, is refused.                                   *)
OneEncoding == can_decode(cells) => encode_account(decode(cells)) = cells
=============================================================================
