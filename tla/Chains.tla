--------------------------------- MODULE Chains ---------------------------------
(***************************************************************************)
(* The chains of the hash tables of disassembler.c and loader.c.  A chain is *)
(* the sequence of its nodes from the head; a node holds a key, which is an  *)
(* address there and a name here, and a value, a line or an address.         *)
(***************************************************************************)
EXTENDS Naturals, Sequences

CONSTANTS
  HASH_TABLE_SIZE,
  Addresses,     \* the addresses of lines and symbols
  MAX_CHAIN      \* a bound of the models

ASSUME ChainsAssumption ==
  /\ HASH_TABLE_SIZE \in Nat \ {0}
  /\ Addresses \subseteq Nat

Buckets == 0 .. HASH_TABLE_SIZE - 1

EmptyTable == [b \in Buckets |-> <<>>]

(* The walk for k stops at node i. *)
Stops(chain, k, i) ==
  /\ i \in DOMAIN chain
  /\ chain[i].key = k
  /\ \A j \in 1 .. i - 1 : chain[j].key # k

(* The value that the walk finds, none at the end of the chain. *)
Found(chain, k, none) ==
  IF \E i \in DOMAIN chain : Stops(chain, k, i)
  THEN chain[CHOOSE i \in DOMAIN chain : Stops(chain, k, i)].value
  ELSE none

(* A new node becomes the head. *)
Pushed(k, v, chain) == <<[key |-> k, value |-> v]>> \o chain
=============================================================================
