----------------------------- MODULE AccessList -----------------------------
(***************************************************************************)
(* The EIP-2929 access list of x/evm/statedb/access_list.go, as operators  *)
(* from an access list to an access list.                                  *)
(*                                                                         *)
(* The Go type keeps a map from address to an index into a slice of slot   *)
(* sets; the index -1 marks an address without slots.  The slice is        *)
(* 0-based in Go, so the slots of address a are al.slots[idx + 1] here.    *)
(***************************************************************************)
EXTENDS Integers, Sequences, FiniteSets

CONSTANTS Addr, Key

Absent == -2      \* the address is not a key of the Go map
NoSlots == -1     \* the address is present and has no slots

newAccessList == [addresses |-> [a \in Addr |-> Absent], slots |-> << >>]

AccessLists == [addresses : [Addr -> Int], slots : Seq(SUBSET Key)]

ContainsAddress(al, a) == al.addresses[a] # Absent

Contains(al, a, k) ==
  /\ al.addresses[a] \notin {Absent, NoSlots}
  /\ k \in al.slots[al.addresses[a] + 1]

(* Faulty variant: no test for an address that is present.                 *)
AddAddress_unconditional(al, a) == [al EXCEPT !.addresses[a] = NoSlots]

AddAddress(al, a) ==
  IF ContainsAddress(al, a) THEN al ELSE [al EXCEPT !.addresses[a] = NoSlots]

AddSlot(al, a, k) ==
  IF al.addresses[a] \in {Absent, NoSlots}
  THEN [addresses |-> [al.addresses EXCEPT ![a] = Len(al.slots)],
        slots     |-> Append(al.slots, {k})]
  ELSE [al EXCEPT !.slots[al.addresses[a] + 1] = @ \cup {k}]

(* DeleteSlot panics when the address is absent, and indexes out of range  *)
(* when the address has no slot set.                                       *)
DeleteSlotFaults(al, a) == al.addresses[a] + 1 \notin 1 .. Len(al.slots)

DeleteSlot(al, a, k) ==
  LET idx == al.addresses[a]
      left == al.slots[idx + 1] \ {k}
  IN  IF left = {}
      THEN [addresses |-> [al.addresses EXCEPT ![a] = NoSlots],
            slots     |-> SubSeq(al.slots, 1, idx)]
      ELSE [al EXCEPT !.slots[idx + 1] = left]

DeleteAddress(al, a) == [al EXCEPT !.addresses[a] = Absent]

(* What SlotInAccessList and AddressInAccessList answer, as a set.         *)
Warm(al) ==
  {<<a>> : a \in {x \in Addr : ContainsAddress(al, x)}}
    \cup {p \in Addr \X Key : Contains(al, p[1], p[2])}

(* The index is a bijection between the addresses that have slots and the  *)
(* slot sets, none of which is empty.                                      *)
Indexed(al) ==
  LET idx == al.addresses
      indexed == {a \in Addr : idx[a] \notin {Absent, NoSlots}}
  IN  /\ {idx[a] + 1 : a \in indexed} = 1 .. Len(al.slots)
      /\ \A a, b \in indexed : idx[a] = idx[b] => a = b
      /\ \A i \in 1 .. Len(al.slots) : al.slots[i] # {}

=============================================================================
