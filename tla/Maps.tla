-------------------------------- MODULE Maps --------------------------------
(***************************************************************************)
(* A map (HashMap, BTreeMap, a sled tree) is a function on the keys it     *)
(* has, a list (Vec) a sequence.                                           *)
(***************************************************************************)
EXTENDS Integers, Sequences

\* insert: a value under a key, over the one that was there.
With(map, key, value) == [k \in DOMAIN map \union {key} |-> IF k = key THEN value ELSE map[k]]

\* remove.
Without(map, key) == [k \in DOMAIN map \ {key} |-> map[k]]

\* extend: every entry of upper, and those of lower under other keys.
Over(upper, lower) ==
  [k \in DOMAIN upper \union DOMAIN lower |-> IF k \in DOMAIN upper THEN upper[k] ELSE lower[k]]

\* retain: the elements of the list that are in S, in their order.
Retained(list, S) ==
  LET kept[i \in 0 .. Len(list)] ==
        IF i = 0 THEN <<>>
        ELSE IF list[i] \in S THEN Append(kept[i - 1], list[i]) ELSE kept[i - 1]
  IN  kept[Len(list)]
=============================================================================
