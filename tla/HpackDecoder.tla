----------------------------- MODULE HpackDecoder -----------------------------
(***************************************************************************)
(* The dynamic-table half of the tolerant HPACK decoder                    *)
(* (crates/h2core/src/hpack.rs, struct Decoder) as operators on a record:  *)
(*                                                                         *)
(*   table     entries observed, newest first: dynamic index i is table[i] *)
(*   size      bytes the table accounts for                                *)
(*   max       max_size                                                    *)
(*   exact     the flag: no pre-capture entry can still be in the table    *)
(*   observed  capacity_observed                                           *)
(*   over      over_limit                                                  *)
(*                                                                         *)
(* The static table, string coding and Huffman coding are not state and    *)
(* are left out: a field is an opaque name and value with a size.  An      *)
(* entry carries `upto', the bytes from the newest entry down to and       *)
(* including itself, so that the loop of evict() needs no running sum.     *)
(***************************************************************************)
EXTENDS Integers, Sequences

CONSTANTS
  MinEntrySize,      \* MIN_ENTRY_SIZE, the 32 bytes RFC 7541 4.1 adds per entry
  DefaultTableSize,  \* DEFAULT_TABLE_SIZE, 4096
  PlaceholderLen,    \* length of the text "@unresolved-idx-N"
  TrackLimit         \* track_limit; above every capacity it stands for usize::MAX

ASSUME DecoderAssumption ==
  /\ MinEntrySize \in Nat \ {0}
  /\ DefaultTableSize \in Nat
  /\ PlaceholderLen \in Nat
  /\ TrackLimit \in Nat

PlaceholderName == 0

Entries == [name: Nat, nlen: Nat, val: Nat, unknown: BOOLEAN, upto: Nat]
Decoders == [table: Seq(Entries), size: Nat, max: Nat,
             exact: BOOLEAN, observed: BOOLEAN, over: BOOLEAN]

(* A field about to be inserted: upto is then its own size (Field::size).  *)
Field(name, nlen, val, vlen, unknown) ==
  [name |-> name, nlen |-> nlen, val |-> val, unknown |-> unknown,
   upto |-> nlen + vlen + MinEntrySize]

Deeper(e, n) == [e EXCEPT !.upto = e.upto + n]

(* push_front: every older entry moves one index and f.upto bytes down.    *)
Push(t, f) ==
  [i \in 1..(Len(t) + 1) |-> IF i = 1 THEN f ELSE Deeper(t[i-1], f.upto)]

Upto(t, k) == IF k = 0 THEN 0 ELSE t[k].upto

-----------------------------------------------------------------------------
(* How a decoder comes into being.                                         *)

NewPartial ==
  [table |-> <<>>, size |-> 0, max |-> DefaultTableSize,
   exact |-> FALSE, observed |-> FALSE, over |-> FALSE]

NewExact == [NewPartial EXCEPT !.exact = TRUE, !.observed = TRUE]

(* Entries taken oldest first.                                             *)
FromEntriesReversed(t, max) ==
  LET n == Len(t)
  IN  [table |-> [i \in 1..n |-> [t[n + 1 - i] EXCEPT !.upto = t[i].upto]],
       size |-> Upto(t, n), max |-> max, exact |-> TRUE, observed |-> TRUE, over |-> FALSE]

FromEntries(t, max) ==
  [table |-> t, size |-> Upto(t, Len(t)), max |-> max,
   exact |-> TRUE, observed |-> TRUE, over |-> FALSE]

(* A decoder that drops its table but forgets that it has lost track.      *)
ResetKeepsExact(d) == [d EXCEPT !.table = <<>>, !.size = 0]

ResetPartial(d) == [d EXCEPT !.table = <<>>, !.size = 0, !.exact = FALSE]

IsExact(d) == d.exact /\ ~d.over

-----------------------------------------------------------------------------
(* Capacity, eviction, insertion.                                          *)

NoEnforcement(d) == d

EnforceLimit(d) ==
  IF d.max > TrackLimit
  THEN [d EXCEPT !.over = TRUE, !.table = <<>>, !.size = 0]
  ELSE d

(* The number of entries the pop_back loop leaves: it stops at the first   *)
(* size that fits.                                                         *)
Kept(t, max) ==
  CHOOSE k \in 0..Len(t) :
    /\ Upto(t, k) <= max
    /\ \A j \in (k+1)..Len(t) : t[j].upto > max

(* A loop that stops one entry early.                                      *)
EvictTooLittle(d) ==
  LET k == Kept(d.table, d.max)
      n == Len(d.table)
      m == IF k < n THEN k + 1 ELSE n
  IN  [d EXCEPT !.table = SubSeq(@, 1, m), !.size = Upto(d.table, m),
                !.exact = @ \/ (d.observed /\ k < n)]

(* A loop that takes the length of the front off for each entry it pops    *)
(* from the back.                                                          *)
EvictSubtractsFront(d) ==
  LET k == Kept(d.table, d.max)
      n == Len(d.table)
  IN  [d EXCEPT !.table = SubSeq(@, 1, k),
                !.size = IF k = n THEN @ ELSE @ - (n - k) * d.table[1].upto,
                !.exact = @ \/ (d.observed /\ k < n)]

(* A loop that pops until there is room for one more entry.                *)
EvictTooMuch(d) ==
  LET k == Kept(d.table, IF d.max = 0 THEN 0 ELSE d.max - 1)
  IN  [d EXCEPT !.table = SubSeq(@, 1, k), !.size = Upto(d.table, k),
                !.exact = @ \/ (d.observed /\ k < Len(d.table))]

Evict(d) ==
  LET k == Kept(d.table, d.max)
  IN  [d EXCEPT !.table = SubSeq(@, 1, k), !.size = Upto(d.table, k),
                !.exact = @ \/ (d.observed /\ k < Len(d.table))]

(* An eager check, without the room a zero-length entry would need.        *)
RecheckTooEager(d) ==
  [d EXCEPT !.exact = @ \/ ( /\ d.observed
                             /\ ~d.over
                             /\ d.size + 2 * MinEntrySize > d.max )]

RecheckExact(d) ==
  [d EXCEPT !.exact = @ \/ ( /\ d.observed
                             /\ ~d.over
                             /\ d.size + MinEntrySize > d.max )]

Resize(d, n) ==
  RecheckExact(EnforceLimit(Evict([d EXCEPT !.observed = TRUE, !.max = n])))

(* Takes the peer's SETTINGS as the capacity in use, up or down.           *)
ApplyPeerCapacityBothWays(d, n) == Resize(d, n)

ApplyPeerCapacity(d, n) ==
  IF n < d.max THEN Resize(d, n) ELSE [d EXCEPT !.observed = TRUE]

(* Skips an entry whose name is only a placeholder.                        *)
InsertKnownOnly(d, f) ==
  IF d.over \/ f.unknown THEN d
  ELSE IF f.upto > d.max
  THEN [d EXCEPT !.table = <<>>, !.size = 0, !.exact = TRUE]
  ELSE RecheckExact(Evict([d EXCEPT !.table = Push(@, f), !.size = @ + f.upto]))

(* Leaves the old entries in place when the new one is too large.          *)
InsertOversizeKeeps(d, f) ==
  IF d.over \/ f.upto > d.max THEN d
  ELSE RecheckExact(Evict([d EXCEPT !.table = Push(@, f), !.size = @ + f.upto]))

Insert(d, f) ==
  IF d.over THEN d
  ELSE IF f.upto > d.max
  THEN [d EXCEPT !.table = <<>>, !.size = 0, !.exact = TRUE]
  ELSE RecheckExact(Evict([d EXCEPT !.table = Push(@, f), !.size = @ + f.upto]))

-----------------------------------------------------------------------------
(* What lookup() makes of dynamic index i, and what its callers do then.   *)

LookupOffByOne(d, i) == i < Len(d.table)

Known(d, i) == i <= Len(d.table)

BadIndex(d, i) == ~Known(d, i) /\ IsExact(d)
=============================================================================
