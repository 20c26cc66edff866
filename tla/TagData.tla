------------------------------ MODULE TagData ------------------------------
(***************************************************************************)
(* The buffer of one tag and the functions of lib.c that work on it: the   *)
(* integer, floating point, bit, raw byte and string accessors, the sizes, *)
(* the integer attributes, and the byte order a tag is created with.       *)
(*                                                                         *)
(* Each accessor takes the tag's mutex once, so it is one action; as an    *)
(* operator it maps the tag to [tag, rc, val]: the tag after the call, the *)
(* status code the call ends with and the value it hands out.  A getter of *)
(* a number returns only val, and a fixed sentinel stands for an error.    *)
(* Bytes have ByteBits bits, 8 in the code.  A float is its bit pattern.   *)
(***************************************************************************)
EXTENDS Integers, Sequences, FiniteSetsExt, TLC

CONSTANTS
  ByteBits,    \* bits of a byte, 8 in the code
  Buffers,     \* contents that tags are created with
  Capacity,    \* characters of an Allen-Bradley string, 82 in the code
  Overrides,   \* byte order attributes given by the application
  BitTags,     \* the bit a tag stands for, or NoBit
  Numbers,     \* numbers the application stores
  Strings,     \* strings it stores
  Sizes,       \* sizes it asks for
  Offsets,     \* offsets it uses
  MaxChanges,  \* how many calls may change the tag (a bound of the model)
  Allocs       \* whether mem_realloc() succeeds: a subset of BOOLEAN

NoBit == -1

(* x^n for n in 0 .. 8.  A byte has Base values; the powers of two are its *)
(* shifts, those of Base the shifts by whole bytes.                        *)
Raised(x, n) ==
  IF n = 0 THEN 1 ELSE IF n = 1 THEN x ELSE IF n = 2 THEN x * x ELSE IF n = 3 THEN x * x * x
  ELSE IF n = 4 THEN (x * x) * (x * x) ELSE IF n = 5 THEN (x * x) * (x * x) * x
  ELSE IF n = 6 THEN (x * x) * (x * x) * (x * x) ELSE IF n = 7 THEN (x * x) * (x * x) * (x * x) * x
  ELSE ((x * x) * (x * x)) * ((x * x) * (x * x))
Shifted(n) == Raised(2, n)
Base       == Shifted(ByteBits)
Byte       == 0 .. Base - 1
Power(n)   == Raised(Base, n)

VARIABLES
  tag,     \* the tag, or Absent
  changes  \* ghost: calls so far that could change the tag

vars == <<tag, changes>>

(* The fields of tag_byte_order_t that attributes give: the orders of the  *)
(* bytes of numbers, and numbers about strings.                            *)
Widths  == [int16 |-> 2, int32 |-> 4, int64 |-> 8, float32 |-> 4, float64 |-> 8]
Flags   == {"counted", "fixed", "zero", "swapped"}
Lengths == {"multiple", "count", "cap", "total", "pad"}

TagDataAssumption ==
  /\ ByteBits \in 1 .. 8
  /\ Capacity \in Nat \ {0}
  /\ Allocs \subseteq BOOLEAN
  /\ BitTags \subseteq Nat \cup {NoBit}
  /\ Numbers \cup Sizes \cup Offsets \subseteq Int
  /\ Buffers \cup Strings \subseteq Seq(Byte)
  /\ \A a \in Overrides :
       /\ DOMAIN a \subseteq DOMAIN Widths \cup Flags \cup Lengths
       /\ \A k \in DOMAIN a : a[k] \in IF k \in DOMAIN Widths THEN Seq(Int) ELSE Int

Absent == [size |-> -1]
Made   == tag # Absent

Result(t, code, v) == [tag |-> t, rc |-> code, val |-> v]
Stops(t, code, v)  == Result([t EXCEPT !.status = code], code, v)
Touch(t)           == [t EXCEPT !.dirty = @ \/ t.autoWrite > 0, !.status = "OK"]

-----------------------------------------------------------------------------
(* The byte order a tag is created with *)

(* The types' own byte orders. *)
Little(w) == [i \in 1 .. w |-> i - 1]
Big(w)    == [i \in 1 .. w |-> w - i]
Plain     == [int16 |-> Little(2), int32 |-> Little(4), int64 |-> Little(8),
              float32 |-> Little(4), float64 |-> Little(8), defined |-> TRUE, counted |-> 1,
              fixed |-> 0, zero |-> 0, swapped |-> 0, multiple |-> 1, count |-> 2, cap |-> 0,
              total |-> 0, pad |-> 0]
LogixTagByteOrder   == [Plain EXCEPT !.fixed = 1, !.count = 4, !.cap = Capacity,
                                     !.total = Capacity + 6, !.pad = 2]
LogixListingOrder   == Plain
ListingTagByteOrder == Plain
UdtTagByteOrder     == [Plain EXCEPT !.counted = 0, !.zero = 1, !.count = 0]
SlcTagByteOrder     == [Plain EXCEPT !.fixed = 1, !.swapped = 1, !.multiple = 2,
                                     !.cap = Capacity, !.total = Capacity + 2]
Plc5TagByteOrder    == [SlcTagByteOrder EXCEPT !.float32 = <<2, 3, 0, 1>>]
OmronTagByteOrder   == [Plain EXCEPT !.zero = 1]
SystemTagByteOrder  == [Plain EXCEPT !.counted = 0, !.zero = 1, !.count = 0]
ModbusTagByteOrder  == [Plain EXCEPT !.int16 = Big(2), !.int32 = Big(4), !.int64 = Big(8),
                                     !.float32 = Big(4), !.float64 = Big(8), !.defined = FALSE,
                                     !.counted = 0, !.multiple = 0, !.count = 0]
Defaults == {LogixTagByteOrder, LogixListingOrder, ListingTagByteOrder, UdtTagByteOrder,
             SlcTagByteOrder, Plc5TagByteOrder, OmronTagByteOrder, SystemTagByteOrder,
             ModbusTagByteOrder}

(* check_byte_order_str(): the digits are a permutation of the positions. *)
CheckByteOrder(order, w) ==
  CASE Len(order) < w -> "TOO_SMALL"
    [] Len(order) > w -> "TOO_LARGE"
    [] OTHER -> IF {order[i] : i \in 1 .. w} = 0 .. w - 1 THEN "OK" ELSE "BAD_DATA"

(* The attributes that give the order of a number's bytes, and those that  *)
(* describe strings, each checked for itself.                              *)
CheckOrderOverride(k, v) == CheckByteOrder(v, Widths[k])

CheckStringOverride(k, v) ==
  CASE k \in Flags     -> IF v \in {0, 1} THEN "OK" ELSE "BAD_PARAM"
    [] k = "count"     -> IF v \in {0, 1, 2, 4, 8} THEN "OK" ELSE "BAD_PARAM"
    [] k = "multiple"  -> IF v \in {0, 1, 2, 4} THEN "OK" ELSE "BAD_PARAM"
    [] OTHER           -> IF v >= 0 THEN "OK" ELSE "BAD_PARAM"

(* set_tag_byte_order() works on a copy of the type's byte order... *)
Overridden(default, attribs) ==
  [k \in DOMAIN default |->
     CASE k \notin DOMAIN attribs -> default[k]
       [] k = "multiple" /\ k \in DOMAIN attribs /\ attribs[k] = 0 -> 1
       [] OTHER -> attribs[k]]

(* ... and when no attribute is wrong looks at the combination; BAD_PARAM   *)
(* stands for every code that a refused attribute gives.                   *)
SetTagByteOrder(default, attribs) ==
  LET new  == Overridden(default, attribs)
      rest == new.zero + new.cap + new.count + new.pad
      wrong == \/ \E k \in DOMAIN attribs :
                    IF k \in DOMAIN Widths THEN CheckOrderOverride(k, attribs[k]) # "OK"
                    ELSE CheckStringOverride(k, attribs[k]) # "OK"
               \/ new.counted = 1 /\ new.count = 0
               \/ new.fixed = 1 /\ new.total = 0
               \/ new.total > 0 /\ rest > new.total
  IN  CASE attribs = <<>> -> [rc |-> "OK", order |-> default]
        [] attribs # <<>> /\ wrong -> [rc |-> "BAD_PARAM", order |-> new]
        [] OTHER -> [rc |-> "OK", order |->
                       [new EXCEPT !.defined = @ \/ new.counted = 1 \/ new.zero = 1]]

-----------------------------------------------------------------------------
(* Numbers *)

(* The number whose byte of weight i is at position order[i + 1].          *)
Word(t, order, o) ==
  LET byte(i) == IF i \in DOMAIN order THEN t.data[o + order[i]] * Power(i - 1) ELSE 0
  IN  byte(1) + byte(2) + byte(3) + byte(4) + byte(5) + byte(6) + byte(7) + byte(8)

(* Mutant of Store: the order is read as position -> weight. *)
StoreInverse(t, order, o, v) ==
  [t EXCEPT !.data = [p \in DOMAIN @ |->
     IF p \in o .. o + Len(order) - 1 THEN (v \div Power(order[p - o + 1])) % Base ELSE @[p]]]

Store(t, order, o, v) ==
  [t EXCEPT !.data = [p \in DOMAIN @ |->
     IF \E i \in DOMAIN order : p = o + order[i]
     THEN (v \div Power((CHOOSE i \in DOMAIN order : p = o + order[i]) - 1)) % Base
     ELSE @[p]]]

Limit(w)       == Power(w)                                  \* one more than UINT<8w>_MAX
Unsigned(v, w) == v % Limit(w)
Signed(v, w)   == IF 2 * v < Limit(w) THEN v ELSE v - Limit(w)
Fits(t, o, w)  == o >= 0 /\ o + w <= t.size
HasData(t)     == t.size > 0

(* plc_tag_get_bit_impl(): a tag of one bit ignores the offset it is given. *)
GetBitImpl(t, offset) ==
  LET o == IF t.bit = NoBit THEN offset ELSE t.bit
  IN  CASE ~HasData(t) -> Stops(t, "NO_DATA", 0)
        [] HasData(t) /\ o >= 0 /\ o \div ByteBits < t.size ->
             Stops(t, "OK", (t.data[o \div ByteBits] \div Shifted(o % ByteBits)) % 2)
        [] OTHER -> Stops(t, "OUT_OF_BOUNDS", 0)

SetBitImpl(t, offset, v) ==
  LET o   == IF t.bit = NoBit THEN offset ELSE t.bit
      old == (t.data[o \div ByteBits] \div Shifted(o % ByteBits)) % 2
      new == IF v # 0 THEN 1 ELSE 0
  IN  CASE ~HasData(t) -> Stops(t, "NO_DATA", 0)
        [] HasData(t) /\ o >= 0 /\ o \div ByteBits < t.size ->
             Result([Touch(t) EXCEPT !.data[o \div ByteBits] = @ + (new - old) * Shifted(o % ByteBits)],
                    "OK", 0)
        [] OTHER -> Stops(t, "OUT_OF_BOUNDS", 0)

GetBit(t, offset)    == GetBitImpl(t, offset)
SetBit(t, offset, v) == SetBitImpl(t, offset, v)

(* The common shape of the integer getters: none is the type's sentinel,   *)
(* left as the result of a call that fails; the signed getters give the    *)
(* error code itself when there is no data.                                *)
NoDataCode == -21
GetInt(t, order, o, none, empty, Convert(_, _)) ==
  LET w == Len(order)
      b == GetBitImpl(t, t.bit)
  IN  CASE ~HasData(t)                              -> Stops(t, "NO_DATA", empty)
        [] HasData(t) /\ t.bit # NoBit              -> IF b.rc = "OK" THEN b ELSE Result(b.tag, b.rc, none)
        [] HasData(t) /\ t.bit = NoBit /\ Fits(t, o, w) -> Stops(t, "OK", Convert(Word(t, order, o), w))
        [] OTHER                                    -> Stops(t, "OUT_OF_BOUNDS", none)

SetInt(t, order, o, v) ==
  CASE ~HasData(t)                 -> Stops(t, "NO_DATA", 0)
    [] HasData(t) /\ t.bit # NoBit -> SetBitImpl(t, 0, v)
    [] HasData(t) /\ t.bit = NoBit /\ Fits(t, o, Len(order)) ->
         Result(Store(Touch(t), order, o, Unsigned(v, Len(order))), "OK", 0)
    [] OTHER                       -> Stops(t, "OUT_OF_BOUNDS", 0)

Raw(v, w) == v
MaxUnsigned(w) == Limit(w) - 1
MinSigned(w)   == -(Limit(w) \div 2)

GetUint64(t, o) == GetInt(t, t.bo.int64, o, MaxUnsigned(8), MaxUnsigned(8), Raw)
GetInt64(t, o)  == GetInt(t, t.bo.int64, o, MinSigned(8), NoDataCode, Signed)
GetUint32(t, o) == GetInt(t, t.bo.int32, o, MaxUnsigned(4), MaxUnsigned(4), Raw)
GetInt32(t, o)  == GetInt(t, t.bo.int32, o, MinSigned(4), NoDataCode, Signed)
GetUint16(t, o) == GetInt(t, t.bo.int16, o, MaxUnsigned(2), MaxUnsigned(2), Raw)
GetInt16(t, o)  == GetInt(t, t.bo.int16, o, MinSigned(2), NoDataCode, Signed)
GetUint8(t, o)  == GetInt(t, Little(1), o, MaxUnsigned(1), MaxUnsigned(1), Raw)
GetInt8(t, o)   == GetInt(t, Little(1), o, MinSigned(1), NoDataCode, Signed)

(* plc_tag_set_int64() goes on after its test for data, to that of the     *)
(* bounds.                                                                 *)
SetUint64(t, o, v) == SetInt(t, t.bo.int64, o, v)
SetInt64(t, o, v)  == IF ~HasData(t) /\ t.bit = NoBit THEN Stops(t, "OUT_OF_BOUNDS", 0)
                      ELSE SetInt(t, t.bo.int64, o, v)
SetUint32(t, o, v) == SetInt(t, t.bo.int32, o, v)
SetInt32(t, o, v)  == SetInt(t, t.bo.int32, o, v)
SetUint16(t, o, v) == SetInt(t, t.bo.int16, o, v)
SetInt16(t, o, v)  == SetInt(t, t.bo.int16, o, v)
SetUint8(t, o, v)  == SetInt(t, Little(1), o, v)
SetInt8(t, o, v)   == SetInt(t, Little(1), o, v)

(* Floats have no meaning on a tag of one bit. *)
GetFloat(t, order, o) ==
  CASE ~HasData(t)                 -> Stops(t, "NO_DATA", 0)
    [] HasData(t) /\ t.bit # NoBit -> Stops(t, "UNSUPPORTED", 0)
    [] HasData(t) /\ t.bit = NoBit /\ Fits(t, o, Len(order)) -> Stops(t, "OK", Word(t, order, o))
    [] OTHER                       -> Stops(t, "OUT_OF_BOUNDS", 0)

SetFloat(t, order, o, v) ==
  CASE ~HasData(t)                 -> Stops(t, "NO_DATA", 0)
    [] HasData(t) /\ t.bit # NoBit -> Stops(t, "UNSUPPORTED", 0)
    [] HasData(t) /\ t.bit = NoBit /\ Fits(t, o, Len(order)) ->
         Result(Store(Touch(t), order, o, Unsigned(v, Len(order))), "OK", 0)
    [] OTHER                       -> Stops(t, "OUT_OF_BOUNDS", 0)

GetFloat64(t, o)    == GetFloat(t, t.bo.float64, o)
SetFloat64(t, o, v) == SetFloat(t, t.bo.float64, o, v)
GetFloat32(t, o)    == GetFloat(t, t.bo.float32, o)
SetFloat32(t, o, v) == SetFloat(t, t.bo.float32, o, v)

-----------------------------------------------------------------------------
(* Raw bytes and sizes *)

GetRawBytes(t, o, n) ==
  CASE ~HasData(t)                 -> Stops(t, "NO_DATA", <<>>)
    [] HasData(t) /\ n <= 0        -> Result(t, "BAD_PARAM", <<>>)
    [] HasData(t) /\ n > 0 /\ t.bit # NoBit -> Stops(t, "UNSUPPORTED", <<>>)
    [] HasData(t) /\ n > 0 /\ t.bit = NoBit /\ Fits(t, o, n) ->
         Stops(t, "OK", [i \in 1 .. n |-> t.data[o + i - 1]])
    [] OTHER                       -> Stops(t, "OUT_OF_BOUNDS", <<>>)

SetRawBytes(t, o, bytes) ==
  LET n == Len(bytes)
  IN  CASE ~HasData(t)             -> Stops(t, "NO_DATA", 0)
        [] HasData(t) /\ n <= 0    -> Result(t, "BAD_PARAM", 0)
        [] HasData(t) /\ n > 0 /\ t.bit # NoBit -> Stops(t, "UNSUPPORTED", 0)
        [] HasData(t) /\ n > 0 /\ t.bit = NoBit /\ Fits(t, o, n) ->
             Result([Touch(t) EXCEPT !.data = [p \in DOMAIN @ |->
                       IF p \in o .. o + n - 1 THEN bytes[p - o + 1] ELSE @[p]]], "OK", 0)
        [] OTHER                   -> Stops(t, "OUT_OF_BOUNDS", 0)

GetSize(t) == Stops(t, "OK", t.size)

(* resize_tag_buffer_unsafe(): new bytes hold whatever the memory held,    *)
(* here fill.  An empty buffer cannot be allocated.                        *)
ResizeTagBuffer(t, size, fill, alloc) ==
  IF size > 0 /\ alloc
  THEN Result([t EXCEPT !.size = size,
                        !.data = [p \in 0 .. size - 1 |-> IF p < t.size THEN @[p] ELSE fill]],
              "OK", 0)
  ELSE Stops(t, "NO_MEM", 0)

(* plc_tag_set_size(): the result is the status of the resize, not a size. *)
SetSize(t, size, fill, alloc) ==
  IF size < 0 THEN Result(t, "BAD_PARAM", 0) ELSE ResizeTagBuffer(t, size, fill, alloc)

(* resize_tag_buffer_at_offset_unsafe(): what follows the old split index  *)
(* moves to the new one, before a shrinking and after a growing resize.    *)
Moved(t, from, to) ==
  [t EXCEPT !.data = [p \in DOMAIN @ |->
     IF p >= to /\ p + from - to < t.size THEN @[p + from - to] ELSE @[p]]]

(* Mutant of ResizeAtOffset: the tail stays where it is. *)
ResizeAtOffsetNoMove(t, from, to, alloc) ==
  IF from < 0 \/ from > t.size \/ to < 0 THEN Result(t, "OUT_OF_BOUNDS", 0)
  ELSE IF to = from THEN Result(t, "OK", 0)
  ELSE ResizeTagBuffer(t, t.size + to - from, 0, alloc)

ResizeAtOffset(t, from, to, alloc) ==
  LET shrunk == ResizeTagBuffer(Moved(t, from, to), t.size + to - from, 0, alloc)
      grown  == ResizeTagBuffer(t, t.size + to - from, 0, alloc)
  IN  CASE from < 0 \/ from > t.size \/ to < 0 -> Result(t, "OUT_OF_BOUNDS", 0)
        [] from \in 0 .. t.size /\ to = from  -> Result(t, "OK", 0)
        [] from \in 0 .. t.size /\ to \in 0 .. from - 1 -> shrunk
        [] OTHER -> IF grown.rc = "OK"
                    THEN Result([grown.tag EXCEPT !.data = [p \in DOMAIN @ |->
                                   IF p >= to THEN t.data[p + from - to] ELSE @[p]]], "OK", 0)
                    ELSE grown

-----------------------------------------------------------------------------
(* Strings.  o is where a string starts, count word included; the word     *)
(* itself is read without a look at the buffer's end, so the application   *)
(* may only name an o that leaves room for it.                             *)

Swap(t, i) == CASE t.bo.swapped = 0 -> i
                [] t.bo.swapped = 1 /\ i % 2 = 1 -> i - 1
                [] OTHER -> i + 1
CharAt(t, o, i) == o + t.bo.count + Swap(t, i)

(* get_string_length_unsafe() *)
StringLength(t, o) ==
  LET ends == {i \in 0 .. t.size - o - t.bo.count :
                 i = t.size - o - t.bo.count \/ t.data[CharAt(t, o, i)] = 0}
  IN  CASE t.bo.counted = 1 /\ t.bo.count = 1 -> t.data[o]
        [] t.bo.counted = 1 /\ t.bo.count = 2 -> Signed(Word(t, t.bo.int16, o), 2)
        [] t.bo.counted = 1 /\ t.bo.count = 4 -> Signed(Word(t, t.bo.int32, o), 4)
        [] t.bo.counted = 0 /\ t.bo.zero = 1  -> Min(ends)
        [] OTHER -> 0

(* get_string_total_length_unsafe(), of the string that is there *)
TotalLength(t, o) ==
  t.bo.count + (IF t.bo.fixed = 1 THEN t.bo.cap ELSE StringLength(t, o)) + t.bo.zero + t.bo.pad

(* get_new_string_total_length_unsafe(), of the string that will be there *)
NewTotalLength(t, s) ==
  IF t.bo.fixed = 1 THEN t.bo.total
  ELSE Len(s) + t.bo.count + t.bo.zero + t.bo.pad + (IF t.bo.swapped = 1 THEN Len(s) % 2 ELSE 0)

StringsRefused(t) ==
  CASE ~t.bo.defined -> "UNSUPPORTED"
    [] t.bo.defined /\ ~HasData(t) -> "NO_DATA"
    [] t.bo.defined /\ HasData(t) /\ t.bit # NoBit -> "UNSUPPORTED"
    [] OTHER -> "OK"

GetStringLength(t, o) ==
  IF StringsRefused(t) # "OK" THEN Stops(t, StringsRefused(t), 0)
  ELSE Result(t, "OK", StringLength(t, o))

GetStringCapacity(t, o) ==
  IF StringsRefused(t) # "OK" THEN Stops(t, StringsRefused(t), 0)
  ELSE Result(t, "OK", IF t.bo.cap # 0 THEN t.bo.cap ELSE StringLength(t, o))

GetStringTotalLength(t, o) ==
  IF StringsRefused(t) # "OK" THEN Stops(t, StringsRefused(t), 0)
  ELSE Result(t, "OK", TotalLength(t, o))

(* plc_tag_get_string() into a buffer of n bytes: val is what it copies. *)
GetString(t, o, n) ==
  LET len  == StringLength(t, o)
      most == IF n < len THEN n ELSE len
  IN  CASE StringsRefused(t) # "OK" -> Stops(t, StringsRefused(t), <<>>)
        [] StringsRefused(t) = "OK" /\ o + t.bo.count + most > t.size -> Stops(t, "OUT_OF_BOUNDS", <<>>)
        [] StringsRefused(t) = "OK" /\ \E i \in 0 .. most - 1 : CharAt(t, o, i) >= t.size ->
             Result(t, "OUT_OF_BOUNDS", <<>>)
        [] OTHER -> Stops(t, "OK", [i \in 1 .. most |-> t.data[CharAt(t, o, i - 1)]])

(* The parts of plc_tag_set_string(), in order: the area is cleared, the   *)
(* count word stored, the characters copied and the terminator set.        *)
Cleared(t, o, n) == [t EXCEPT !.data = [p \in DOMAIN @ |-> IF p \in o .. o + n - 1 THEN 0 ELSE @[p]]]

Counted(t, o, len) ==
  LET room == t.bo.count \in {1, 2, 4}
      order == CASE t.bo.count = 2 -> t.bo.int16 [] t.bo.count = 4 -> t.bo.int32 [] OTHER -> Little(1)
  IN  CASE t.bo.counted = 0 -> Result(t, "OK", 0)
        [] t.bo.counted = 1 /\ o + t.bo.count > t.size -> Stops(t, "OUT_OF_BOUNDS", 0)
        [] t.bo.counted = 1 /\ o + t.bo.count <= t.size /\ ~room -> Stops(t, "UNSUPPORTED", 0)
        [] t.bo.counted = 1 /\ o + t.bo.count <= t.size /\ room /\ len >= Limit(t.bo.count) ->
             Stops(t, "TOO_LARGE", 0)
        [] OTHER -> Result(Store(t, order, o, len), "OK", 0)

Copied(t, start, s) ==
  LET in(i)  == start + Swap(t, i) < t.size
      fits   == \A i \in 0 .. Len(s) - 1 : in(i)
      copies == {i \in 0 .. Len(s) - 1 : \A j \in 0 .. i : in(j)}
      target == [p \in DOMAIN t.data |-> {i \in copies : p = start + Swap(t, i)}]
      done   == [t EXCEPT !.data = [p \in DOMAIN @ |->
                   IF target[p] = {} THEN @[p] ELSE s[(CHOOSE i \in target[p] : TRUE) + 1]]]
  IN  IF fits THEN Result(done, "OK", 0) ELSE Stops(done, "OUT_OF_BOUNDS", 0)

Terminated(t, p) ==
  CASE t.bo.zero = 0 -> Result(t, "OK", 0)
    [] t.bo.zero = 1 /\ p < t.size -> Result([t EXCEPT !.data[p] = 0], "OK", 0)
    [] OTHER -> Result(t, "OUT_OF_BOUNDS", 0)

SetString(t, o, s, alloc) ==
  LET old     == TotalLength(t, o)
      new     == NewTotalLength(t, s)
      start   == o + (IF t.bo.counted = 1 THEN t.bo.count ELSE 0)
      resized == ResizeAtOffset(t, o + old, o + new, alloc)
      counted == Counted(Cleared(resized.tag, o, new), o, Len(s))
      copied  == Copied(counted.tag, start, s)
      ended   == Terminated(copied.tag, start + Len(s))
  IN  CASE ~t.bo.defined \/ t.bit # NoBit         -> Stops(t, "UNSUPPORTED", 0)
        [] t.bo.defined /\ t.bit = NoBit ->
             CASE t.bo.cap # 0 /\ Len(s) > t.bo.cap -> Stops(t, "TOO_LARGE", 0)
               [] ~(t.bo.cap # 0 /\ Len(s) > t.bo.cap) ->
                    CASE old < 0                      -> Result(t, "BAD_COUNT", 0)
                      [] old >= 0 /\ ~t.resize /\ new # old -> Result(t, "NOT_ALLOWED", 0)
                      [] OTHER ->
                           IF resized.rc # "OK" THEN resized
                           ELSE IF counted.rc # "OK" THEN counted
                           ELSE IF copied.rc # "OK" THEN copied
                           ELSE IF ended.rc # "OK" THEN ended
                           ELSE Result(Touch(ended.tag), "OK", 0)

-----------------------------------------------------------------------------
(* Integer attributes.  "other" is a name nobody knows: the protocol's own  *)
(* names are a matter of the tag types.                                    *)

Names == {"size", "read_cache_ms", "auto_sync_read_ms", "auto_sync_write_ms", "bit_num",
          "allow_field_resize", "other"}

GetIntAttribute(t, name, default) ==
  CASE name = "size"               -> Stops(t, "OK", t.size)
    [] name = "read_cache_ms"      -> Stops(t, "OK", t.cache)
    [] name = "auto_sync_read_ms"  -> Stops(t, "OK", t.autoRead)
    [] name = "auto_sync_write_ms" -> Stops(t, "OK", t.autoWrite)
    [] name = "bit_num"            -> Stops(t, "OK", t.bit)
    [] OTHER                       -> Stops(t, "UNSUPPORTED", default)

SetIntAttribute(t, name, v) ==
  LET done(new) == IF v >= 0 THEN Stops(new, "OK", 0) ELSE Stops(t, "OUT_OF_BOUNDS", 0)
  IN  CASE name = "read_cache_ms"      -> done([t EXCEPT !.cache = v])
        [] name = "auto_sync_read_ms"  -> done([t EXCEPT !.autoRead = v])
        [] name = "auto_sync_write_ms" -> done([t EXCEPT !.autoWrite = v])
        [] name = "allow_field_resize" -> Stops([t EXCEPT !.resize = v > 0], "OK", 0)
        [] OTHER                       -> Stops(t, "UNSUPPORTED", 0)

-----------------------------------------------------------------------------
(* The calls *)

Types == {"uint64", "int64", "uint32", "int32", "uint16", "int16", "uint8", "int8",
          "float64", "float32"}
Width == [uint64 |-> 8, int64 |-> 8, uint32 |-> 4, int32 |-> 4, uint16 |-> 2, int16 |-> 2,
          uint8 |-> 1, int8 |-> 1, float64 |-> 8, float32 |-> 4]
Floats  == {"float64", "float32"}
Signeds == {"int64", "int32", "int16", "int8"}
Fit(k, v) == IF k \in Signeds THEN 2 * v \in -Limit(Width[k]) .. Limit(Width[k]) - 1
             ELSE v \in 0 .. MaxUnsigned(Width[k])

Getter(k, t, o) ==
  CASE k = "uint64" -> GetUint64(t, o) [] k = "int64" -> GetInt64(t, o)
    [] k = "uint32" -> GetUint32(t, o) [] k = "int32" -> GetInt32(t, o)
    [] k = "uint16" -> GetUint16(t, o) [] k = "int16" -> GetInt16(t, o)
    [] k = "uint8"  -> GetUint8(t, o)  [] k = "int8"  -> GetInt8(t, o)
    [] k = "float64" -> GetFloat64(t, o) [] OTHER -> GetFloat32(t, o)

Setter(k, t, o, v) ==
  CASE k = "uint64" -> SetUint64(t, o, v) [] k = "int64" -> SetInt64(t, o, v)
    [] k = "uint32" -> SetUint32(t, o, v) [] k = "int32" -> SetInt32(t, o, v)
    [] k = "uint16" -> SetUint16(t, o, v) [] k = "int16" -> SetInt16(t, o, v)
    [] k = "uint8"  -> SetUint8(t, o, v)  [] k = "int8"  -> SetInt8(t, o, v)
    [] k = "float64" -> SetFloat64(t, o, v) [] OTHER -> SetFloat32(t, o, v)

Ask(result)    == tag' = result.tag /\ UNCHANGED changes
Change(result) == changes < MaxChanges /\ tag' = result.tag /\ changes' = changes + 1

(* The tag is made with the byte order of its type and the overrides. *)
Create ==
  /\ tag = Absent
  /\ \E default \in Defaults, attribs \in Overrides, bytes \in Buffers, b \in BitTags, a \in {0, 1} :
       LET set == SetTagByteOrder(default, attribs)
       IN  /\ set.rc = "OK"
           /\ tag' = [size |-> Len(bytes), data |-> [p \in 0 .. Len(bytes) - 1 |-> bytes[p + 1]],
                      bo |-> set.order, bit |-> b, status |-> "OK", dirty |-> FALSE,
                      resize |-> FALSE, cache |-> 0, autoRead |-> 0, autoWrite |-> a]
  /\ UNCHANGED changes

GetNumber == Made /\ \E k \in Types, o \in Offsets : Ask(Getter(k, tag, o))
SetNumber == Made /\ \E k \in Types, o \in Offsets, v \in Numbers :
               Fit(k, v) /\ Change(Setter(k, tag, o, v))
ReadBit   == Made /\ \E o \in Offsets : Ask(GetBit(tag, o))
WriteBit  == Made /\ \E o \in Offsets, v \in {0, 1} : Change(SetBit(tag, o, v))
ReadRaw   == Made /\ \E o \in Offsets, n \in Sizes : Ask(GetRawBytes(tag, o, n))
WriteRaw  == Made /\ \E o \in Offsets, s \in Strings : Change(SetRawBytes(tag, o, s))
AskSize   == Made /\ Ask(GetSize(tag))
Resize    == Made /\ \E n \in Sizes, fill \in {0, Base - 1}, alloc \in Allocs :
               Change(SetSize(tag, n, fill, alloc))

StringRoom(t, o) == o >= 0 /\ o + t.bo.count <= t.size

ReadString ==
  /\ Made
  /\ \E o \in Offsets :
       /\ StringRoom(tag, o)
       /\ \/ \E n \in Sizes : n >= 0 /\ Ask(GetString(tag, o, n))
          \/ Ask(GetStringLength(tag, o))
          \/ Ask(GetStringCapacity(tag, o))
          \/ Ask(GetStringTotalLength(tag, o))

WriteString ==
  /\ Made /\ HasData(tag)
  /\ \E o \in Offsets, s \in Strings, alloc \in Allocs :
       StringRoom(tag, o) /\ Change(SetString(tag, o, s, alloc))

ReadAttribute  == Made /\ \E name \in Names : Ask(GetIntAttribute(tag, name, -1))
WriteAttribute == Made /\ \E name \in Names, v \in {-1, 0, 1} : Change(SetIntAttribute(tag, name, v))

Init == tag = Absent /\ changes = 0
Next == \/ Create \/ GetNumber \/ SetNumber \/ ReadBit \/ WriteBit \/ ReadRaw \/ WriteRaw
        \/ AskSize \/ Resize \/ ReadString \/ WriteString \/ ReadAttribute \/ WriteAttribute
Spec == Init /\ [][Next]_vars

-----------------------------------------------------------------------------
(* Properties.  Each looks, in every state a tag can get into, at what the *)
(* next call would do.                                                     *)

(* The buffer has as many bytes as the size says and every byte order is a *)
(* permutation: no accessor (lib.c:2297 to 3306) indexes outside of it.    *)
TypeOK ==
  Made => /\ tag.size \in Nat
          /\ tag.data \in [0 .. tag.size - 1 -> Byte]
          /\ \A k \in DOMAIN Widths :
               {tag.bo[k][i] : i \in DOMAIN tag.bo[k]} = 0 .. Widths[k] - 1

(* A number that was stored is read back, whatever the byte order, and on  *)
(* a tag of one bit as the bit it was turned into (lib.c:2349, 3142).      *)
NumbersReadBack ==
  Made => \A k \in Types, o \in Offsets, v \in Numbers :
            LET set == Setter(k, tag, o, v)
                get == Getter(k, set.tag, o)
            IN  Fit(k, v) /\ set.rc = "OK" =>
                  get.rc = "OK" /\ get.val = IF tag.bit = NoBit THEN v ELSE IF v = 0 THEN 0 ELSE 1

(* Storing a number changes the bytes of that number alone, and only one   *)
(* bit when the tag is a bit; a refused call changes none (lib.c:2229).    *)
OnlyTheNumber ==
  Made => \A k \in Types, o \in Offsets, v \in Numbers :
            LET set == Setter(k, tag, o, v)
                own == IF tag.bit = NoBit THEN o .. o + Width[k] - 1 ELSE {tag.bit \div ByteBits}
            IN  Fit(k, v) => \A p \in 0 .. tag.size - 1 :
                  p \notin own \/ set.rc # "OK" => set.tag.data[p] = tag.data[p] /\
                                                   (set.rc = "OK" \/ set.tag.dirty = tag.dirty)

(* The strings that plc_tag_set_string() (lib.c:3396) stores and            *)
(* plc_tag_get_string() (lib.c:3308) gives back unchanged.  The terminator *)
(* of a swapped string of odd length falls on its last character; a count  *)
(* word is stored unsigned and read signed, unless it has one byte; a      *)
(* string without a count word ends with a zero, which is not swapped when *)
(* it is stored but when it is looked for, behind the bytes of the word.   *)
Regular(s) ==
  /\ \A i \in DOMAIN s : s[i] # 0
  /\ ~(tag.bo.swapped = 1 /\ tag.bo.zero = 1 /\ Len(s) % 2 = 1)
  /\ IF tag.bo.counted = 1 THEN tag.bo.count > 1 => 2 * Len(s) < Limit(tag.bo.count)
     ELSE tag.bo.count = 0 /\ tag.bo.zero = 1 /\ tag.bo.swapped = 0

(* The setter reserves what the getters count: not for a swapped string of *)
(* odd length, nor if a fixed total length is not the sum of its parts.    *)
Measured(s) == IF tag.bo.fixed = 1
               THEN tag.bo.total = tag.bo.count + tag.bo.cap + tag.bo.zero + tag.bo.pad
               ELSE ~(tag.bo.swapped = 1 /\ Len(s) % 2 = 1)

(* A string that was set is what the getters return: its characters, its   *)
(* length, and its total length, by as much longer as the buffer grew      *)
(* (lib.c:4497 and 4362).                                                  *)
StringsReadBack ==
  Made /\ HasData(tag) =>
    \A o \in Offsets, s \in Strings :
      StringRoom(tag, o) /\ Regular(s) =>
        LET set == SetString(tag, o, s, TRUE)
            get == GetString(set.tag, o, Len(s))
        IN  set.rc = "OK" =>
              /\ get.rc = "OK" /\ get.val = s
              /\ GetStringLength(set.tag, o).val = Len(s)
              /\ Measured(s) => TotalLength(set.tag, o) - TotalLength(tag, o) = set.tag.size - tag.size

(* What follows a string in the buffer follows it after the string was set, *)
(* moved by as much as the string grew or shrank; what precedes it stays   *)
(* (lib.c:4543).  A swapped string of odd capacity is the exception.       *)
NeighboursKept ==
  Made /\ HasData(tag) =>
    \A o \in Offsets, s \in Strings :
      LET set  == SetString(tag, o, s, TRUE)
          from == o + TotalLength(tag, o)
          by   == set.tag.size - tag.size
      IN  StringRoom(tag, o) /\ ~(tag.bo.swapped = 1 /\ tag.bo.cap % 2 = 1) /\ set.rc = "OK" =>
            /\ \A p \in 0 .. o - 1 : set.tag.data[p] = tag.data[p]
            /\ \A p \in from .. tag.size - 1 : set.tag.data[p + by] = tag.data[p]

(* What is stored is read back, numbers and strings, whatever the byte     *)
(* order of the tag (lib.c:2349, 3308 and 3396).                           *)
RoundTrip == NumbersReadBack /\ StringsReadBack

(* Storing changes what is stored and moves what follows it; every other   *)
(* byte stays (lib.c:2229 and 4543).                                       *)
OnlyItsBytes == OnlyTheNumber /\ NeighboursKept

=============================================================================
