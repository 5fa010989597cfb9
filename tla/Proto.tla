------------------------------- MODULE Proto -------------------------------
(***************************************************************************)
(* The message codec of crates/et-proto/src/gen/et.rs: seventeen proto2    *)
(* messages, each with a compute_size, a write_to, a merge_field and a     *)
(* clear of the same shape.  A message type is its field list in the order *)
(* of those functions; the four functions are operators over it.           *)
(*                                                                         *)
(* Encoding takes two passes that share a SizeCache: compute_size reserves *)
(* one slot for every nested message before it descends into it, write_to  *)
(* consumes the slots in the order it meets the messages.                  *)
(*                                                                         *)
(* A byte is a number below 256, and encodings are the real bytes.  The    *)
(* runtime library (varints, length prefixes, the unknown-field store) is  *)
(* external and modelled from how the generated code uses it.              *)
(***************************************************************************)
EXTENDS Integers, Sequences, SequencesExt

-----------------------------------------------------------------------------
(* Message types. *)

Field(num, kind, label, of) == [num |-> num, kind |-> kind, label |-> label, of |-> of]
Opt(num, kind)              == Field(num, kind, "optional", <<>>)
Rep(num, kind)              == Field(num, kind, "repeated", <<>>)

\* ConnectStatus::from_i32 accepts these.
ConnectStatus == {1, 2, 3, 4}

ConnectRequest  == << Opt(1, "string"), Opt(2, "int32") >>
ConnectResponse == << Field(1, "enum", "optional", ConnectStatus), Opt(2, "string") >>
SequenceHeader  == << Opt(1, "int32") >>
CatchupBuffer   == << Rep(1, "bytes") >>
SocketEndpoint  == << Opt(1, "string"), Opt(2, "int32") >>
TerminalBuffer  == << Opt(1, "bytes") >>

TerminalInfo ==
    << Opt(1, "string"), Opt(2, "int32"), Opt(3, "int32"), Opt(4, "int32"), Opt(5, "int32") >>

PortForwardSourceRequest ==
    << Field(1, "message", "optional", SocketEndpoint),
       Field(2, "message", "optional", SocketEndpoint), Opt(3, "string") >>

PortForwardSourceResponse == << Opt(1, "string") >>

PortForwardDestinationRequest ==
    << Field(1, "message", "optional", SocketEndpoint), Opt(2, "int32") >>

PortForwardDestinationResponse == << Opt(1, "int32"), Opt(2, "int32"), Opt(3, "string") >>

PortForwardData ==
    << Opt(1, "bool"), Opt(2, "int32"), Opt(3, "bytes"), Opt(4, "string"), Opt(5, "bool") >>

InitialPayload ==
    << Opt(1, "bool"), Field(2, "message", "repeated", PortForwardSourceRequest),
       Field(3, "map", "map", <<>>) >>

InitialResponse == << Opt(1, "string") >>
ConfigParams    == << Opt(1, "int32"), Opt(2, "int32") >>
TermInit        == << Rep(1, "string"), Rep(2, "string") >>

TerminalUserInfo ==
    << Opt(1, "string"), Opt(2, "string"), Opt(3, "int64"), Opt(4, "int64"), Opt(5, "int64") >>

-----------------------------------------------------------------------------
(* The runtime library. *)

RECURSIVE Groups(_)
Groups(v) == IF v < 128 THEN <<v>> ELSE <<128 + (v % 128)>> \o Groups(v \div 128)

\* Nine 7-bit groups of the sign-extended value and the top bit.
Negative(v) == [i \in 1 .. 10 |->
    CASE i <= 5 -> 128 + ((v \div 128^(i - 1)) % 128)
      [] i = 10 -> 1
      [] OTHER  -> 255]

Varint(v) == IF v >= 0 THEN Groups(v) ELSE Negative(v)

VARINT == 0
LENGTH == 2
WireOf(kind) == IF kind \in {"int32", "int64", "bool", "enum"} THEN VARINT ELSE LENGTH

Delimited(body) == Varint(Len(body)) \o body
Tagged(num, wire, body) == <<8 * num + wire>> \o body

\* What follows the tag of every field that is not a message.
Scalar(kind, v) ==
    CASE kind \in {"int32", "int64", "enum"} -> Varint(v)
      [] kind = "bool"                       -> <<IF v THEN 1 ELSE 0>>
      [] kind \in {"string", "bytes"}        -> Delimited(v)
      [] kind = "map" -> Delimited(Tagged(1, LENGTH, Delimited(v[1])) \o
                                   Tagged(2, LENGTH, Delimited(v[2])))

UnknownBytes(unknown) == FlattenSeq(unknown)

Failed == [ok |-> FALSE]

\* One varint off the front: its value, its bytes and the rest.
ReadVarint(buf) ==
    LET ends == {i \in DOMAIN buf : buf[i] < 128}
        n    == CHOOSE i \in ends : \A j \in ends : i <= j
        Value(i) == (buf[i] % 128) * 128^(i - 1)
        Missing(i) == (127 - (buf[i] % 128)) * 128^(i - 1)
        Sum(op(_), k) == FoldLeft(LAMBDA a, i : a + op(i), 0, [i \in 1 .. k |-> i])
    IN  IF ends = {} THEN Failed
        ELSE [ok |-> TRUE, raw |-> SubSeq(buf, 1, n), rest |-> SubSeq(buf, n + 1, Len(buf)),
              v |-> IF n < 10 THEN Sum(Value, n) ELSE -1 - Sum(Missing, 5)]

ReadDelimited(buf) ==
    LET len == ReadVarint(buf)
    IN  IF ~len.ok THEN Failed
        ELSE IF len.v > Len(len.rest) THEN Failed
        ELSE [ok |-> TRUE, v |-> SubSeq(len.rest, 1, len.v),
              raw |-> len.raw \o SubSeq(len.rest, 1, len.v),
              rest |-> SubSeq(len.rest, len.v + 1, Len(len.rest))]

Read(wire, buf) == IF wire = VARINT THEN ReadVarint(buf) ELSE ReadDelimited(buf)

-----------------------------------------------------------------------------
(* The generated functions.  A message is its fields (for every number the  *)
(* sequence of values, or the map) and the unknown fields it carries.       *)

Clear(type) ==
    [f |-> [num \in {type[i].num : i \in DOMAIN type} |-> <<>>], unknown |-> <<>>]

\* The <<field, value>> pairs in the order compute_size and write_to visit them.
Items(type, m) ==
    FlattenSeq([i \in DOMAIN type |->
        LET vs == m.f[type[i].num]
        IN  IF type[i].kind = "map"
            THEN SetToSeq({<<type[i], <<k, vs[k]>>>> : k \in DOMAIN vs})
            ELSE [j \in DOMAIN vs |-> <<type[i], vs[j]>>]])

\* compute_size(cache): the encoded size; one slot per nested message, reserved
\* before the message's own, set when its size is known.
RECURSIVE ComputeSize(_, _, _)
ComputeSize(type, m, cache) ==
    LET Add(acc, item) ==
            IF item[1].kind = "message"
            THEN LET slot  == Len(acc.cache) + 1
                     inner == ComputeSize(item[1].of, item[2], Append(acc.cache, 0))
                 IN  [size |-> acc.size + 1 + Len(Varint(inner.size)) + inner.size,
                      cache |-> [inner.cache EXCEPT ![slot] = inner.size]]
            ELSE [acc EXCEPT !.size = @ + 1 + Len(Scalar(item[1].kind, item[2]))]
        total == FoldLeft(Add, [size |-> 0, cache |-> cache], Items(type, m))
    IN  [total EXCEPT !.size = @ + Len(UnknownBytes(m.unknown))]

\* write_to(cache, buf): a nested message's length comes from the next slot.
RECURSIVE WriteTo(_, _, _)
WriteTo(type, m, cache) ==
    LET Put(acc, item) ==
            IF item[1].kind = "message"
            THEN LET inner == WriteTo(item[1].of, item[2], Tail(acc.cache))
                 IN  [buf |-> acc.buf \o Tagged(item[1].num, LENGTH, Varint(Head(acc.cache)))
                                      \o inner.buf,
                      cache |-> inner.cache]
            ELSE [acc EXCEPT !.buf = @ \o Tagged(item[1].num, WireOf(item[1].kind),
                                                 Scalar(item[1].kind, item[2]))]
        known == FoldLeft(Put, [buf |-> <<>>, cache |-> cache], Items(type, m))
    IN  [known EXCEPT !.buf = @ \o UnknownBytes(m.unknown)]

Encode(type, m) == WriteTo(type, m, ComputeSize(type, m, <<>>).cache).buf

EntryType == << Opt(1, "string"), Opt(2, "string") >>

Put(map, k, v) == [x \in DOMAIN map \cup {k} |-> IF x = k THEN v ELSE map[x]]

\* Mutant: a field this version does not know is skipped.
KeepNothing(m, bytes) == m

\* __buffa_unknown_fields.push.
KeepUnknown(m, bytes) == [m EXCEPT !.unknown = Append(@, bytes)]

\* get_or_insert_default for a singular message; a fresh element for a repeated.
MergeTarget(field, old) ==
    IF old = <<>> \/ field.label = "repeated" THEN Clear(field.of) ELSE old[1]

Merged(m) == [ok |-> TRUE, m |-> m]

\* A string, bytes or number replaces what was there or is appended.
Store(m, field, v) ==
    Merged([m EXCEPT !.f[field.num] = IF field.label = "repeated" THEN Append(@, v) ELSE <<v>>])

StoreMessage(m, field, inner) == IF inner.ok THEN Store(m, field, inner.m) ELSE Failed

StoreEntry(m, field, entry) ==
    LET Part(n) == IF entry.m.f[n] = <<>> THEN <<>> ELSE entry.m.f[n][1]
    IN  IF entry.ok THEN Merged([m EXCEPT !.f[field.num] = Put(@, Part(1), Part(2))]) ELSE Failed

\* A number outside a closed enum is kept as unknown.
StoreEnum(m, field, tag, read) ==
    IF read.v \in field.of THEN Store(m, field, read.v)
    ELSE Merged(KeepUnknown(m, <<tag>> \o read.raw))

RECURSIVE Merge(_, _, _)

\* merge_field for a declared field, of the declared wire type: messages are
\* merged, map entries inserted.
MergeKnown(field, m, tag, read) ==
    CASE field.kind = "message" ->
           StoreMessage(m, field, Merge(field.of, MergeTarget(field, m.f[field.num]), read.v))
      [] field.kind = "map" -> StoreEntry(m, field, Merge(EntryType, Clear(EntryType), read.v))
      [] field.kind = "enum" -> StoreEnum(m, field, tag, read)
      [] field.kind = "bool" -> Store(m, field, read.v # 0)
      [] OTHER -> Store(m, field, read.v)

\* merge_field(tag): an undeclared field is kept as unknown; a wire type that is
\* not the declared one is an error.
MergeField(type, m, tag, read) ==
    LET known == {i \in DOMAIN type : type[i].num = tag \div 8}
    IN  IF ~read.ok THEN Failed
        ELSE IF known = {} THEN Merged(KeepUnknown(m, <<tag>> \o read.raw))
        ELSE LET field == type[CHOOSE i \in known : TRUE]
             IN  IF tag % 8 # WireOf(field.kind) THEN Failed ELSE MergeKnown(field, m, tag, read)

MergeRest(type, merged, read) == IF merged.ok THEN Merge(type, merged.m, read.rest) ELSE Failed

MergeNext(type, m, tag, read) == MergeRest(type, MergeField(type, m, tag, read), read)

\* merge_field for every tag of buf.
Merge(type, m, buf) ==
    IF buf = <<>> THEN Merged(m)
    ELSE MergeNext(type, m, buf[1], Read(buf[1] % 8, Tail(buf)))

Decode(type, buf) == Merge(type, Clear(type), buf)

=============================================================================
