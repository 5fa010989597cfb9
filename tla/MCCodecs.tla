------------------------------ MODULE MCCodecs ------------------------------
(***************************************************************************)
(* The pure algorithms over bounded inputs: the message codec (Proto), the *)
(* nonce, packet and frame formats (Wire), the tunnel arguments (Tunnels)  *)
(* and the handshake output (Bootstrap), each against a reference          *)
(* definition.  A state is one input.                                      *)
(***************************************************************************)
EXTENDS Proto, Wire, Tunnels, Bootstrap, FiniteSets

VARIABLE input

MCMarker   == <<"M", ":">>
MCAlphanum == <<"M", "a">>

-----------------------------------------------------------------------------
(* Messages, of a later version of every type as well: one more field, and   *)
(* one more value of every enum.                                             *)

Types == << ConnectRequest, ConnectResponse, SequenceHeader, CatchupBuffer, SocketEndpoint,
            TerminalBuffer, TerminalInfo, PortForwardSourceRequest, PortForwardSourceResponse,
            PortForwardDestinationRequest, PortForwardDestinationResponse, PortForwardData,
            InitialPayload, InitialResponse, ConfigParams, TermInit, TerminalUserInfo >>

RECURSIVE Newer(_)
Newer(type) ==
    [i \in DOMAIN type |->
        CASE type[i].kind = "message" -> [type[i] EXCEPT !.of = Newer(@)]
          [] type[i].kind = "enum"    -> [type[i] EXCEPT !.of = @ \cup {9}]
          [] OTHER                    -> type[i]]
    \o << Opt(15, "string") >>

Long == [i \in 1 .. 126 |-> 66]

Scalars(field) ==
    CASE field.kind \in {"int32", "int64"}  -> {0, 300, -2147483647 - 1}
      [] field.kind = "bool"                -> BOOLEAN
      [] field.kind = "enum"                -> field.of
      [] OTHER                              -> {<<>>, <<65>>, Long}

\* A nested message with nothing set, with short values, with long ones.
RECURSIVE Sample(_, _)
Sample(type, level) ==
    [f |-> [num \in {type[i].num : i \in DOMAIN type} |->
               LET field == type[CHOOSE i \in DOMAIN type : type[i].num = num]
               IN  CASE level = 0              -> <<>>
                     [] field.kind = "message" -> << Sample(field.of, level) >>
                     [] field.kind = "int32"   -> << IF level = 1 THEN 7 ELSE -7 >>
                     [] OTHER                  -> << IF level = 1 THEN <<65>> ELSE Long >>],
     unknown |-> <<>>]

Fillings(field) ==
    LET vs == IF field.kind = "message" THEN {Sample(field.of, level) : level \in 0 .. 2}
              ELSE Scalars(field)
    IN  CASE field.label = "optional" -> SeqOf(vs, 1)
          [] field.label = "repeated" -> SeqOf(vs, 2)
          [] field.label = "map"      -> UNION {[ks -> {<<>>, Long}] : ks \in SUBSET {<<>>, <<65>>}}

RECURSIVE Fill(_, _)
Fill(type, i) ==
    IF i = 0 THEN {<<>>}
    ELSE {Put(f, type[i].num, v) : f \in Fill(type, i - 1), v \in Fillings(type[i])}

Messages(type) == {[f |-> f, unknown |-> <<>>] : f \in Fill(type, Len(type))}

-----------------------------------------------------------------------------
(* The other inputs. *)

Packets == [encrypted : BOOLEAN, header : 0 .. BYTE - 1, payload : SeqOf({0, 1}, MAX_LENGTH - 2)]

\* Texts of up to n tokens; numbers that stand next to each other would be one
\* number, and so would blanks.
RECURSIVE Texts(_, _)
Texts(n, tokens) ==
    IF n = 0 THEN {<<>>}
    ELSE LET shorter == Texts(n - 1, tokens)
         IN  shorter \cup {Append(s, t) : s \in {u \in shorter : Len(u) = n - 1}, t \in tokens}

Spaced(s) == \A i \in 1 .. Len(s) - 1 : s[i].k \in {"num", " "} => s[i + 1].k # s[i].k

PlusRange(r, signs, from, to) ==
    (IF from \in signs THEN <<Plus>> ELSE <<>>) \o <<Num(r[from]), Dash>>
    \o (IF to \in signs THEN <<Plus>> ELSE <<>>) \o <<Num(r[to])>>

EtTexts ==
    {s \in Texts(7, {Colon, Dash, Num(1), Num(2), Num(MAX_PORT + 1)})
           \cup Texts(5, {Colon, Dash, Plus, Blank, Num(1), Num(2)}) : Spaced(s)}
    \cup {PlusRange(r, {}, 1, 2) \o <<Colon>> \o PlusRange(r, {}, 3, 4) :
              r \in [1 .. 4 -> 0 .. MAX_PORT + 1]}
    \cup {PlusRange(r, signs, 1, 2) \o <<Colon>> \o PlusRange(r, signs, 3, 4) :
              r \in [1 .. 4 -> {1, 2}], signs \in SUBSET (1 .. 4)}

Join(parts, sep) == Tail(FlattenSeq([i \in DOMAIN parts |-> <<sep>> \o parts[i]]))

SshParts == {<<>>, <<Num(0)>>, <<Num(MAX_PORT + 1)>>, <<Dash, Num(0)>>, <<Plus, Num(1)>>,
             <<Blank>>, <<Sym("word")>>,
             <<Sym("[")>>, <<Sym("["), Colon, Colon, Sym("]")>>}
SshTexts == {Join(parts, Colon) : parts \in
                 [1 .. 3 -> SshParts] \cup [1 .. 4 -> SshParts]
                 \cup [1 .. 5 -> {p \in SshParts : ToSet(p) \cap {Plus, Dash, Blank} = {}}]}

Elements == {<<>>, <<Num(1), Colon, Num(2)>>, <<Sym("word"), Colon, Sym("/")>>,
             <<Num(1), Dash, Num(2), Colon, Num(0), Dash, Num(1)>>, <<Num(1)>>,
             <<Blank>>, <<Blank, Num(2), Colon, Num(1), Blank>>,
             Join(<< <<>>, <<Num(1)>>, <<Sym("[")>>, <<Sym("]"), Num(1)>> >>, Colon),
             Join(<< <<Sym("word")>>, <<Num(1)>>, <<Sym("["), Colon, Sym("]")>>, <<Num(2)>> >>, Colon)}
Lists == {Join(es, Sym(",")) : es \in UNION {[1 .. n -> Elements] : n \in 1 .. 3}}

Init ==
    \/ \E t \in DOMAIN Types : \E m \in Messages(Newer(Types[t])) :
         input = [codec |-> "message", type |-> t, m |-> m]
    \/ \E p \in Packets, rest \in SeqOf({0, 1}, 1), cut \in 0 .. LEN_BYTES + MAX_LENGTH :
         input = [codec |-> "frame", p |-> p, rest |-> rest, cut |-> cut]
    \/ \E s \in SeqOf(0 .. BYTE - 1, LEN_BYTES + 3) : input = [codec |-> "stream", s |-> s]
    \/ \E i, j \in 1 .. BYTE^(NONCE_BYTES - 1) - 1, a, b \in {0, 1} :
         input = [codec |-> "nonce", ops |-> << <<i, a>>, <<j, b>> >>]
    \/ \E s \in SeqOf({"packet", "short", "foreign"}, 5) : input = [codec |-> "decrypt", s |-> s]
    \/ \E s \in EtTexts \cup SshTexts \cup Lists : input = [codec |-> "tunnel", s |-> s]
    \/ \E s \in SeqOf({"M", ":", "/", "a"}, Len(MARKER) + ID_LEN + 1 + PASSKEY_LEN + 1), ok \in BOOLEAN :
         input = [codec |-> "ssh", s |-> s, success |-> ok]
    \/ \E s \in [1 .. ID_LEN -> {"M", "a"}] : input = [codec |-> "random", s |-> s]

Check == UNCHANGED input

Spec == Init /\ [][Check]_input

-----------------------------------------------------------------------------
(* Properties. *)

\* Nothing is lost by passing a message on: what decode makes of a later version's
\* message and write_to writes again, that later version reads as it was, its
\* additional field and enum values included at every depth ("Unknown enum values
\* on the wire route to unknown fields").  The size computed in the first pass is
\* the number of bytes the second writes, and every slot of the cache is used.
RelayKeepsNewer ==
    input.codec = "message" =>
        LET type    == Types[input.type]
            seen    == Decode(type, Encode(Newer(type), input.m))
            sized   == ComputeSize(type, seen.m, <<>>)
            written == WriteTo(type, seen.m, sized.cache)
        IN  /\ seen.ok
            /\ sized.size = Len(written.buf) /\ written.cache = <<>>
            /\ Decode(Newer(type), written.buf) = Merged(input.m)

\* A written frame is read back with the rest of the stream untouched, a frame cut
\* anywhere reads as Closed, and whatever else the stream holds, a body that is
\* accepted has at most max_len bytes and the prefix a writer would have put
\* there: no negative and no oversized length gets past the check.
FramesReadBack ==
    /\ input.codec = "frame" =>
         LET packet == WriteFramedPacket(input.p)
             proto  == WriteProtoFrame(Serialize(input.p))
             Cut(s) == SubSeq(s, 1, input.cut)
         IN  /\ ReadFramedPacket(packet \o input.rest)
                  = [ok |-> TRUE, body |-> input.p, rest |-> input.rest]
             /\ ReadProtoFrame(proto \o input.rest)
                  = [ok |-> TRUE, body |-> Serialize(input.p), rest |-> input.rest]
             /\ input.cut < Len(packet) => /\ ReadFramedPacket(Cut(packet)) = Err("Closed")
                                           /\ ReadProtoFrame(Cut(proto)) = Err("Closed")
    /\ input.codec = "stream" =>
         LET proto  == ReadProtoFrame(input.s)
             packet == ReadFramedPacket(input.s)
         IN  /\ proto.ok => /\ Len(proto.body) <= MAX_LENGTH
                            /\ input.s = WriteProtoFrame(proto.body) \o proto.rest
             /\ packet.ok => /\ Len(Serialize(packet.body)) <= MAX_LENGTH
                             /\ BigEndian(Len(Serialize(packet.body))) = SubSeq(input.s, 1, LEN_BYTES)

\* No two operations under one key use one nonce, in one direction or across the
\* two, before the counter carries into the direction byte.  A receiver that
\* refuses short ciphertexts stays in step with the sender and opens every packet;
\* a single ciphertext that does not open, and it never opens another ("the stream
\* is unrecoverable").
StreamInStep ==
    /\ input.codec = "nonce" =>
         LET x == input.ops[1]
             y == input.ops[2]
         IN  x # y => NonceAfter(x[1], x[2]) # NonceAfter(y[1], y[2])
    /\ input.codec = "decrypt" =>
         LET Foreign == [nonce |-> NewNonce(0), msg |-> <<>>, len |-> MAC_BYTES]
             Short   == [nonce |-> NewNonce(0), msg |-> <<>>, len |-> MAC_BYTES - 1]
             Step(acc, op) ==
                 LET c == CASE op = "packet" -> Seal(acc.writer, <<1>>)
                            [] op = "short"  -> Short
                            [] OTHER         -> Foreign
                     r == Open(acc.reader, c)
                 IN  [writer |-> IF op = "packet" THEN c.nonce ELSE acc.writer,
                      reader |-> r.nonce, lost |-> acc.lost \/ op = "foreign",
                      ok |-> acc.ok /\ (r.result # <<>> <=> op = "packet" /\ ~acc.lost)]
         IN  FoldLeft(Step, [writer |-> NewNonce(1), reader |-> NewNonce(1), lost |-> FALSE,
                             ok |-> TRUE], input.s).ok

\* The port a text stands for: digits, behind a plus sign or, for zero, a minus
\* sign; -1 when it is none.
Port(s) ==
    LET digits == IF s # <<>> /\ s[1] = Plus THEN Tail(s) ELSE s
    IN  IF Len(digits) = 1 /\ digits[1].k = "num" /\ digits[1].n <= MAX_PORT THEN digits[1].n
        ELSE IF s = <<Dash, Num(0)>> THEN 0 ELSE -1

\* What a tunnel element means.  With one colon: a pair of ports, or two ascending
\* ranges of one length paired in order, at most one of the two sides with a plus
\* sign.  With more: four parts between the colons that no bracket encloses.
\* <<>> for anything else.
Means(e) ==
    LET colons == {i \in DOMAIN e : e[i] = Colon}
        Enclosed(i) == \E j \in 1 .. i - 1 : e[j].k = "[" /\ \A l \in j .. i - 1 : e[l].k # "]"
        Cuts(is) == <<0>> \o SetToSortSeq(is, LAMBDA a, b : a < b) \o <<Len(e) + 1>>
        Between(cuts) == [i \in 1 .. Len(cuts) - 1 |-> SubSeq(e, cuts[i] + 1, cuts[i + 1] - 1)]
        et    == Between(Cuts({i \in DOMAIN e : e[i] \in {Colon, Dash}}))
        Bare(s) == SelectSeq(s, LAMBDA t : t.k \notin {"[", "]"})
        ssh   == [i \in 1 .. 4 |-> Bare(Between(Cuts({j \in colons : ~Enclosed(j)}))[i])]
        N(i)  == Port(et[i])
        Ports(n) == Len(et) = n /\ \A i \in 1 .. n : N(i) # -1
        OneSigned == \E colon \in colons : ~(/\ \E i \in 1 .. colon : e[i] = Plus
                                           /\ \E i \in colon .. Len(e) : e[i] = Plus)
    IN  IF Cardinality(colons) = 1
        THEN IF ~OneSigned THEN <<>>
             ELSE IF Ports(2) /\ ~HasSym(e, "-") THEN << Request(Local, N(1), <<>>, N(2)) >>
             ELSE IF Ports(4) /\ e[Len(et[1]) + 1] = Dash /\ e[Len(e) - Len(et[4])] = Dash
                     /\ N(1) <= N(2) /\ N(2) - N(1) = N(4) - N(3)
             THEN [i \in 1 .. N(2) - N(1) + 1 |-> Request(Local, N(1) + i - 1, <<>>, N(3) + i - 1)]
             ELSE <<>>
        ELSE IF Cardinality({j \in colons : ~Enclosed(j)}) = 3 /\ -1 \notin {Port(ssh[2]), Port(ssh[4])}
        THEN << Request(ssh[1], Port(ssh[2]), ssh[3], Port(ssh[4])) >>
        ELSE <<>>

\* parse_ranges accepts exactly the lists in which every element, without the
\* blanks around it, means something, and forwards exactly that, in order: no
\* element is dropped, none expands to nothing, no port leaves its range.
TunnelsAsWritten ==
    input.codec = "tunnel" =>
        LET es     == SelectSeq([i \in DOMAIN SplitOn(input.s, ",") |-> Trim(SplitOn(input.s, ",")[i])],
                                LAMBDA e : e # <<>>)
            parsed == parse_ranges(input.s)
        IN  /\ parsed.ok <=> \A i \in DOMAIN es : Means(es[i]) # <<>>
            /\ parsed.ok => parsed.v = FlattenSeq([i \in DOMAIN es |-> Means(es[i])])

\* The handshake succeeds exactly when the first marker is followed by an id, a
\* slash and a passkey of the right total length, whatever surrounds it, and
\* yields those; what it yields is alphanumeric.
HandshakeFindsKey ==
    input.codec = "ssh" =>
        LET r == run_ssh_handshake(input.success, input.s)
            Alnum(s) == \A i \in DOMAIN s : s[i] \in {"M", "a"}
            Marked(n) == IsPrefix(MARKER, SubSeq(input.s, n + 1, Len(input.s)))
            Holds(n, k) ==
                LET at == n + Len(MARKER)
                IN  /\ Marked(n) /\ \A l \in 0 .. n - 1 : ~Marked(l)
                    /\ Len(input.s) >= at + ID_LEN + 1 + PASSKEY_LEN
                    /\ input.s[at + k] = "/"
                    /\ Alnum(SubSeq(input.s, at + 1, at + k - 1))
                    /\ Alnum(SubSeq(input.s, at + k + 1, at + ID_LEN + 1 + PASSKEY_LEN))
        IN  /\ r.ok <=> \E n \in 0 .. Len(input.s), k \in 1 .. ID_LEN + 1 + PASSKEY_LEN : Holds(n, k)
            /\ r.ok => Len(r.v.id) + Len(r.v.passkey) = ID_LEN + PASSKEY_LEN

\* "Uniformly samples": every id comes from equally many random streams.
UniformIds ==
    input.codec = "random" =>
        LET Streams == [1 .. 2 * FILL -> 0 .. RANDOM_BYTE - 1]
            Count(s) == Cardinality({r \in Streams : random_alphanum(ID_LEN, <<>>, r) = s})
        IN  Count(input.s) = Count([i \in 1 .. ID_LEN |-> "a"])

=============================================================================
