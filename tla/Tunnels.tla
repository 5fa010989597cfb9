------------------------------ MODULE Tunnels -------------------------------
(***************************************************************************)
(* The tunnel arguments of crates/et-proto/src/forward.rs: parse_ranges    *)
(* and its helpers.  The text is a sequence of tokens: a maximal run of    *)
(* digits is one number, a run of white space one blank, a run of other    *)
(* characters without meaning to the parser one word.  A result is the     *)
(* requests in order, or the error.                                        *)
(***************************************************************************)
EXTENDS Integers, Sequences, SequencesExt

CONSTANT MAX_PORT       \* 65535 in the code

Num(n) == [k |-> "num", n |-> n]
Sym(k) == [k |-> k]

Colon == Sym(":")
Dash  == Sym("-")
Plus  == Sym("+")
Blank == Sym(" ")

\* str::split on one separator.
SplitOn(s, k) ==
    FoldLeft(LAMBDA parts, t : IF t.k = k THEN Append(parts, <<>>)
                               ELSE Front(parts) \o << Append(Last(parts), t) >>,
             << <<>> >>, s)

\* str::trim
Trim(s) ==
    LET inner == {i \in DOMAIN s : s[i] # Blank}
    IN  IF inner = {} THEN <<>> ELSE SubSeq(s, Min(inner), Max(inner))

HasSym(s, k) == \E i \in DOMAIN s : s[i].k = k

is_socket_path(s)   == s # <<>> /\ s[1].k = "/"
numeric_or_range(s) == s # <<>> /\ \A i \in DOMAIN s : s[i].k \in {"num", "-"}

Bad(error) == [ok |-> FALSE, error |-> error]
Good(v)    == [ok |-> TRUE, v |-> v]

\* parse_port: a decimal i64 with an optional sign, '+' or '-', in 0..=65535.
parse_port(s) ==
    LET signed == Len(s) = 2 /\ s[1] \in {Plus, Dash}
        n      == IF s[1] = Dash THEN -Last(s).n ELSE Last(s).n
    IN  IF ~((Len(s) = 1 \/ signed) /\ Last(s).k = "num") THEN Bad("Invalid")
        ELSE IF n \in 0 .. MAX_PORT THEN Good(n) ELSE Bad("PortOutOfRange")

\* The first error among results evaluated in order, or their values.
All(results) ==
    LET bad == {i \in DOMAIN results : ~results[i].ok}
    IN  IF bad = {} THEN Good([i \in DOMAIN results |-> results[i].v])
        ELSE results[CHOOSE i \in bad : \A j \in bad : i <= j]

Request(bind, sport, host, dport) ==
    [source |-> <<bind, Num(sport)>>, destination |-> <<host, Num(dport)>>]
Local == << Sym("localhost") >>

\* Mutant: descending ranges of the same length are let through.
ExpandAnyRange(r) ==
    IF r[2] - r[1] # r[4] - r[3] THEN Bad("RangeLengthMismatch")
    ELSE Good([i \in 1 .. r[2] - r[1] + 1 |-> Request(Local, r[1] + i - 1, <<>>, r[3] + i - 1)])

\* Two ascending ranges of one length, port by port.
ExpandRange(r) ==
    IF r[2] < r[1] \/ r[4] < r[3] THEN Bad("Invalid")
    ELSE IF r[2] - r[1] # r[4] - r[3] THEN Bad("RangeLengthMismatch")
    ELSE Good([i \in 1 .. r[2] - r[1] + 1 |-> Request(Local, r[1] + i - 1, <<>>, r[3] + i - 1)])

process_et_style(parts) ==
    IF Len(parts) < 2 THEN Bad("MissingDestination")
    ELSE
    LET src == parts[1]
        dst == parts[2]
        src_range == SplitOn(src, "-")
        dst_range == SplitOn(dst, "-")
    IN  IF is_socket_path(src) \/ (is_socket_path(dst) /\ numeric_or_range(src))
        THEN Bad("UnsupportedSocket")
        ELSE IF ~numeric_or_range(src) /\ ~numeric_or_range(dst) /\ src # <<>>
        THEN Bad("UnsupportedSocket")
        ELSE IF HasSym(src, "-") /\ HasSym(dst, "-")
        THEN IF Len(src_range) # 2 \/ Len(dst_range) # 2 THEN Bad("Invalid")
             ELSE LET ends == All([i \in 1 .. 4 |->
                                     parse_port((src_range \o dst_range)[i])])
                  IN  IF ends.ok THEN ExpandRange(ends.v) ELSE ends
        ELSE IF HasSym(src, "-") \/ HasSym(dst, "-") THEN Bad("HalfRange")
        ELSE LET ports == All(<< parse_port(src), parse_port(dst) >>)
             IN  IF ports.ok THEN Good(<< Request(Local, ports.v[1], <<>>, ports.v[2]) >>) ELSE ports

\* The colons outside square brackets separate; the brackets themselves go.
parse_ssh_tunnel_arg(s) ==
    LET Step(acc, t) ==
            CASE t.k = "[" -> [acc EXCEPT !.in_brackets = TRUE]
              [] t.k = "]" -> [acc EXCEPT !.in_brackets = FALSE]
              [] t.k = ":" /\ ~acc.in_brackets ->
                    [acc EXCEPT !.parts = Append(@, acc.current), !.current = <<>>]
              [] OTHER -> [acc EXCEPT !.current = Append(@, t)]
        end   == FoldLeft(Step, [parts |-> <<>>, current |-> <<>>, in_brackets |-> FALSE], s)
        parts == Append(end.parts, end.current)
    IN  IF Len(parts) # 4 THEN Bad("Invalid") ELSE Good(parts)

parse_element(s) ==
    IF s = <<>> THEN Good(<<>>)
    ELSE IF Len(SplitOn(s, ":")) <= 2 THEN process_et_style(SplitOn(s, ":"))
    ELSE LET ssh   == parse_ssh_tunnel_arg(s)
             ports == All(<< parse_port(ssh.v[2]), parse_port(ssh.v[4]) >>)
         IN  IF ~ssh.ok THEN ssh
             ELSE IF ~ports.ok THEN ports
             ELSE Good(<< Request(ssh.v[1], ports.v[1], ssh.v[3], ports.v[2]) >>)

\* parse_ranges: the trimmed elements in order, up to the first error.
parse_ranges(input) ==
    LET elements == SplitOn(input, ",")
        parsed   == All([i \in DOMAIN elements |-> parse_element(Trim(elements[i]))])
    IN  IF parsed.ok THEN Good(FlattenSeq(parsed.v)) ELSE parsed

=============================================================================
