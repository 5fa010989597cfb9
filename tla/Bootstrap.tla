----------------------------- MODULE Bootstrap ------------------------------
(***************************************************************************)
(* How a client gets its id and passkey: the generator of                  *)
(* crates/et-proto/src/ids.rs and the handshake of                         *)
(* crates/et-client/src/ssh.rs, which finds the marker in whatever the     *)
(* login shell printed.  Characters are strings of length one.             *)
(***************************************************************************)
EXTENDS Integers, Sequences, SequencesExt

CONSTANTS
    ID_LEN, PASSKEY_LEN,
    MARKER,             \* IDPASSKEY_MARKER
    ALPHANUM,           \* the alphabet, a sequence of characters
    RANDOM_BYTE,        \* random bytes are below this
    FILL                \* random bytes per getrandom::fill

ASSUME BootstrapAssumption ==
    /\ {ID_LEN, PASSKEY_LEN, FILL} \subseteq Nat \ {0}
    /\ MARKER # <<>> /\ Len(ALPHANUM) \in 1 .. RANDOM_BYTE

is_alphanumeric(c) == \E i \in DOMAIN ALPHANUM : ALPHANUM[i] = c

\* Mutant: every byte is taken, reduced modulo the alphabet.
AcceptedModulo(bytes) == [i \in DOMAIN bytes |-> ALPHANUM[(bytes[i] % Len(ALPHANUM)) + 1]]

\* Bytes past the alphabet are rejected.
Accepted(bytes) ==
    LET kept == SelectSeq(bytes, LAMBDA b : b < Len(ALPHANUM))
    IN  [i \in DOMAIN kept |-> ALPHANUM[kept[i] + 1]]

\* random_alphanum(len) when the generator yields `random`: whole fills are
\* drawn until there are enough, the rest of the last one is discarded.  The
\* result is <<>> when `random` does not suffice.
RECURSIVE random_alphanum(_, _, _)
random_alphanum(len, out, random) ==
    LET more == out \o Accepted(SubSeq(random, 1, FILL))
    IN  IF Len(out) = len THEN out
        ELSE IF Len(random) < FILL THEN <<>>
        ELSE random_alphanum(len, SubSeq(more, 1, IF Len(more) < len THEN Len(more) ELSE len),
                             SubSeq(random, FILL + 1, Len(random)))

-----------------------------------------------------------------------------

At(output, i, s) == i + Len(s) - 1 <= Len(output) /\ SubSeq(output, i, i + Len(s) - 1) = s

\* Mutant: the last marker instead of the first.
MarkerLast(output) ==
    LET found == {i \in DOMAIN output : At(output, i, MARKER)}
    IN  IF found = {} THEN 0 ELSE CHOOSE i \in found : \A j \in found : i >= j

\* The first marker, 0 when there is none.
Marker(output) ==
    LET found == {i \in DOMAIN output : At(output, i, MARKER)}
    IN  IF found = {} THEN 0 ELSE CHOOSE i \in found : \A j \in found : i <= j

\* parse_idpasskey_bytes: the characters right after the marker, exactly as many
\* as an id, a slash and a passkey take, split at the first slash; both parts
\* alphanumeric.  <<>> stands for None.
parse_idpasskey(output) ==
    LET start == Marker(output) + Len(MARKER)
        field == SubSeq(output, start, start + ID_LEN + PASSKEY_LEN)
        slash == {i \in DOMAIN field : field[i] = "/"}
        at    == CHOOSE i \in slash : \A j \in slash : i <= j
        id      == SubSeq(field, 1, at - 1)
        passkey == SubSeq(field, at + 1, Len(field))
    IN  IF Marker(output) = 0 THEN <<>>
        ELSE IF Len(output) < start + ID_LEN + PASSKEY_LEN THEN <<>>
        ELSE IF slash = {} THEN <<>>
        ELSE IF \E i \in DOMAIN (id \o passkey) : ~is_alphanumeric((id \o passkey)[i]) THEN <<>>
        ELSE << [id |-> id, passkey |-> passkey] >>

\* run_ssh_handshake: a failed ssh that printed nothing is SshFailed; otherwise
\* what it printed decides.
run_ssh_handshake(success, stdout) ==
    IF ~success /\ stdout = <<>> THEN [ok |-> FALSE, error |-> "SshFailed"]
    ELSE IF parse_idpasskey(stdout) = <<>> THEN [ok |-> FALSE, error |-> "MissingMarker"]
    ELSE [ok |-> TRUE, v |-> parse_idpasskey(stdout)[1]]

=============================================================================
