------------------------------ MODULE Passwords -------------------------------
(***************************************************************************)
(* The password policy and the stored Argon2id hash                        *)
(* (internal/auth/password.go).  A password is a sequence of runes, each   *)
(* with its Unicode class and the bytes of its UTF-8 form; an encoded hash *)
(* is the sequence of its parts between "$" signs.                         *)
(***************************************************************************)
EXTENDS Integers, Sequences, SequencesExt

CONSTANTS MinBytes, MaxBytes    \* 8 and 128 in the code

ASSUME PolicyAssumption == MinBytes \in Nat /\ MaxBytes \in Nat

Classes == <<"upper", "lower", "number", "special">>

Bytes(password) == FoldLeft(LAMBDA n, rune : n + rune.bytes, 0, password)

Has(password, class) == \E i \in DOMAIN password : password[i].class = class

\* The positions of the classes that no rune of a password has.
Missing(password) == {i \in DOMAIN Classes : ~Has(password, Classes[i])}

TooShortByOne(password) ==                                          \* mutant
    IF Bytes(password) <= MinBytes THEN "short"
    ELSE IF Bytes(password) > MaxBytes THEN "long"
    ELSE IF Missing(password) = {} THEN "ok" ELSE Classes[Min(Missing(password))]

\* The first requirement a password fails, or "ok".  Runes of no class, blanks
\* for instance, are allowed and satisfy nothing.
ValidatePasswordStrength(password) ==
    IF Bytes(password) < MinBytes THEN "short"
    ELSE IF Bytes(password) > MaxBytes THEN "long"
    ELSE IF Missing(password) = {} THEN "ok" ELSE Classes[Min(Missing(password))]

-----------------------------------------------------------------------------

\* Argon2id: another password, salt, cost or version of the algorithm, another key.
IDKey(version, password, salt, params) ==
    [version |-> version, password |-> password, salt |-> salt, params |-> params]

\* library: the version of Argon2 the release was linked with.
HashPassword(library, password, params, salt) ==
    <<"", "argon2id", library, params, salt, IDKey(library, password, salt, params)>>

\* What a just-in-time account has in place of a hash: the empty text, one part.
NoHash == <<"">>

VerifyWithOwnParams(library, params, password, encoded) ==          \* mutant
    IF Len(encoded) # 6 THEN "error"
    ELSE IF encoded[2] # "argon2id" \/ encoded[3] # library THEN "error"
    ELSE IF IDKey(library, password, encoded[5], params) = encoded[6]
         THEN "match" ELSE "mismatch"

\* The salt and the costs are those of the stored hash, whatever this release
\* hashes new passwords with (params is not looked at).
VerifyPassword(library, params, password, encoded) ==
    IF Len(encoded) # 6 THEN "error"
    ELSE IF encoded[2] # "argon2id" \/ encoded[3] # library THEN "error"
    ELSE IF IDKey(library, password, encoded[5], encoded[4]) = encoded[6]
         THEN "match" ELSE "mismatch"
=============================================================================
