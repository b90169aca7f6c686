----------------------------- MODULE ClientInput ------------------------------
(***************************************************************************)
(* Texts the server takes from, or gives to, its clients: the address a    *)
(* request is taken to come from (clientIP of v1/auth_handler.go) and the  *)
(* digits of a one-time code (internal/auth/otp.go).  A text is a sequence *)
(* of symbols; an IP address is one symbol.                                *)
(***************************************************************************)
EXTENDS Integers, Sequences, SequencesExt

CONSTANTS
    IPv4, IPv6,     \* addresses as PostgreSQL's INET accepts them
    Radix,          \* digits to choose from: 10 in the code
    DefaultDigits,  \* 6 in the code
    MaxDigits       \* 10 in the code

IP == IPv4 \cup IPv6

ASSUME CodeAssumption ==
    /\ Radix \in Nat \ {0} /\ MaxDigits \in Nat \ {0} /\ DefaultDigits \in 1..MaxDigits

-----------------------------------------------------------------------------

TrimSpace(text) ==
    LET kept == {i \in DOMAIN text : text[i] # " "}
    IN IF kept = {} THEN <<>> ELSE SubSeq(text, Min(kept), Max(kept))

TrimPrefix(text, symbol) == IF text # <<>> /\ Head(text) = symbol THEN Tail(text) ELSE text
TrimSuffix(text, symbol) == IF text # <<>> /\ Last(text) = symbol THEN Front(text) ELSE text

\* What precedes the first comma.
FirstPart(text) ==
    LET commas == {i \in DOMAIN text : text[i] = ","}
    IN IF commas = {} THEN text ELSE SubSeq(text, 1, Min(commas) - 1)

CutAtFirstColon(text) ==                                            \* mutant
    LET colons == {i \in DOMAIN text : text[i] \in IPv6 \cup {":"}}
    IN IF colons = {} THEN text ELSE SubSeq(text, 1, Min(colons) - 1)

\* The host of net.SplitHostPort, or the text itself where that is an error: no
\* port, stray brackets, or colons in a host that has no brackets.  A port is one
\* symbol: the addresses of connections, which are all it is called with, have one.
SplitHost(text) ==
    LET bracketed == Len(text) > 4 /\ Head(text) = "[" /\ text[Len(text) - 2] = "]"
        host == IF bracketed THEN SubSeq(text, 2, Len(text) - 3)
                             ELSE SubSeq(text, 1, Len(text) - 2)
        wrong == {"[", "]"} \cup (IF bracketed THEN {} ELSE IPv6 \cup {":"})
    IN IF Len(text) > 2 /\ text[Len(text) - 1] = ":" /\ ToSet(host) \cap wrong = {}
       THEN host ELSE text

UntrimmedHop(xff, realIP, remote) ==                                \* mutant
    LET ip == IF xff # <<>> THEN FirstPart(xff)
              ELSE IF realIP # <<>> THEN TrimSpace(realIP)
              ELSE SplitHost(remote)
    IN TrimSuffix(TrimPrefix(ip, "["), "]")

\* The address noted with sessions and tokens, <<>> for none (NULL).  An absent
\* header is an empty one.
clientIP(xff, realIP, remote) ==
    LET ip == IF xff # <<>> THEN TrimSpace(FirstPart(xff))
              ELSE IF realIP # <<>> THEN TrimSpace(realIP)
              ELSE SplitHost(remote)
    IN TrimSuffix(TrimPrefix(ip, "["), "]")

-----------------------------------------------------------------------------

\* How many codes of k digits there are.
Power[k \in 0..MaxDigits] == IF k = 0 THEN 1 ELSE Radix * Power[k - 1]

WithoutZeros(digits, n) ==                                          \* mutant
    LET d == IF digits <= 0 \/ digits > MaxDigits THEN DefaultDigits ELSE digits
        all == [i \in 1..d |-> (n \div Power[d - i]) % Radix]
        first == Min({i \in 1..d : all[i] # 0 \/ i = d})
    IN SubSeq(all, first, d)

CodeLength(digits) == IF digits <= 0 \/ digits > MaxDigits THEN DefaultDigits ELSE digits

\* The numbers rand.Int draws from.
Draws(digits) == 0..(Power[CodeLength(digits)] - 1)

\* The number drawn, padded with zeros on the left.
GenerateSecureOTP(digits, n) ==
    [i \in 1..CodeLength(digits) |-> (n \div Power[CodeLength(digits) - i]) % Radix]
=============================================================================
