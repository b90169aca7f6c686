----------------------------- MODULE InputsProofs ------------------------------
(***************************************************************************)
(* Passwords, client addresses and codes of any length, over any alphabet: *)
(* which texts a stored hash accepts, which passwords the policy does,     *)
(* which headers name an address that the database takes, and that no code *)
(* is likelier than another.                                               *)
(***************************************************************************)
EXTENDS Inputs, FoldLemmas, SequenceTheorems, FiniteSetTheorems, TLAPS

(* What is typed and what is stored. *)

Typed == subject \in DOMAIN Alphabet /\ text \in Seq(Alphabet[subject])

\* The hash of a row was made by some release of the password in the history.
Stored ==
    /\ release \in Release
    /\ \/ hash = NoHash /\ secret = NoSecret
       \/ \E r \in Release : \E password, salt :
              /\ hash = HashPassword(r.version, password, r.params, salt)
              /\ secret = [password |-> password, version |-> r.version]

\* Neither typing nor a change of password nor a new release disturbs them.
LEMMA InputsKept ==
    ASSUME Typed, Stored, [Next]_vars
    PROVE  Typed' /\ Stored'
  <1>1. CASE Type
    <2>1. PICK symbol \in Alphabet[subject] : text' = Append(text, symbol)
      BY <1>1 DEF Type
    <2>2. Append(text, symbol) \in Seq(Alphabet[subject])
      BY DEF Typed
    <2> QED BY <1>1, <2>1, <2>2 DEF Type, Typed, Stored
  <1>2. CASE SetPassword
    BY <1>2 DEF SetPassword, Typed, Stored
  <1>3. CASE Upgrade
    BY <1>3 DEF Upgrade, Typed, Stored
  <1>4. CASE UNCHANGED vars
    BY <1>4 DEF vars, Typed, Stored
  <1> QED
    BY <1>1, <1>2, <1>3, <1>4 DEF Next

\* They hold from the start.
LEMMA InputsAlways == Spec => [](Typed /\ Stored)
  <1>1. Init => Typed /\ Stored
    BY DEF Init, Typed, Stored
  <1> QED
    BY <1>1, InputsKept, PTL DEF Spec

-----------------------------------------------------------------------------
(* Passwords. *)

\* The costs and the salt of the stored hash decide, and the key derived with them is
\* that of no other password.
THEOREM OnlyOwnPassword == Spec => []OnlyOwnPasswordMatches
  <1>1. Stored => OnlyOwnPasswordMatches
    <2> SUFFICES ASSUME Stored
                 PROVE  VerifyPassword(release.version, release.params, text, hash) = "match"
                        <=> secret # NoSecret /\ text = secret.password
                            /\ release.version = secret.version
      BY DEF OnlyOwnPasswordMatches
    <2>1. CASE hash = NoHash /\ secret = NoSecret
      <3>1. Len(NoHash) = 1
        BY DEF NoHash
      <3>2. Len(hash) = Len(NoHash)
        BY <2>1
      <3>3. VerifyPassword(release.version, release.params, text, hash) = "error"
        BY <3>1, <3>2 DEF VerifyPassword
      <3> QED BY <2>1, <3>3
    <2>2. ASSUME NEW r \in Release, NEW password, NEW salt,
                 hash = HashPassword(r.version, password, r.params, salt),
                 secret = [password |-> password, version |-> r.version]
          PROVE  VerifyPassword(release.version, release.params, text, hash) = "match"
                 <=> secret # NoSecret /\ text = secret.password
                     /\ release.version = secret.version
      <3>1. secret # NoSecret /\ secret.password = password /\ secret.version = r.version
        BY <2>2, ReleaseAssumption DEF NoSecret
      <3>2. /\ Len(hash) = 6 /\ hash[2] = "argon2id" /\ hash[3] = r.version
            /\ hash[4] = r.params /\ hash[5] = salt
            /\ hash[6] = IDKey(r.version, password, salt, r.params)
        BY <2>2 DEF HashPassword
      <3>3. IDKey(release.version, text, salt, r.params) = IDKey(r.version, password, salt, r.params)
            <=> release.version = r.version /\ text = password
        BY DEF IDKey
      <3> QED BY <3>1, <3>2, <3>3 DEF VerifyPassword
    <2> QED BY <2>1, <2>2 DEF Stored
  <1> QED
    BY <1>1, InputsAlways, PTL

\* What has been counted of a password after some of its runes.
Counting(password, iter) ==
    iter = [s \in SUBSET (1..Len(password)) |->
               IF s = {} THEN 0 ELSE iter[s \ {Max(s)}] + password[Max(s)].bytes]

\* A password has a byte for every rune at least, and no more where each has one.
LEMMA BytesCounted ==
    ASSUME NEW S, \A rune \in S : rune.bytes \in Nat \ {0}, NEW password \in Seq(S)
    PROVE  /\ Bytes(password) \in Nat /\ Bytes(password) >= Len(password)
           /\ (\A i \in DOMAIN password : password[i].bytes = 1) =>
                  Bytes(password) = Len(password)
  <1> DEFINE len == Len(password)
             step == [p \in Nat \X (1..len) |-> p[1] + password[p[2]].bytes]
  <1>1. len \in Nat /\ DOMAIN password = 1..len
        /\ \A i \in 1..len : password[i].bytes \in Nat \ {0}
    OBVIOUS
  <1>2. step \in [Nat \X (1..len) -> Nat]
    <2> HIDE DEF len
    <2> QED BY <1>1
  <1>3. PICK iter \in [SUBSET (1..len) -> Nat] : Folds(iter, 0, step, len)
    <2> HIDE DEF step, len
    <2> QED BY <1>1, <1>2, FoldExists
  <1>4. Counting(password, iter)
    <2>1. ASSUME NEW s \in SUBSET (1..len), s # {}
          PROVE  step[iter[s \ {Max(s)}], Max(s)] = iter[s \ {Max(s)}] + password[Max(s)].bytes
      <3>1. Max(s) \in 1..len
        BY <1>1, <2>1, MaxIsGreatest
      <3>2. iter[s \ {Max(s)}] \in Nat
        BY <1>3
      <3> HIDE DEF len
      <3> QED BY <3>1, <3>2
    <2> HIDE DEF step
    <2> QED BY <1>3, <2>1 DEF Folds, Counting
  <1> DEFINE counted == CHOOSE it : Counting(password, it)
  <1>5. Counting(password, counted)
    <2> HIDE DEF len
    <2> QED BY <1>4
  <1>6. Bytes(password) = counted[1..len]
    BY <1>1 DEF Bytes, FoldLeft, MapThenFoldSet, Counting
  <1> HIDE DEF counted
  <1> DEFINE Single == \A i \in DOMAIN password : password[i].bytes = 1
             Right(n) == /\ counted[1..n] \in Nat /\ counted[1..n] >= n
                         /\ Single => counted[1..n] = n
             Settled == {n \in 0..len : Right(n)}
  <1>7. 0 \in Settled
    <2>1. 1..0 = {} /\ {} \in SUBSET (1..len)
      OBVIOUS
    <2>2. counted[1..0] = 0
      BY <1>5, <2>1 DEF Counting
    <2> QED BY <1>1, <2>2
  <1>8. ASSUME NEW n \in 1..len, n - 1 \in Settled PROVE n \in Settled
    <2>1. n \in Nat \ {0} /\ 1..n \in SUBSET (1..len)
      BY <1>1
    <2>2. 1..n # {} /\ Max(1..n) = n /\ (1..n) \ {n} = 1..(n - 1)
      BY <2>1, LastOfFirst
    <2>3. counted[1..n] = counted[1..(n - 1)] + password[n].bytes
      BY <1>5, <2>1, <2>2 DEF Counting
    <2>4. password[n].bytes \in Nat \ {0} /\ (Single => password[n].bytes = 1)
      BY <1>1
    <2> HIDE DEF Single, len
    <2> QED BY <1>1, <1>8, <2>1, <2>3, <2>4
  <1>9. Right(len)
    <2> HIDE DEF Right, len
    <2>1. len \in 0..len
      BY <1>1
    <2> HIDE DEF Settled
    <2>2. len \in Settled
      BY <1>1, <1>7, <1>8, <2>1, UpTo
    <2> QED BY <2>2 DEF Settled
  <1> QED
    BY <1>6, <1>9

\* The policy is that of the documents where every character is one byte; elsewhere
\* it is never more lenient at the upper limit, nor about the classes.
THEOREM PolicyStated == Spec => []PolicyAsDocumented
  <1>1. Typed => PolicyAsDocumented
    <2> SUFFICES ASSUME Typed, subject = "password" PROVE PolicyAsDocumented
      BY DEF PolicyAsDocumented
    <2>1. text \in Seq(Alphabet["password"])
      BY DEF Typed
    <2>2. /\ Bytes(text) \in Nat /\ Bytes(text) >= Len(text)
          /\ SingleByte => Bytes(text) = Len(text)
      BY <2>1, BytesCounted, SymbolAssumption DEF SingleByte
    <2> DEFINE allClasses == {Classes[i] : i \in DOMAIN Classes}
                                \subseteq {text[i].class : i \in DOMAIN text}
    <2>3. Missing(text) = {} <=> allClasses
      BY DEF Missing, Has
    <2>4. Missing(text) # {} => Classes[Min(Missing(text))] # "ok"
      <3> SUFFICES ASSUME Missing(text) # {} PROVE Classes[Min(Missing(text))] # "ok"
        OBVIOUS
      <3>1. Missing(text) \subseteq 1..4
        BY DEF Missing, Classes
      <3>2. Min(Missing(text)) \in 1..4
        BY <3>1, MinIsLeast
      <3> QED BY <3>2 DEF Classes
    <2>5. ValidatePasswordStrength(text) = "ok"
          <=> Bytes(text) >= MinBytes /\ Bytes(text) <= MaxBytes /\ allClasses
      <3> HIDE DEF allClasses
      <3> QED BY <2>2, <2>3, <2>4, PolicyAssumption DEF ValidatePasswordStrength
    <2>6. Len(text) \in Nat
      BY <2>1
    <2> HIDE DEF allClasses
    <2>7. /\ SingleByte => (ValidatePasswordStrength(text) = "ok"
                              <=> Len(text) \in MinBytes..MaxBytes /\ allClasses)
          /\ ValidatePasswordStrength(text) = "ok" => Len(text) <= MaxBytes /\ allClasses
      BY <2>2, <2>5, <2>6, PolicyAssumption
    <2> QED BY <2>7 DEF PolicyAsDocumented, allClasses
  <1> QED
    BY <1>1, InputsAlways, PTL

-----------------------------------------------------------------------------
(* Addresses. *)

\* What clientIP makes of a text without blanks around it.
Stripped(t) == TrimSuffix(TrimPrefix(t, "["), "]")

\* Two symbols under a name: the SMT backend takes no literal like theirs.
Blank == " "
Comma == ","

\* Text t is address a with a bracket or none on either side.
Bracketed(t, a) ==
    \E i \in DOMAIN t :
        /\ t[i] = a
        /\ \A j \in DOMAIN t \ {i} : <<t[j], j>> \in {<<"[", i - 1>>, <<"]", i + 1>>}

\* A part of a text, symbol by symbol.
LEMMA PartOf ==
    ASSUME NEW S, NEW t \in Seq(S), NEW m \in 1..(Len(t) + 1), NEW n \in 0..Len(t), m <= n + 1
    PROVE  /\ SubSeq(t, m, n) \in Seq(S) /\ Len(SubSeq(t, m, n)) = n - m + 1
           /\ \A i \in 1..(n - m + 1) : SubSeq(t, m, n)[i] = t[i + m - 1]
  <1>1. Len(t) \in Nat /\ \A i \in 1..Len(t) : t[i] \in S
    OBVIOUS
  <1>2. m \in Int /\ n \in Int /\ \A i \in m..n : t[i] \in S
    BY <1>1
  <1>3. /\ SubSeq(t, m, n) \in Seq(S)
        /\ Len(SubSeq(t, m, n)) = IF m <= n THEN n - m + 1 ELSE 0
        /\ \A i \in 1..(n - m + 1) : SubSeq(t, m, n)[i] = t[m + i - 1]
    BY <1>2, SubSeqProperties
  <1>4. \A i \in 1..(n - m + 1) : m + i - 1 = i + m - 1
    BY <1>2
  <1>5. ~ (m <= n) => n - m + 1 = 0
    BY <1>2
  <1> QED
    BY <1>3, <1>4, <1>5

\* A part of one symbol.
LEMMA OneSymbol ==
    ASSUME NEW S, NEW t \in Seq(S), NEW m \in 1..Len(t)
    PROVE  SubSeq(t, m, m) = <<t[m]>>
  <1>1. m \in 1..(Len(t) + 1) /\ m \in 0..Len(t) /\ m <= m + 1 /\ m - m + 1 = 1 /\ 1 + m - 1 = m
    OBVIOUS
  <1> DEFINE u == SubSeq(t, m, m)
  <1>2. u \in Seq(S) /\ Len(u) = 1 /\ u[1] = t[m]
    BY <1>1, PartOf
  <1> HIDE DEF u
  <1>3. u = <<t[m]>>
    BY <1>2
  <1> QED
    BY <1>3 DEF u

\* What is left once a symbol was cut off in front.
LEMMA PrefixTrimmed ==
    ASSUME NEW S, NEW t \in Seq(S), NEW symbol
    PROVE  /\ TrimPrefix(t, symbol) \in Seq(S)
           /\ \/ /\ t = <<>> \/ t[1] # symbol
                 /\ TrimPrefix(t, symbol) = t
              \/ /\ t # <<>> /\ t[1] = symbol
                 /\ Len(TrimPrefix(t, symbol)) = Len(t) - 1
                 /\ \A i \in 1..(Len(t) - 1) : TrimPrefix(t, symbol)[i] = t[i + 1]
  BY DEF TrimPrefix

\* And behind.
LEMMA SuffixTrimmed ==
    ASSUME NEW S, NEW t \in Seq(S), NEW symbol
    PROVE  \/ /\ t = <<>> \/ t[Len(t)] # symbol
              /\ TrimSuffix(t, symbol) = t
           \/ /\ t # <<>> /\ t[Len(t)] = symbol
              /\ Len(TrimSuffix(t, symbol)) = Len(t) - 1
              /\ \A i \in 1..(Len(t) - 1) : TrimSuffix(t, symbol)[i] = t[i]
  <1>1. t # <<>> => Len(t) \in Nat \ {0} /\ Len(t) - 1 \in 0..Len(t)
    OBVIOUS
  <1>2. t # <<>> => /\ Len(Front(t)) = Len(t) - 1
                    /\ \A i \in 1..(Len(t) - 1) : Front(t)[i] = t[i]
    <2> SUFFICES ASSUME t # <<>>
                 PROVE  /\ Len(Front(t)) = Len(t) - 1
                        /\ \A i \in 1..(Len(t) - 1) : Front(t)[i] = t[i]
      OBVIOUS
    <2> DEFINE n == Len(t) - 1
    <2>1. n \in Nat /\ n \in 0..Len(t) /\ 1 \in 1..(Len(t) + 1) /\ 1 <= n + 1 /\ n - 1 + 1 = n
      BY <1>1
    <2> HIDE DEF n
    <2>2. /\ Len(SubSeq(t, 1, n)) = n - 1 + 1
          /\ \A i \in 1..(n - 1 + 1) : SubSeq(t, 1, n)[i] = t[i + 1 - 1]
      BY <2>1, PartOf
    <2>3. \A i \in 1..n : i + 1 - 1 = i
      BY <2>1
    <2>4. Front(t) = SubSeq(t, 1, n)
      BY DEF Front, n
    <2> QED BY <2>1, <2>2, <2>3, <2>4 DEF n
  <1> QED
    BY <1>2 DEF TrimSuffix, Last

\* The first and the last symbol that is not blank end a trimmed text.
LEMMA BlanksTrimmed ==
    ASSUME NEW S, NEW t \in Seq(S)
    PROVE  \/ /\ \A i \in 1..Len(t) : t[i] = Blank
              /\ TrimSpace(t) = <<>>
           \/ \E m, n \in 1..Len(t) :
                 /\ m <= n /\ t[m] # Blank /\ t[n] # Blank
                 /\ \A i \in 1..Len(t) : i < m \/ i > n => t[i] = Blank
                 /\ TrimSpace(t) \in Seq(S) /\ Len(TrimSpace(t)) = n - m + 1
                 /\ \A i \in 1..(n - m + 1) : TrimSpace(t)[i] = t[i + m - 1]
  <1> DEFINE kept == {i \in DOMAIN t : t[i] # Blank}
  <1>1. TrimSpace(t) = IF kept = {} THEN <<>> ELSE SubSeq(t, Min(kept), Max(kept))
    BY Zenon DEF TrimSpace, Blank
  <1>2. Len(t) \in Nat /\ DOMAIN t = 1..Len(t)
    OBVIOUS
  <1>3. CASE kept = {}
    BY <1>1, <1>2, <1>3
  <1>4. CASE kept # {}
    <2>1. kept \subseteq 1..Len(t) /\ kept \subseteq Nat
      BY <1>2
    <2>2. /\ Min(kept) \in kept /\ \A i \in kept : Min(kept) <= i
          /\ Max(kept) \in kept /\ \A i \in kept : i <= Max(kept)
      <3> HIDE DEF kept
      <3> QED BY <1>2, <1>4, <2>1, MinIsLeast, MaxIsGreatest
    <2> DEFINE m == Min(kept)
               n == Max(kept)
    <2>3. TrimSpace(t) = SubSeq(t, m, n)
      BY <1>1, <1>4
    <2> HIDE DEF m, n
    <2>4. m \in 1..Len(t) /\ n \in 1..Len(t) /\ t[m] # Blank /\ t[n] # Blank /\ m <= n
      BY <1>2, <2>2 DEF m, n
    <2>5. \A i \in 1..Len(t) : i < m \/ i > n => t[i] = Blank
      <3> SUFFICES ASSUME NEW i \in 1..Len(t), t[i] # Blank PROVE ~ (i < m \/ i > n)
        OBVIOUS
      <3>1. i \in kept
        BY <1>2
      <3> HIDE DEF kept
      <3>2. m <= i /\ i <= n
        BY <2>2, <3>1 DEF m, n
      <3> QED BY <2>4, <3>2
    <2> HIDE DEF kept
    <2>6. /\ SubSeq(t, m, n) \in Seq(S) /\ Len(SubSeq(t, m, n)) = n - m + 1
          /\ \A i \in 1..(n - m + 1) : SubSeq(t, m, n)[i] = t[i + m - 1]
      <3>1. m \in 1..(Len(t) + 1) /\ n \in 0..Len(t) /\ m <= n + 1
        BY <2>4
      <3> QED BY <3>1, PartOf
    <2> QED BY <2>3, <2>4, <2>5, <2>6
  <1> QED
    BY <1>3, <1>4

\* Brackets are cut off exactly where a text is an address between them.
LEMMA BracketsStripped ==
    ASSUME NEW S, NEW t \in Seq(S), NEW a, a \notin {"[", "]"}
    PROVE  Stripped(t) = <<a>> <=> Bracketed(t, a)
  <1> DEFINE v == TrimPrefix(t, "[")
             w == TrimSuffix(v, "]")
  <1>1. /\ v \in Seq(S)
        /\ \/ (t = <<>> \/ t[1] # "[") /\ v = t
           \/ /\ t # <<>> /\ t[1] = "[" /\ Len(v) = Len(t) - 1
              /\ \A i \in 1..(Len(t) - 1) : v[i] = t[i + 1]
    BY PrefixTrimmed
  <1> HIDE DEF v
  <1>2. \/ (v = <<>> \/ v[Len(v)] # "]") /\ w = v
        \/ /\ v # <<>> /\ v[Len(v)] = "]" /\ Len(w) = Len(v) - 1
           /\ \A i \in 1..(Len(v) - 1) : w[i] = v[i]
    BY <1>1, SuffixTrimmed
  <1>3. w \in Seq(S)
    BY <1>1 DEF TrimSuffix, Front
  <1> HIDE DEF w
  <1>4. w = <<a>> <=> Len(w) = 1 /\ w[1] = a
    BY <1>3
  <1>5. Len(t) \in Nat /\ Len(v) \in Nat /\ DOMAIN t = 1..Len(t)
    BY <1>1
  <1>6. ASSUME Len(w) = 1, w[1] = a PROVE Bracketed(t, a)
    <2>1. v # <<>> /\ v[1] = a /\ (Len(v) = 1 \/ (Len(v) = 2 /\ v[2] = "]"))
      <3>1. CASE w = v
        <4>1. Len(v) = 1 /\ v[1] = a
          BY Zenon, <1>6, <3>1
        <4>2. v # <<>>
          BY <1>1, <4>1
        <4> QED BY Zenon, <4>1, <4>2
      <3>2. CASE /\ v # <<>> /\ v[Len(v)] = "]" /\ Len(w) = Len(v) - 1
                 /\ \A i \in 1..(Len(v) - 1) : w[i] = v[i]
        <4>1. Len(v) = 2
          <5>1. Len(v) - 1 = 1
            BY Zenon, <1>6, <3>2
          <5>2. ASSUME NEW k \in Nat, k - 1 = 1 PROVE k = 2
            BY <5>2
          <5> QED BY <1>5, <5>1, <5>2
        <4>2. w[1] = v[1]
          BY <3>2, <4>1
        <4> QED BY <1>6, <3>2, <4>1, <4>2
      <3> QED BY <1>2, <3>1, <3>2
    <2>2. CASE v = t
      BY <1>5, <2>1, <2>2 DEF Bracketed
    <2>3. CASE /\ t # <<>> /\ t[1] = "[" /\ Len(v) = Len(t) - 1
               /\ \A i \in 1..(Len(t) - 1) : v[i] = t[i + 1]
      <3>1. /\ Len(t) = 2 \/ (Len(t) = 3 /\ t[3] = "]")
            /\ t[2] = a
        BY <1>5, <2>1, <2>3
      <3> QED BY <1>5, <2>3, <3>1 DEF Bracketed
    <2> QED BY <1>1, <2>2, <2>3
  <1>7. ASSUME NEW i \in 1..Len(t), t[i] = a,
               \A j \in 1..Len(t) : j # i => (t[j] = "[" /\ j = i - 1) \/ (t[j] = "]" /\ j = i + 1)
        PROVE  Len(w) = 1 /\ w[1] = a
    <2>1. t # <<>> /\ t[i] # "[" /\ t[i] # "]"
      BY <1>5, <1>7
    <2>2. i = 1 \/ (i = 2 /\ t[1] = "[")
      BY <1>5, <1>7
    <2>3. Len(t) = i \/ (Len(t) = i + 1 /\ t[i + 1] = "]")
      <3>1. i + 1 \in 1..Len(t) => t[i + 1] = "]"
        BY <1>5, <1>7
      <3>2. i + 2 \notin 1..Len(t)
        BY <1>5, <1>7
      <3>3. Len(t) = i \/ Len(t) = i + 1
        <4> DEFINE n == Len(t)
        <4>1. n \in Nat /\ i \in 1..n /\ i + 2 \notin 1..n
          BY <1>5, <3>2
        <4> HIDE DEF n
        <4>2. n = i \/ n = i + 1
          BY <4>1
        <4> QED BY <4>2 DEF n
      <3>4. Len(t) = i + 1 => i + 1 \in 1..Len(t)
        BY <1>5
      <3> QED BY <3>1, <3>3, <3>4
    <2>4. v[1] = a /\ (Len(v) = 1 \/ (Len(v) = 2 /\ v[2] = "]"))
      <3>1. CASE i = 1
        <4>1. v = t
          BY <1>1, <1>7, <2>1, <3>1
        <4> QED BY <1>7, <2>3, <3>1, <4>1
      <3>2. CASE i = 2 /\ t[1] = "["
        <4>1. /\ Len(v) = Len(t) - 1
              /\ \A k \in 1..(Len(t) - 1) : v[k] = t[k + 1]
          BY <1>1, <2>1, <3>2
        <4>2. CASE Len(t) = 2
          BY <1>7, <3>2, <4>1, <4>2
        <4>3. CASE Len(t) = 3 /\ t[3] = "]"
          BY <1>7, <3>2, <4>1, <4>3
        <4> QED BY <2>3, <3>2, <4>2, <4>3
      <3> QED BY <2>2, <3>1, <3>2
    <2>5. CASE Len(v) = 1
      BY <1>2, <1>7, <2>1, <2>4, <2>5
    <2>6. CASE Len(v) = 2 /\ v[2] = "]"
      BY <1>2, <1>7, <2>1, <2>4, <2>6
    <2> QED BY <2>4, <2>5, <2>6
  <1>8. Bracketed(t, a) =>
            \E i \in 1..Len(t) : t[i] = a /\ \A j \in 1..Len(t) : j # i =>
                (t[j] = "[" /\ j = i - 1) \/ (t[j] = "]" /\ j = i + 1)
    BY <1>5 DEF Bracketed
  <1> QED
    BY <1>4, <1>6, <1>7, <1>8 DEF Stripped, v, w

\* Cut and stripped, a text is an address exactly where it spells it.
LEMMA AddressRead ==
    ASSUME NEW S, NEW t \in Seq(S), NEW a, a \notin {Blank, "[", "]"}
    PROVE  Stripped(TrimSpace(t)) = <<a>> <=> Spells(t, a)
  <1> DEFINE u == TrimSpace(t)
             Bracket(c, j, i) == (c = "[" /\ j = i - 1) \/ (c = "]" /\ j = i + 1)
  <1>1. Len(t) \in Nat /\ DOMAIN t = 1..Len(t)
    OBVIOUS
  <1>2. Spells(t, a) <=> \E i \in 1..Len(t) :
            t[i] = a /\ \A j \in 1..Len(t) : j # i => t[j] = Blank \/ Bracket(t[j], j, i)
    <2>1. Spells(t, a) <=> \E i \in DOMAIN t :
              t[i] = a /\ \A j \in DOMAIN t \ {i} :
                  t[j] = Blank \/ <<t[j], j>> \in {<<"[", i - 1>>, <<"]", i + 1>>}
      BY Zenon DEF Spells, Blank
    <2> QED BY <1>1, <2>1
  <1>3. CASE (\A i \in 1..Len(t) : t[i] = Blank) /\ u = <<>>
    <2>1. ~ Spells(t, a)
      BY <1>2, <1>3
    <2>2. Stripped(<<>>) = <<>>
      BY DEF Stripped, TrimPrefix, TrimSuffix
    <2>3. <<>> # <<a>>
      OBVIOUS
    <2> QED BY <1>3, <2>1, <2>2, <2>3
  <1>4. ASSUME NEW m \in 1..Len(t), NEW n \in 1..Len(t), m <= n, t[m] # Blank, t[n] # Blank,
               \A i \in 1..Len(t) : i < m \/ i > n => t[i] = Blank,
               u \in Seq(S), Len(u) = n - m + 1,
               \A i \in 1..(n - m + 1) : u[i] = t[i + m - 1]
        PROVE  Stripped(u) = <<a>> <=> Spells(t, a)
    <2> HIDE DEF u
    <2>1. Stripped(u) = <<a>> <=> Bracketed(u, a)
      BY <1>4, BracketsStripped
    <2>2. Bracketed(u, a) <=> \E i \in 1..Len(u) :
              u[i] = a /\ \A j \in 1..Len(u) : j # i => Bracket(u[j], j, i)
      <3>1. DOMAIN u = 1..Len(u)
        BY <1>4
      <3> QED BY <3>1 DEF Bracketed
    <2>3. ASSUME NEW i \in 1..Len(u), u[i] = a, \A j \in 1..Len(u) : j # i => Bracket(u[j], j, i)
          PROVE  \E k \in 1..Len(t) :
                     t[k] = a /\ \A j \in 1..Len(t) : j # k => t[j] = Blank \/ Bracket(t[j], j, k)
      <3>1. i + m - 1 \in 1..Len(t) /\ t[i + m - 1] = a
        BY <1>1, <1>4, <2>3
      <3>2. ASSUME NEW j \in 1..Len(t), j # i + m - 1, t[j] # Blank
            PROVE  Bracket(t[j], j, i + m - 1)
        <4>1. j - m + 1 \in 1..(n - m + 1) /\ j - m + 1 # i /\ j - m + 1 + m - 1 = j
          BY <1>1, <1>4, <3>2
        <4>2. u[j - m + 1] = t[j]
          BY <1>4, <4>1
        <4>3. Bracket(t[j], j - m + 1, i)
          BY <1>4, <2>3, <4>1, <4>2
        <4> QED BY <1>1, <4>3
      <3> QED BY <3>1, <3>2
    <2>4. ASSUME NEW i \in 1..Len(t), t[i] = a,
                 \A j \in 1..Len(t) : j # i => t[j] = Blank \/ Bracket(t[j], j, i)
          PROVE  \E k \in 1..Len(u) : u[k] = a /\ \A j \in 1..Len(u) : j # k => Bracket(u[j], j, k)
      <3>1. m <= i /\ i <= n
        BY <1>1, <1>4, <2>4
      <3>2. m = i \/ m = i - 1
        BY <1>1, <1>4, <2>4, <3>1
      <3>3. n = i \/ n = i + 1
        BY <1>1, <1>4, <2>4, <3>1
      <3>4. i - m + 1 \in 1..(n - m + 1) /\ i - m + 1 + m - 1 = i
        BY <1>1, <3>1
      <3>5. u[i - m + 1] = a
        BY <1>4, <2>4, <3>4
      <3>6. ASSUME NEW j \in 1..Len(u), j # i - m + 1 PROVE Bracket(u[j], j, i - m + 1)
        <4>1. j + m - 1 \in 1..Len(t) /\ j + m - 1 # i /\ (j + m - 1 = m \/ j + m - 1 = n)
          BY <1>1, <1>4, <3>1, <3>2, <3>3, <3>6
        <4>2. u[j] = t[j + m - 1]
          BY <1>4
        <4>3. t[j + m - 1] # Blank
          BY <1>4, <4>1
        <4>4. Bracket(t[j + m - 1], j + m - 1, i)
          BY <2>4, <4>1, <4>3
        <4>5. Bracket(u[j], j + m - 1, i)
          BY <4>2, <4>4
        <4>6. j \in Int /\ m \in Int /\ i \in Int
          BY <1>1, <1>4
        <4> QED BY <4>5, <4>6
      <3> QED BY <1>4, <3>4, <3>5, <3>6
    <2> QED BY <1>2, <2>1, <2>2, <2>3, <2>4
  <1> QED
    <2>1. u = TrimSpace(t)
      OBVIOUS
    <2> HIDE DEF u
    <2> QED BY <1>3, <1>4, <2>1, BlanksTrimmed

\* An address is no blank, bracket, comma or colon.
LEMMA AddressAlone ==
    ASSUME NEW a \in IP
    PROVE  a \notin {Blank, "[", "]"} /\ a # ":" /\ a # Comma
  <1>1. a \notin {" ", ",", "[", "]", ":"}
    BY Zenon, SymbolAssumption
  <1> QED BY Zenon, <1>1 DEF Blank, Comma

\* What precedes the first comma is the first hop.
LEMMA FirstHopTaken ==
    ASSUME NEW S, NEW t \in Seq(S), t = text, NEW n \in FirstHop
    PROVE  n \in 0..Len(t) /\ FirstPart(t) = SubSeq(t, 1, n)
  <1> DEFINE commas == {i \in DOMAIN t : t[i] = Comma}
  <1>1. FirstPart(t) = IF commas = {} THEN t ELSE SubSeq(t, 1, Min(commas) - 1)
    BY Zenon DEF FirstPart, Comma
  <1>2. /\ n \in 0..Len(t) /\ (n = Len(t) \/ t[n + 1] = Comma)
        /\ \A i \in 1..n : t[i] # Comma
    BY Zenon DEF FirstHop, Comma
  <1>3. Len(t) \in Nat /\ DOMAIN t = 1..Len(t)
    OBVIOUS
  <1>4. n = Len(t) \/ n + 1 \in 1..Len(t)
    <2> DEFINE len == Len(t)
    <2>1. len \in Nat /\ n \in 0..len
      BY Zenon, <1>2, <1>3
    <2> HIDE DEF len
    <2>2. n = len \/ n + 1 \in 1..len
      BY <2>1
    <2> QED BY <2>2 DEF len
  <1>5. CASE commas = {}
    <2>1. n = Len(t)
      <3>1. n # Len(t) => n + 1 \in DOMAIN t
        BY <1>3, <1>4
      <3>2. n + 1 \notin DOMAIN t \/ t[n + 1] # Comma
        BY Zenon, <1>5
      <3> QED BY Zenon, <1>2, <3>1, <3>2
    <2>2. SubSeq(t, 1, Len(t)) = t
      OBVIOUS
    <2> QED BY Zenon, <1>1, <1>2, <1>5, <2>1, <2>2
  <1>6. CASE commas # {}
    <2>1. commas \subseteq Nat
      BY <1>3
    <2>2. Min(commas) \in commas /\ \A i \in commas : Min(commas) <= i
      <3> HIDE DEF commas
      <3> QED BY <1>6, <2>1, MinIsLeast
    <2> DEFINE m == Min(commas)
    <2>3. m \in 1..Len(t) /\ t[m] = Comma
      BY Zenon, <1>3, <2>2
    <2>4. n + 1 \in 1..Len(t) /\ t[n + 1] = Comma => m <= n + 1
      BY Zenon, <1>3, <2>2
    <2> HIDE DEF m
    <2>5. ~ (m <= n)
      BY <1>2, <2>3
    <2>6. n + 1 \in 1..Len(t) /\ t[n + 1] = Comma
      <3>1. n # Len(t)
        BY <1>2, <1>3, <2>3, <2>5
      <3> QED BY Zenon, <1>2, <1>4, <3>1
    <2>7. m - 1 = n
      BY <1>2, <2>3, <2>4, <2>5, <2>6
    <2>8. FirstPart(t) = SubSeq(t, 1, m - 1)
      BY Zenon, <1>1, <1>6 DEF m
    <2> QED BY Zenon, <1>2, <2>7, <2>8
  <1> QED
    BY <1>5, <1>6

\* A proxy's header of any length names an address the database takes exactly where its
\* first hop spells one.
THEOREM ProxyAddressRead == Spec => []ProxyAddressStored
  <1>1. ASSUME Typed, text # <<>>, subject = "X-Forwarded-For",
               NEW n \in FirstHop, NEW a \in IP
        PROVE  Client = <<a>> <=> Spells(SubSeq(text, 1, n), a)
    <2>1. n \in 0..Len(text) /\ FirstPart(text) = SubSeq(text, 1, n)
      BY <1>1, FirstHopTaken DEF Typed
    <2>2. Client = Stripped(TrimSpace(SubSeq(text, 1, n)))
      <3>1. Header("X-Forwarded-For", <<>>) = text
        BY <1>1 DEF Header
      <3> QED BY Zenon, <1>1, <2>1, <3>1 DEF Client, clientIP, Stripped
    <2>3. SubSeq(text, 1, n) \in Seq(Alphabet[subject])
      <3>1. text \in Seq(Alphabet[subject]) /\ 1 \in 1..(Len(text) + 1) /\ 1 <= n + 1
        BY <1>1, <2>1 DEF Typed
      <3> QED BY <2>1, <3>1, PartOf
    <2> QED BY <2>2, <2>3, AddressAlone, AddressRead
  <1>2. ASSUME Typed, text # <<>>, subject = "X-Real-IP", NEW a \in IP
        PROVE  Client = <<a>> <=> Spells(text, a)
    <2>1. /\ Header("X-Forwarded-For", <<>>) = <<>>
          /\ \A other : Header("X-Real-IP", other) = text
      BY <1>2 DEF Header
    <2>2. Client = Stripped(TrimSpace(text))
      BY Zenon, <1>2, <2>1 DEF Client, clientIP, Stripped
    <2> QED BY <1>2, <2>2, AddressAlone, AddressRead DEF Typed
  <1>3. Typed => ProxyAddressStored
    BY Zenon, <1>1, <1>2 DEF ProxyAddressStored
  <1> QED
    BY <1>3, InputsAlways, PTL

\* A connection's address, of either version, is stored without its port.
THEOREM DirectAddressRead == Spec => []DirectAddressStored
  <1>1. ASSUME NEW a \in IP PROVE Stripped(<<a>>) = <<a>>
    <2>1. a # "[" /\ a # "]"
      BY <1>1, AddressAlone
    <2> QED BY <2>1 DEF Stripped, TrimPrefix, TrimSuffix, Last
  <1>2. subject = "RemoteAddr" => Client = Stripped(SplitHost(text))
    <2> SUFFICES ASSUME subject = "RemoteAddr" PROVE Client = Stripped(SplitHost(text))
      OBVIOUS
    <2>1. /\ Header("X-Forwarded-For", <<>>) = <<>>
          /\ \A t : Header("RemoteAddr", t) = text
      BY DEF Header
    <2>2. \A t : Header("X-Real-IP", IF subject = "RemoteAddr" THEN <<>> ELSE t) = <<>>
      BY DEF Header
    <2> QED BY Zenon, <2>1, <2>2 DEF Client, clientIP, Stripped
  <1>3. ASSUME NEW a \in IPv4, NEW t, t = <<a, ":", "port">> PROVE SplitHost(t) = <<a>>
    <2>1. a \notin {"[", "]"} \cup (IPv6 \cup {":"})
      BY AddressAlone, SymbolAssumption DEF IP
    <2>2. Len(t) = 3 /\ t[1] = a /\ t[2] = ":"
      BY <1>3
    <2>3. t \in Seq({a, ":", "port"})
      BY <1>3
    <2>4. SubSeq(t, 1, 1) = <<a>>
      BY <2>2, <2>3, OneSymbol
    <2>5. Len(t) - 1 = 2 /\ Len(t) - 2 = 1 /\ Len(t) > 2 /\ ~ (Len(t) > 4)
      BY <2>2
    <2>6. ToSet(<<a>>) = {a}
      BY DEF ToSet
    <2> QED BY Zenon, <2>1, <2>2, <2>4, <2>5, <2>6 DEF SplitHost
  <1>4. ASSUME NEW a \in IPv6, NEW t, t = <<"[", a, "]", ":", "port">> PROVE SplitHost(t) = <<a>>
    <2>1. a \notin {"[", "]"}
      BY AddressAlone DEF IP
    <2>2. Len(t) = 5 /\ t[2] = a /\ t[3] = "]" /\ t[4] = ":" /\ Head(t) = "["
      BY <1>4
    <2>3. t \in Seq({a, "[", "]", ":", "port"})
      BY <1>4
    <2>4. SubSeq(t, 2, 2) = <<a>>
      BY <2>2, <2>3, OneSymbol
    <2>5. /\ Len(t) - 1 = 4 /\ Len(t) - 2 = 3 /\ Len(t) - 3 = 2
          /\ Len(t) > 2 /\ Len(t) > 4
      BY <2>2
    <2>6. ToSet(<<a>>) = {a}
      BY DEF ToSet
    <2> QED BY Zenon, <2>1, <2>2, <2>4, <2>5, <2>6 DEF SplitHost
  <1>5. DirectAddressStored
    BY <1>1, <1>2, <1>3, <1>4 DEF DirectAddressStored, IP
  <1> QED
    BY <1>5, PTL

-----------------------------------------------------------------------------
(* Codes. *)

\* Multiples keep their order.
LEMMA MultiplesOrdered ==
    ASSUME NEW p \in Nat, NEW q \in Nat, NEW b \in Nat, p <= q
    PROVE  p * b <= q * b
  OBVIOUS

\* A quotient is the number of times the divisor goes into a number.
LEMMA Quotient ==
    ASSUME NEW n \in Nat, NEW b \in Nat \ {0}
    PROVE  /\ n \div b \in Nat /\ (n \div b) * b <= n /\ n < (n \div b + 1) * b
           /\ \A q \in Nat : q * b <= n /\ n < (q + 1) * b => n \div b = q
  <1>1. n \div b \in Int /\ (n \div b) * b <= n
    OBVIOUS
  <1>2. n < (n \div b + 1) * b
    OBVIOUS
  <1>3. n \div b >= 0
    OBVIOUS
  <1>4. ASSUME NEW q \in Nat, q * b <= n, n < (q + 1) * b PROVE n \div b = q
    BY <1>4
  <1> QED
    BY <1>1, <1>2, <1>3, <1>4

\* Division by a product is one division after the other.
LEMMA QuotientTwice ==
    ASSUME NEW n \in Nat, NEW a \in Nat \ {0}, NEW b \in Nat \ {0}
    PROVE  n \div (a * b) = (n \div a) \div b
  <1> DEFINE q == n \div a
             s == q \div b
             c == a * b
  <1>1. q \in Nat /\ q * a <= n /\ n < (q + 1) * a
    BY Quotient
  <1> HIDE DEF q
  <1>2. s \in Nat /\ s * b <= q /\ q < (s + 1) * b
    BY <1>1, Quotient
  <1> HIDE DEF s
  <1>3. c \in Nat \ {0} /\ \A x \in Nat : (x * b) * a = x * c
    OBVIOUS
  <1>4. s * c <= n
    <2>1. (s * b) * a <= q * a
      <3> DEFINE x == s * b
      <3>1. x \in Nat /\ x <= q
        BY <1>2
      <3> HIDE DEF x
      <3>2. x * a <= q * a
        BY <1>1, <3>1, MultiplesOrdered
      <3> QED BY <3>2 DEF x
    <2>2. (s * b) * a = s * c
      BY <1>2, <1>3
    <2> HIDE DEF c
    <2>3. q * a \in Nat /\ s * c \in Nat
      BY <1>1, <1>2, <1>3
    <2> QED BY <1>1, <2>1, <2>2, <2>3
  <1>5. n < (s + 1) * c
    <2>1. (q + 1) * a <= ((s + 1) * b) * a
      <3> DEFINE x == (s + 1) * b
      <3>1. x \in Nat /\ q + 1 <= x /\ q + 1 \in Nat
        BY <1>1, <1>2
      <3> HIDE DEF x
      <3>2. (q + 1) * a <= x * a
        BY <3>1, MultiplesOrdered
      <3> QED BY <3>2 DEF x
    <2>2. ((s + 1) * b) * a = (s + 1) * c
      BY <1>2, <1>3
    <2> HIDE DEF c
    <2>3. (q + 1) * a \in Nat /\ (s + 1) * c \in Nat
      BY <1>1, <1>2, <1>3
    <2> QED BY <1>1, <2>1, <2>2, <2>3
  <1>6. n \div c = s
    <2> HIDE DEF c
    <2> QED BY <1>2, <1>3, <1>4, <1>5, Quotient
  <1> QED
    BY <1>6 DEF s, q, c

\* A number has one last digit, and one number before it.
LEMMA LastDigit ==
    ASSUME NEW n \in Nat, NEW b \in Nat \ {0}
    PROVE  /\ n % b \in 0..(b - 1) /\ n = (n \div b) * b + (n % b)
           /\ \A q \in Nat, r \in 0..(b - 1) : n = q * b + r => n \div b = q /\ n % b = r
  <1>1. n % b \in 0..(b - 1) /\ n = (n \div b) * b + (n % b)
    <2>1. n % b \in 0..(b - 1)
      OBVIOUS
    <2>2. n % b = n - b * (n \div b)
      OBVIOUS
    <2> DEFINE q == n \div b
               r == n % b
    <2>3. q \in Nat /\ r \in Int /\ r = n - b * q
      BY <2>1, <2>2, Quotient
    <2> HIDE DEF q, r
    <2>4. n = q * b + r
      BY <2>3
    <2>5. n = (n \div b) * b + (n % b)
      BY Zenon, <2>4 DEF q, r
    <2> QED BY Zenon, <2>1, <2>5
  <1>2. ASSUME NEW q \in Nat, NEW r \in 0..(b - 1), n = q * b + r
        PROVE  n \div b = q /\ n % b = r
    <2>1. q * b <= n /\ n < (q + 1) * b
      BY <1>2
    <2>2. n \div b = q
      BY <2>1, Quotient
    <2> QED BY <1>1, <1>2, <2>2
  <1> QED
    BY <1>1, <1>2

\* The recursive function exists: the powers up to one number give that of the next.
LEMMA Powers ==
    /\ Power[0] = 1 /\ \A k \in 1..MaxDigits : Power[k] = Radix * Power[k - 1]
    /\ \A k \in 0..MaxDigits : Power[k] \in Nat \ {0}
  <1> DEFINE Powered(f) == f = [k \in 0..MaxDigits |-> IF k = 0 THEN 1 ELSE Radix * f[k - 1]]
             Upwards(f, m) == f[0] = 1 /\ \A k \in 1..m : f[k] = Radix * f[k - 1]
             Positive == [0..MaxDigits -> Nat \ {0}]
             Settled == {m \in 0..MaxDigits : \E f \in Positive : Upwards(f, m)}
  <1>1. MaxDigits \in Nat \ {0} /\ Radix \in Nat \ {0}
    BY CodeAssumption
  <1>2. 0 \in Settled
    <2> DEFINE one == [k \in 0..MaxDigits |-> 1]
    <2>1. one \in Positive /\ one[0] = 1 /\ 1..0 = {} /\ 0 \in 0..MaxDigits
      BY <1>1
    <2> HIDE DEF one, Positive
    <2>2. Upwards(one, 0)
      BY <2>1
    <2> HIDE DEF Upwards
    <2> QED BY <2>1, <2>2
  <1>3. ASSUME NEW m \in 1..MaxDigits, m - 1 \in Settled PROVE m \in Settled
    <2>1. PICK f \in Positive : Upwards(f, m - 1)
      BY <1>3
    <2> DEFINE g == [f EXCEPT ![m] = Radix * f[m - 1]]
    <2>2. m - 1 \in 0..MaxDigits /\ m \in 0..MaxDigits /\ m # 0 /\ m # m - 1
      BY <1>1
    <2>3. Radix * f[m - 1] \in Nat \ {0}
      <3>1. f[m - 1] \in Nat \ {0}
        BY <2>1, <2>2
      <3> QED BY <1>1, <3>1
    <2>4. g \in Positive
      BY <2>1, <2>3
    <2>5. g[m] = Radix * f[m - 1] /\ \A k \in 0..MaxDigits : k # m => g[k] = f[k]
      BY <2>1, <2>2
    <2> HIDE DEF g
    <2>6. g[0] = 1
      BY <1>1, <2>1, <2>2, <2>5
    <2>7. ASSUME NEW k \in 1..m PROVE g[k] = Radix * g[k - 1]
      <3>1. k - 1 \in 0..MaxDigits /\ k - 1 # m /\ k \in 0..MaxDigits /\ (k = m \/ k \in 1..(m - 1))
        BY <1>1, <2>2
      <3>2. g[k - 1] = f[k - 1]
        BY <2>5, <3>1
      <3>3. CASE k = m
        BY <2>5, <3>2, <3>3
      <3>4. CASE k # m /\ k \in 1..(m - 1)
        <4>1. g[k] = f[k] /\ f[k] = Radix * f[k - 1]
          BY <2>1, <2>5, <3>1, <3>4
        <4> QED BY <3>2, <4>1
      <3> QED BY <3>1, <3>3, <3>4
    <2> QED BY <2>2, <2>4, <2>6, <2>7
  <1>4. PICK power \in Positive : Upwards(power, MaxDigits)
    <2>1. MaxDigits \in 0..MaxDigits
      BY <1>1
    <2> HIDE DEF Settled
    <2>2. MaxDigits \in Settled
      BY <1>1, <1>2, <1>3, <2>1, UpTo
    <2> QED BY <2>2 DEF Settled
  <1>5. Powered(power)
    <2>1. \A k \in 0..MaxDigits : power[k] = IF k = 0 THEN 1 ELSE Radix * power[k - 1]
      BY <1>1, <1>4
    <2> QED BY <1>4, <2>1
  <1>6. Power = CHOOSE f : Powered(f)
    BY DEF Power
  <1>7. Powered(Power)
    <2> HIDE DEF Powered
    <2> QED BY <1>5, <1>6
  <1>8. Power[0] = 1 /\ \A k \in 1..MaxDigits : Power[k] = Radix * Power[k - 1]
    BY <1>1, <1>7
  <1> DEFINE Done == {m \in 0..MaxDigits : Power[m] \in Nat \ {0}}
  <1>9. 0 \in Done
    BY <1>1, <1>8
  <1>10. ASSUME NEW m \in 1..MaxDigits, m - 1 \in Done PROVE m \in Done
    <2>1. Power[m] = Radix * Power[m - 1] /\ Power[m - 1] \in Nat \ {0} /\ m \in 0..MaxDigits
      BY <1>8, <1>10
    <2> QED BY <1>1, <2>1
  <1>11. \A k \in 0..MaxDigits : k \in Done
    <2> HIDE DEF Done
    <2> QED BY <1>1, <1>9, <1>10, UpTo
  <1> QED
    BY <1>8, <1>11

\* The digit of a number at a place, counted from the last, which is 0.
Digit(n, place) == (n \div Power[place]) % Radix

\* Exactly one of the numbers drawn for a code of k digits has given digits.
LEMMA OneNumber ==
    ASSUME NEW k \in 0..MaxDigits, NEW code \in [1..k -> 0..(Radix - 1)]
    PROVE  \E v \in 0..(Power[k] - 1) : \A n \in 0..(Power[k] - 1) :
               (\A i \in 1..k : Digit(n, k - i) = code[i]) <=> n = v
  <1> DEFINE Numbers(m) == 0..(Power[m] - 1)
             Spelt(n, m, c) == \A i \in 1..m : Digit(n, m - i) = c[i]
             Unique(m, c) == \E v \in Numbers(m) : \A n \in Numbers(m) : Spelt(n, m, c) <=> n = v
             Settled == {m \in 0..MaxDigits : \A c \in [1..m -> 0..(Radix - 1)] : Unique(m, c)}
  <1>1. MaxDigits \in Nat \ {0} /\ Radix \in Nat \ {0}
    BY CodeAssumption
  <1>2. 0 \in Settled
    <2>1. Numbers(0) = {0} /\ 1..0 = {}
      BY Powers
    <2>2. ASSUME NEW c PROVE Unique(0, c)
      <3>1. \A n : Spelt(n, 0, c)
        BY <2>1
      <3> HIDE DEF Spelt, Numbers
      <3> QED BY <2>1, <3>1
    <2> HIDE DEF Unique
    <2> QED BY <1>1, <2>2
  <1>3. ASSUME NEW m \in 1..MaxDigits, m - 1 \in Settled, NEW c \in [1..m -> 0..(Radix - 1)]
        PROVE  Unique(m, c)
    <2> DEFINE first == [i \in 1..(m - 1) |-> c[i]]
               last == c[m]
    <2>1. /\ m \in 0..MaxDigits /\ m - 1 \in 0..MaxDigits
          /\ first \in [1..(m - 1) -> 0..(Radix - 1)] /\ last \in 0..(Radix - 1)
          /\ \A i \in 1..(m - 1) : first[i] = c[i]
      BY <1>1
    <2> HIDE DEF first, last
    <2>2. PICK u \in Numbers(m - 1) : \A n \in Numbers(m - 1) : Spelt(n, m - 1, first) <=> n = u
      BY <1>3, <2>1
    <2>3. /\ Power[m] = Radix * Power[m - 1] /\ Power[m] \in Nat \ {0}
          /\ Power[m - 1] \in Nat \ {0} /\ Power[0] = 1
      BY <2>1, Powers
    <2> DEFINE p == Power[m - 1]
               v == u * Radix + last
    <2>4. u \in Nat /\ u <= p - 1 /\ p \in Nat \ {0} /\ last \in Nat /\ last <= Radix - 1
      BY <1>1, <2>1, <2>2, <2>3
    <2>5. v \in Nat /\ v < Radix * p
      <3> HIDE DEF p
      <3>1. u * Radix <= (p - 1) * Radix
        BY <1>1, <2>4, MultiplesOrdered
      <3>2. (p - 1) * Radix = Radix * p - Radix
        BY <1>1, <2>4
      <3> DEFINE x == u * Radix
                 y == Radix * p
      <3>3. x \in Nat /\ y \in Nat /\ x <= y - Radix
        BY <1>1, <2>4, <3>1, <3>2
      <3> HIDE DEF x, y
      <3>4. x + last \in Nat /\ x + last < y
        BY <1>1, <2>4, <3>3
      <3> QED BY <3>4 DEF x, y
    <2>6. v \in Numbers(m)
      BY <2>3, <2>5
    <2>7. ASSUME NEW n \in Numbers(m) PROVE Spelt(n, m, c) <=> n = v
      <3> DEFINE q == n \div Radix
      <3>1. n \in Nat /\ n < Radix * p
        BY <2>3, <2>7
      <3>2. /\ q \in Nat /\ n % Radix \in 0..(Radix - 1) /\ n = q * Radix + (n % Radix)
            /\ n = v => q = u /\ n % Radix = last
        <4>1. q \in Nat
          BY <1>1, <3>1, Quotient
        <4>2. /\ n % Radix \in 0..(Radix - 1) /\ n = q * Radix + (n % Radix)
              /\ \A x \in Nat, r \in 0..(Radix - 1) : n = x * Radix + r => q = x /\ n % Radix = r
          BY <1>1, <3>1, LastDigit
        <4> HIDE DEF q
        <4>3. n = u * Radix + last => q = u /\ n % Radix = last
          BY <2>1, <2>4, <4>2
        <4> QED BY <4>1, <4>2, <4>3
      <3> HIDE DEF q
      <3>3. q \in Numbers(m - 1)
        <4> HIDE DEF p
        <4>1. q <= p - 1
          <5>1. SUFFICES ASSUME p <= q PROVE FALSE
            BY <2>4, <3>2
          <5>2. p * Radix <= q * Radix
            BY <1>1, <2>4, <3>2, <5>1, MultiplesOrdered
          <5>3. p * Radix = Radix * p /\ p * Radix \in Nat /\ q * Radix \in Nat
            BY <1>1, <2>4, <3>2
          <5> QED BY <3>1, <3>2, <5>2, <5>3
        <4> QED BY <2>4, <3>2, <4>1 DEF p
      <3>4. Digit(n, m - m) = n % Radix
        <4>1. m - m = 0 /\ n \div 1 = n
          BY <3>1
        <4> QED BY <2>3, <4>1 DEF Digit
      <3>5. ASSUME NEW i \in 1..(m - 1) PROVE Digit(n, m - i) = Digit(q, m - 1 - i)
        <4>1. m - i \in 1..MaxDigits /\ m - i - 1 = m - 1 - i /\ m - 1 - i \in 0..MaxDigits
          BY <1>1
        <4>2. Power[m - i] = Radix * Power[m - 1 - i] /\ Power[m - 1 - i] \in Nat \ {0}
          BY <4>1, Powers
        <4>3. n \div (Radix * Power[m - 1 - i]) = q \div Power[m - 1 - i]
          <5>1. \A b \in Nat \ {0} : n \div (Radix * b) = (n \div Radix) \div b
            BY Zenon, <1>1, <3>1, QuotientTwice
          <5> QED BY Zenon, <4>2, <5>1 DEF q
        <4> QED BY <4>2, <4>3 DEF Digit
      <3>6. Spelt(n, m, c) <=> Spelt(q, m - 1, first) /\ n % Radix = last
        <4>1. \A i \in 1..m : i = m \/ i \in 1..(m - 1)
          OBVIOUS
        <4>2. m \in 1..m /\ \A i \in 1..(m - 1) : i \in 1..m
          OBVIOUS
        <4> HIDE DEF q
        <4> QED BY <2>1, <3>4, <3>5, <4>1, <4>2 DEF last
      <3>7. Spelt(q, m - 1, first) <=> q = u
        BY <2>2, <3>3
      <3> HIDE DEF Spelt
      <3> QED BY <3>2, <3>6, <3>7
    <2> QED BY <2>6, <2>7
  <1>4. k \in Settled
    <2>1. ASSUME NEW m \in 1..MaxDigits, m - 1 \in Settled PROVE m \in Settled
      <3>1. m \in 0..MaxDigits
        BY <1>1
      <3>2. \A c \in [1..m -> 0..(Radix - 1)] : Unique(m, c)
        BY <1>3, <2>1
      <3> HIDE DEF Unique
      <3> QED BY <3>1, <3>2
    <2> HIDE DEF Settled
    <2> QED BY <1>1, <1>2, <2>1, UpTo
  <1> QED
    BY <1>4

\* Whatever digits a client types, exactly one draw makes them its code.
THEOREM CodesEquallyLikely == Spec => []EveryCodeOnce
  <1>1. ASSUME Typed, subject = "code", NEW digits, Len(text) = CodeLength(digits)
        PROVE  Cardinality({n \in Draws(digits) : GenerateSecureOTP(digits, n) = text}) = 1
    <2> DEFINE k == Len(text)
    <2>1. /\ k \in 0..MaxDigits
          /\ text \in [1..k -> Alphabet["code"]] /\ Alphabet["code"] \subseteq 0..(Radix - 1)
      <3>1. text \in Seq(Alphabet["code"])
        BY Zenon, <1>1 DEF Typed
      <3>2. k \in Nat /\ text \in [1..k -> Alphabet["code"]]
        BY <3>1
      <3>3. k = DefaultDigits \/ (~ (k <= 0) /\ ~ (k > MaxDigits))
        BY Zenon, <1>1 DEF CodeLength
      <3> HIDE DEF k
      <3>4. k \in 0..MaxDigits
        BY <3>2, <3>3, CodeAssumption
      <3> QED BY <3>2, <3>4, SymbolAssumption
    <2>2. text \in [1..k -> 0..(Radix - 1)]
      BY <2>1
    <2>3. PICK v \in 0..(Power[k] - 1) : \A n \in 0..(Power[k] - 1) :
              (\A i \in 1..k : Digit(n, k - i) = text[i]) <=> n = v
      BY <2>1, <2>2, OneNumber
    <2>4. Draws(digits) = 0..(Power[k] - 1)
      BY <1>1 DEF Draws
    <2>5. \A n : GenerateSecureOTP(digits, n) = [i \in 1..k |-> Digit(n, k - i)]
      BY <1>1 DEF GenerateSecureOTP, Digit
    <2> HIDE DEF k
    <2>6. \A n : GenerateSecureOTP(digits, n) = text <=> \A i \in 1..k : Digit(n, k - i) = text[i]
      BY <2>2, <2>5
    <2>7. {n \in Draws(digits) : GenerateSecureOTP(digits, n) = text} = {v}
      BY <2>3, <2>4, <2>6
    <2> QED BY <2>7, FS_Singleton
  <1>2. Typed => EveryCodeOnce
    BY <1>1 DEF EveryCodeOnce
  <1> QED
    BY <1>2, InputsAlways, PTL
===============================================================================
