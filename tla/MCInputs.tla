------------------------------- MODULE MCInputs -------------------------------
(***************************************************************************)
(* Instances of Inputs for TLC.                                            *)
(***************************************************************************)
EXTENDS Inputs

Rune(class, bytes) == [class |-> class, bytes |-> bytes]
Upper == Rune("upper", 1)
Lower == Rune("lower", 1)
Number == Rune("number", 1)
Special == Rune("special", 1)
Accented == Rune("lower", 2)
Blank == Rune("none", 1)

AddressSymbols == {" ", ",", "[", "]", ":", "v4", "v6", "port"}

MCAlphabet ==
    [kind \in {"password", "X-Forwarded-For", "X-Real-IP", "RemoteAddr", "code"} |->
        IF kind = "password" THEN {Upper, Lower, Number, Special, Accented, Blank}
        ELSE IF kind = "code" THEN 0..2 ELSE AddressSymbols]

MCMaxTyped == [kind \in DOMAIN MCAlphabet |-> IF kind = "code" THEN 4 ELSE IF kind = "password" THEN 6 ELSE 5]

MCChoice == {<<Upper, Lower, Number, Special>>, <<Upper, Accented, Number, Special>>,
             <<Lower, Lower, Lower, Lower>>}
MCSalt == {"salt", "pepper"}
MCRelease ==
    {[version |-> "v=19", params |-> "m=65536,t=3,p=4"],
     [version |-> "v=19", params |-> "m=131072,t=4,p=4"],
     [version |-> "v=20", params |-> "m=65536,t=3,p=4"]}
=============================================================================
