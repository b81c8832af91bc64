-------------------------------- MODULE MCLine --------------------------------
(* Instances of BackendLine.  A byte stands for "MSG <nickname> ", WELCOME  *)
(* and ERR lines; 0 and 1 are bytes a header has too.                       *)
EXTENDS BackendLine, TLC

CONSTANTS a, b

Prefixes == (a :> <<77>>) @@ (b :> <<78>>)
WelcomeLine == <<87>>
ErrLine == <<69>>
SlashByte == 47
SpaceByte == 32
ExitLine == <<47, 101>>
NewlineBytes == {10, 13}

Number(n) == [unset |-> FALSE, digits |-> TRUE, num |-> n, tail |-> FALSE]
NumberAndMore(n) == [Number(n) EXCEPT !.tail = TRUE]
Word == [Number(0) EXCEPT !.digits = FALSE]
Unset == [Word EXCEPT !.unset = TRUE]

Short == <<1, 2, 10>>          \* relayed, without its newline, in a frame of the limit
Wide == <<195, 169, 195, 169>> \* two characters, over the default limit
Long == <<195, 169, 1>>        \* within the limit, and its relay is not
Many == <<1, 1, 1, 1>>         \* more than MAX_TEXT_LEN: not accepted
Command == <<47, 1>>
Blank == <<10>>
ExitAndMore == <<47, 101, 32>>

\* The bytes of one connection come in pieces, too.
Pieces == [s \in Stream |-> IF s[1] = a THEN {3} ELSE {}]

Setup(conf, env) == [conf |-> conf, env |-> env]
Defaults == Setup(<<Number(9)>>, Number(9))   \* out of range: both take the default
LowGateway == Setup(<<Number(5), NumberAndMore(2)>>, Word)   \* 5 and the default
TwoSetups == {Defaults, LowGateway}
ManyTexts == [u \in TwoSetups |->
  IF u = Defaults THEN {Short, Wide, Long, Many, ExitLine} ELSE {Wide, Command, Blank, ExitAndMore}]
===============================================================================
