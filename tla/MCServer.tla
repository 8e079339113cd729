------------------------------ MODULE MCServer ------------------------------
(* Two clients for TLC: one that fragments, stops and leaves, one that asks for INFO. *)
EXTENDS Server

Tokenized(a) == IF a = "other" THEN <<Header(1), Scalar("txt")>> ELSE <<Scalar(a)>>

Cmd(name, args, answer) ==
  [tokens |-> <<Header(Len(args) + 1), Scalar(name)>>
                \o (IF args = <<>> THEN <<>> ELSE Tokenized(args[1])
                      \o (IF Len(args) = 1 THEN <<>> ELSE Tokenized(args[2]))),
   answer |-> answer]

Odd(tokens, answer) == [tokens |-> tokens, answer |-> answer]

MCMenu ==
  [c \in Client |->
    IF c = "c2" THEN {Cmd("INFO", <<>>, "ok"), Cmd("EXPIRE", <<"txt", "big">>, "ok"),
                      Odd(<<Header(-1)>>, "format"), Odd(<<Huge>>, "none")}
    ELSE {Cmd("GET", <<"other">>, "error"), Odd(<<Header(0)>>, "empty"), Odd(<<Bad>>, "protocol")}]

MCMaxRequests == [c \in Client |-> IF c = "c2" THEN 1 ELSE 2]
=============================================================================
