----------------------------- MODULE MCCommands -----------------------------
(* A command that authorizes, one that emits, whose last alias has a blank *)
(* inside, and one that needs a level, whose second alias belongs to the   *)
(* other and whose last begins with "/".                                   *)
EXTENDS Commands, TLC

(* Removing the entry of a subscription is filtering by its number.        *)
ASSUME KeptIsFilter ==
  \A q \in UNION {[1..n -> HID] : n \in 0..MaxHID} : \A h \in HID :
    IsInjective(q) => Kept(q, h) = SelectSeq(q, LAMBDA k : k # h)

CONSTANTS auth, notice, kick

Spelt(s, letters, rest) == [slashes |-> s, letters |-> letters, rest |-> rest, plain |-> TRUE]
Plain(s, letters) == Spelt(s, letters, Nothing)
Capital(letters) == [Plain(0, letters) EXCEPT !.plain = FALSE]

MCLetters == {Nothing, "auth", "notice", "n", "kick", "k"}
MCName ==
  (auth :> Plain(0, "auth")) @@ (notice :> Capital("notice")) @@ (kick :> Plain(0, "kick"))
MCAliases ==
  (auth :> <<>>) @@ (notice :> <<Plain(0, Nothing), Plain(0, "n"), Spelt(0, "k", "n")>>)
    @@ (kick :> <<Capital("k"), Capital("n"), Plain(1, "k")>>)
MCMinLevel == (auth :> 0) @@ (notice :> 0) @@ (kick :> 1)
============================================================================
