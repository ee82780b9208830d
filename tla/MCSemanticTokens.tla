-------------------------- MODULE MCSemanticTokens ---------------------------
(* SemanticTokens on tokens small enough to enumerate: a command whose       *)
(* colour depends on the environment and on the workspace index, between    *)
(* two comments.                                                            *)
EXTENDS SemanticTokens, TLC

Token(line, start, type) == [line |-> line, start |-> start, length |-> 2, type |-> type]

Colour(reading) ==
  IF ~reading.complete THEN "unknown"
  ELSE IF reading.environment % 2 = 0 THEN "missing" ELSE "command"

ReadTokens(reading) ==
  Encode(<<Token(0, 0, "comment"), Token(1, 0, Colour(reading)), Token(1, 3, "comment")>>)

-----------------------------------------------------------------------------
(* The encoding, over all documents of up to three tokens on two lines.      *)
SmallTokens == {[line |-> l, start |-> s, length |-> n, type |-> "command"] :
                  l \in 0 .. 1, s \in 0 .. 3, n \in 1 .. 2}
SmallDocuments == {tokens \in UNION {[1 .. n -> SmallTokens] : n \in 0 .. 3} : Ordered(tokens)}
Positions == {<<line, character>> : line \in 0 .. 1, character \in 0 .. 5}

(* The loop of tokens_in_range undoes that of encode_tokens.                 *)
ASSUME DecodeInvertsEncode ==
  \A tokens \in SmallDocuments : Decode(Encode(tokens)) = tokens

(* A range is answered with the tokens it covers a character of, with their  *)
(* positions in the document (tokens_in_range).                             *)
ASSUME RangeSelectsTouched ==
  \A tokens \in SmallDocuments : \A from, to \in Positions :
    Before(from, to) =>
      /\ Decode(TokensInRange(Encode(tokens), from, to)) =
           SelectSeq(tokens, LAMBDA token : Touches(token, from, to))
      /\ TokensInRange(Encode(tokens), to, from) = TokensInRange(Encode(tokens), from, to)

-----------------------------------------------------------------------------
Symmetry == Permutations(Requests)
=============================================================================
