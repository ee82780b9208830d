---------------------------- MODULE TokenEncoding ----------------------------
(***************************************************************************)
(* The pure part of the semantic token requests of crates/shucked-lsp:      *)
(* the relative encoding of tokens (handlers/semantic_tokens.rs), and the   *)
(* range selection and the delta edits over encoded tokens                  *)
(* (handlers/semantic_tokens_cache.rs).                                     *)
(*                                                                         *)
(* A token is [line, start, length, type], an encoded token                 *)
(* [deltaLine, deltaStart, length, type]; the type stands for the token     *)
(* type and its modifiers.                                                 *)
(***************************************************************************)
EXTENDS Integers, Sequences

TokenWidth == 5  \* integers on the wire for one token

-----------------------------------------------------------------------------
(* encode_tokens: each token relative to the one before it.                  *)
Origin == [line |-> 0, start |-> 0, length |-> 0]

Relative(token, before) ==
  [deltaLine |-> token.line - before.line,
   deltaStart |-> IF token.line = before.line THEN token.start - before.start ELSE token.start,
   length |-> token.length,
   type |-> token.type]

Encode(tokens) ==
  [i \in 1 .. Len(tokens) |->
     Relative(tokens[i], IF i = 1 THEN Origin ELSE tokens[i - 1])]

(* What encode_tokens is given: tokens in order, none empty or overlapping.  *)
Ordered(tokens) ==
  \A i \in 1 .. Len(tokens) :
    /\ tokens[i].length > 0
    /\ i > 1 => \/ tokens[i - 1].line < tokens[i].line
                \/ /\ tokens[i - 1].line = tokens[i].line
                   /\ tokens[i - 1].start + tokens[i - 1].length <= tokens[i].start

(* The token an encoded one stands for, after the one before it.             *)
Absolute(encoded, before) ==
  [line |-> before.line + encoded.deltaLine,
   start |-> IF encoded.deltaLine = 0 THEN before.start + encoded.deltaStart
                                      ELSE encoded.deltaStart,
   length |-> encoded.length,
   type |-> encoded.type]

(* The absolute tokens of an encoding, as the loop of tokens_in_range        *)
(* accumulates them.                                                        *)
Decode(data) ==
  LET at[i \in 0 .. Len(data)] ==
        IF i = 0 THEN Origin ELSE Absolute(data[i], at[i - 1])
  IN  [i \in 1 .. Len(data) |-> at[i]]

-----------------------------------------------------------------------------
(* tokens_in_range.  A position is <<line, character>>.                     *)
Before(p, q) == p[1] < q[1] \/ (p[1] = q[1] /\ p[2] < q[2])
AtOrBefore(p, q) == p = q \/ Before(p, q)

StartOf(token) == <<token.line, token.start>>
EndOf(token) == <<token.line, token.start + token.length>>

InRange(token, from, to) ==
  ~(AtOrBefore(to, StartOf(token)) \/ AtOrBefore(EndOf(token), from))

(* The characters of a token, and whether a range covers one of them: what    *)
(* InRange is to find.                                                      *)
Touches(token, from, to) ==
  \E c \in token.start .. token.start + token.length - 1 :
    AtOrBefore(from, <<token.line, c>>) /\ Before(<<token.line, c>>, to)

(* A range given backwards is turned round.                                 *)
TokensInRange(data, a, b) ==
  LET from == IF AtOrBefore(a, b) THEN a ELSE b
      to == IF AtOrBefore(a, b) THEN b ELSE a
      Chosen(token) == InRange(token, from, to)
  IN  Encode(SelectSeq(Decode(data), Chosen))

-----------------------------------------------------------------------------
(* semantic_tokens_edits: the longest common prefix, then the longest        *)
(* suffix the rests have in common, and one edit for what is between.        *)
Least(a, b) == IF a < b THEN a ELSE b

CommonPrefix(old, new) ==
  CHOOSE n \in 0 .. Least(Len(old), Len(new)) :
    /\ \A i \in 1 .. n : old[i] = new[i]
    /\ n < Least(Len(old), Len(new)) => old[n + 1] # new[n + 1]

CommonSuffix(old, new, prefix) ==
  CHOOSE n \in 0 .. Least(Len(old), Len(new)) - prefix :
    /\ \A i \in 1 .. n : old[Len(old) + 1 - i] = new[Len(new) + 1 - i]
    /\ n < Least(Len(old), Len(new)) - prefix => old[Len(old) - n] # new[Len(new) - n]

Edits(old, new) ==
  LET prefix == CommonPrefix(old, new)
      suffix == CommonSuffix(old, new, prefix)
      deleted == Len(old) - prefix - suffix
      inserted == SubSeq(new, prefix + 1, Len(new) - suffix)
  IN  IF deleted = 0 /\ inserted = <<>>
        THEN {}
        ELSE {[start |-> prefix * TokenWidth, deleteCount |-> deleted * TokenWidth,
               data |-> inserted]}

(* What the client does with an edit: it replaces a stretch of the flat      *)
(* array of integers it holds.                                              *)
ApplyEdit(old, edit) ==
  LET first == edit.start \div TokenWidth
      after == (edit.start + edit.deleteCount) \div TokenWidth
  IN  SubSeq(old, 1, first) \o edit.data \o SubSeq(old, after + 1, Len(old))

ApplyEdits(old, edits) ==
  IF edits = {} THEN old ELSE ApplyEdit(old, CHOOSE e \in edits : TRUE)
=============================================================================
