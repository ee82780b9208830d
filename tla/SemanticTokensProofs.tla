------------------------ MODULE SemanticTokensProofs -------------------------
(***************************************************************************)
(* For any texts, tokens and number of requests: the encoding loses         *)
(* nothing and a range selects what it covers, the edits of a delta rebuild *)
(* the new tokens, a result id names one result, and so the client          *)
(* that applies a delta holds the tokens the server computed.  They are of  *)
(* the request's own state, and an analysis that is shared is complete.     *)
(***************************************************************************)
EXTENDS SemanticTokens, WellFoundedInduction, SequenceTheorems, TLAPS

-----------------------------------------------------------------------------
(* The edits.                                                              *)

LEMMA LeastOfSet ==
  ASSUME NEW T, T \subseteq Nat, T # {}
  PROVE  \E x \in T : \A y \in T : x <= y
<1>1. PICK x \in T : \A y \in T : ~(<<y, x>> \in OpToRel(<, Nat))
  BY NatLessThanWellFounded, WFMin
<1>2. ASSUME NEW y \in T PROVE x <= y
  <2>1. x \in Nat /\ y \in Nat
    OBVIOUS
  <2>2. ~(y < x)
    BY <1>1, <2>1 DEF OpToRel
  <2> QED
    BY <2>1, <2>2
<1> QED
  BY <1>2

(* The longest stretch that CommonPrefix and CommonSuffix choose exists:     *)
(* agreement is closed downwards, and the least shortfall leaves no more.    *)
LEMMA LongestAgreement ==
  ASSUME NEW m \in Nat, NEW Agree \in [1 .. m -> BOOLEAN]
  PROVE  \E n \in 0 .. m : /\ \A i \in 1 .. n : Agree[i]
                           /\ n < m => ~Agree[n + 1]
<1> DEFINE Shortfalls == {k \in 0 .. m : \A i \in 1 .. m - k : Agree[i]}
<1>1. m \in Shortfalls /\ Shortfalls \subseteq Nat
  OBVIOUS
<1>2. PICK k \in Shortfalls : \A j \in Shortfalls : k <= j
  BY <1>1, LeastOfSet
<1>3. k \in 0 .. m /\ \A i \in 1 .. m - k : Agree[i]
  OBVIOUS
<1>4. ASSUME m - k < m, Agree[m - k + 1] PROVE FALSE
  <2>1. k - 1 \in 0 .. m /\ ~(k <= k - 1)
    BY <1>3, <1>4
  <2>2. ASSUME NEW i \in 1 .. m - (k - 1) PROVE Agree[i]
    <3>1. i \in 1 .. m - k \/ i = m - k + 1
      BY <2>1, <2>2
    <3> QED
      BY <3>1, <1>3, <1>4
  <2>3. k - 1 \in Shortfalls
    BY <2>1, <2>2
  <2> HIDE DEF Shortfalls
  <2> QED
    BY <2>1, <2>3, <1>2
<1>5. m - k \in 0 .. m
  BY <1>3
<1> QED
  BY <1>3, <1>4, <1>5

LEMMA LeastOfLengths ==
  ASSUME NEW a \in Nat, NEW b \in Nat
  PROVE  Least(a, b) \in Nat /\ Least(a, b) <= a /\ Least(a, b) <= b
  BY DEF Least

LEMMA PrefixAgrees ==
  ASSUME NEW S, NEW old \in Seq(S), NEW new \in Seq(S)
  PROVE  /\ CommonPrefix(old, new) \in 0 .. Least(Len(old), Len(new))
         /\ \A i \in 1 .. CommonPrefix(old, new) : old[i] = new[i]
<1> DEFINE m == Least(Len(old), Len(new))
           Agree == [i \in 1 .. m |-> old[i] = new[i]]
<1>1. m \in Nat /\ Agree \in [1 .. m -> BOOLEAN]
  BY LeastOfLengths
<1>2. PICK n \in 0 .. m : (\A i \in 1 .. n : Agree[i]) /\ (n < m => ~Agree[n + 1])
  BY <1>1, LongestAgreement
<1>3. \A i \in 1 .. n : i \in 1 .. m
  BY <1>1
<1>4. n < m => n + 1 \in 1 .. m
  BY <1>1
<1>5. (\A i \in 1 .. n : old[i] = new[i]) /\ (n < m => old[n + 1] # new[n + 1])
  BY <1>2, <1>3, <1>4
<1> HIDE DEF Agree
<1> QED
  BY <1>5 DEF CommonPrefix

LEMMA SuffixAgrees ==
  ASSUME NEW S, NEW old \in Seq(S), NEW new \in Seq(S),
         NEW prefix \in 0 .. Least(Len(old), Len(new))
  PROVE  /\ CommonSuffix(old, new, prefix) \in 0 .. Least(Len(old), Len(new)) - prefix
         /\ \A i \in 1 .. CommonSuffix(old, new, prefix) :
              old[Len(old) + 1 - i] = new[Len(new) + 1 - i]
<1> DEFINE m == Least(Len(old), Len(new)) - prefix
           Agree == [i \in 1 .. m |-> old[Len(old) + 1 - i] = new[Len(new) + 1 - i]]
<1>1. m \in Nat /\ Agree \in [1 .. m -> BOOLEAN]
  <2>1. Least(Len(old), Len(new)) \in Nat
    BY LeastOfLengths
  <2> QED
    BY <2>1
<1>2. PICK n \in 0 .. m : (\A i \in 1 .. n : Agree[i]) /\ (n < m => ~Agree[n + 1])
  BY <1>1, LongestAgreement
<1>3. /\ \A i \in 1 .. n : old[Len(old) + 1 - i] = new[Len(new) + 1 - i]
      /\ n < m => old[Len(old) - n] # new[Len(new) - n]
  <2>1. Len(old) + 1 - (n + 1) = Len(old) - n /\ Len(new) + 1 - (n + 1) = Len(new) - n
    OBVIOUS
  <2>2. (\A i \in 1 .. n : i \in 1 .. m) /\ (n < m => n + 1 \in 1 .. m)
    BY <1>1
  <2> QED
    BY <1>2, <2>1, <2>2
<1> HIDE DEF Agree
<1> QED
  BY <1>3 DEF CommonSuffix

(* A sequence is its first part, its middle and its last part.               *)
LEMMA ThreeParts ==
  ASSUME NEW S, NEW s \in Seq(S), NEW a \in 0 .. Len(s), NEW b \in a .. Len(s)
  PROVE  (SubSeq(s, 1, a) \o SubSeq(s, a + 1, b)) \o SubSeq(s, b + 1, Len(s)) = s
<1> DEFINE front == SubSeq(s, 1, a)
           middle == SubSeq(s, a + 1, b)
           back == SubSeq(s, b + 1, Len(s))
<1>1. /\ front \in Seq(S) /\ Len(front) = a
      /\ \A i \in 1 .. a : front[i] = s[i]
  OBVIOUS
<1>2. /\ middle \in Seq(S) /\ Len(middle) = b - a
      /\ \A i \in 1 .. b - a : middle[i] = s[a + i]
  OBVIOUS
<1>3. /\ back \in Seq(S) /\ Len(back) = Len(s) - b
      /\ \A i \in 1 .. Len(s) - b : back[i] = s[b + i]
  OBVIOUS
<1> HIDE DEF front, middle, back
<1>4. /\ front \o middle \in Seq(S) /\ Len(front \o middle) = b
      /\ \A i \in 1 .. b : (front \o middle)[i] = s[i]
  <2>1. /\ front \o middle \in Seq(S)
        /\ Len(front \o middle) = Len(front) + Len(middle)
        /\ \A i \in 1 .. Len(front) + Len(middle) :
             (front \o middle)[i] = IF i <= Len(front) THEN front[i] ELSE middle[i - Len(front)]
    BY <1>1, <1>2, ConcatProperties, Zenon
  <2> QED
    BY <1>1, <1>2, <2>1
<1>5. /\ (front \o middle) \o back \in Seq(S)
      /\ Len((front \o middle) \o back) = Len(s)
      /\ \A i \in 1 .. Len(s) : ((front \o middle) \o back)[i] = s[i]
  <2>1. /\ (front \o middle) \o back \in Seq(S)
        /\ Len((front \o middle) \o back) = Len(front \o middle) + Len(back)
        /\ \A i \in 1 .. Len(front \o middle) + Len(back) :
             ((front \o middle) \o back)[i]
               = IF i <= Len(front \o middle)
                   THEN (front \o middle)[i] ELSE back[i - Len(front \o middle)]
    <3>1. front \o middle \in Seq(S) /\ back \in Seq(S)
      BY <1>3, <1>4
    <3> QED
      BY <3>1, ConcatProperties, Zenon
  <2> QED
    BY <1>3, <1>4, <2>1
<1>6. (front \o middle) \o back = s
  BY <1>5, SeqEqual
<1> QED
  BY <1>6 DEF front, middle, back

(* SubSeq looks at nothing but the elements it takes.                        *)
LEMMA SameFront ==
  ASSUME NEW S, NEW s \in Seq(S), NEW t \in Seq(S), NEW n \in Nat,
         n <= Len(s), n <= Len(t), \A i \in 1 .. n : s[i] = t[i]
  PROVE  SubSeq(s, 1, n) = SubSeq(t, 1, n)
<1>1. /\ SubSeq(s, 1, n) \in Seq(S) /\ Len(SubSeq(s, 1, n)) = n
      /\ \A i \in 1 .. n : SubSeq(s, 1, n)[i] = s[i]
  OBVIOUS
<1>2. /\ SubSeq(t, 1, n) \in Seq(S) /\ Len(SubSeq(t, 1, n)) = n
      /\ \A i \in 1 .. n : SubSeq(t, 1, n)[i] = t[i]
  OBVIOUS
<1> QED
  BY <1>1, <1>2, SeqEqual

LEMMA SameBack ==
  ASSUME NEW S, NEW s \in Seq(S), NEW t \in Seq(S), NEW n \in Nat,
         n <= Len(s), n <= Len(t),
         \A i \in 1 .. n : s[Len(s) + 1 - i] = t[Len(t) + 1 - i]
  PROVE  SubSeq(s, Len(s) - n + 1, Len(s)) = SubSeq(t, Len(t) - n + 1, Len(t))
<1> DEFINE u == SubSeq(s, Len(s) - n + 1, Len(s))
           v == SubSeq(t, Len(t) - n + 1, Len(t))
<1>1. u \in Seq(S) /\ Len(u) = n /\ \A i \in 1 .. n : u[i] = s[Len(s) - n + i]
  OBVIOUS
<1>2. v \in Seq(S) /\ Len(v) = n /\ \A i \in 1 .. n : v[i] = t[Len(t) - n + i]
  OBVIOUS
<1>3. ASSUME NEW i \in 1 .. n
      PROVE  s[Len(s) - n + i] = t[Len(t) - n + i]
  <2>1. n + 1 - i \in 1 .. n
    OBVIOUS
  <2>2. s[Len(s) + 1 - (n + 1 - i)] = t[Len(t) + 1 - (n + 1 - i)]
    BY <2>1
  <2>3. /\ Len(s) + 1 - (n + 1 - i) = Len(s) - n + i
        /\ Len(t) + 1 - (n + 1 - i) = Len(t) - n + i
    OBVIOUS
  <2> QED
    BY <2>2, <2>3
<1> HIDE DEF u, v
<1>4. u = v
  BY <1>1, <1>2, <1>3, SeqEqual
<1> QED
  BY <1>4 DEF u, v

(* The edits of old and new turn old into new (semantic_tokens_edits, and    *)
(* what a client does with them).                                           *)
THEOREM EditsRebuild ==
  ASSUME NEW S, NEW old \in Seq(S), NEW new \in Seq(S)
  PROVE  ApplyEdits(old, Edits(old, new)) = new
<1> DEFINE prefix == CommonPrefix(old, new)
           suffix == CommonSuffix(old, new, prefix)
           deleted == Len(old) - prefix - suffix
           inserted == SubSeq(new, prefix + 1, Len(new) - suffix)
           edit == [start |-> prefix * TokenWidth, deleteCount |-> deleted * TokenWidth,
                    data |-> inserted]
<1>1. /\ prefix \in Nat /\ suffix \in Nat
      /\ prefix + suffix <= Len(old) /\ prefix + suffix <= Len(new)
  <2>1. prefix \in 0 .. Least(Len(old), Len(new))
    BY PrefixAgrees
  <2>2. suffix \in 0 .. Least(Len(old), Len(new)) - prefix
    BY <2>1, SuffixAgrees
  <2>3. Len(old) \in Nat /\ Len(new) \in Nat
    OBVIOUS
  <2>4. /\ Least(Len(old), Len(new)) \in Nat
        /\ Least(Len(old), Len(new)) <= Len(old) /\ Least(Len(old), Len(new)) <= Len(new)
    BY <2>3, LeastOfLengths
  <2> HIDE DEF prefix, suffix
  <2> QED
    BY <2>1, <2>2, <2>3, <2>4
<1>2. \A i \in 1 .. prefix : old[i] = new[i]
  BY PrefixAgrees
<1>3. \A i \in 1 .. suffix : old[Len(old) + 1 - i] = new[Len(new) + 1 - i]
  BY PrefixAgrees, SuffixAgrees
<1> HIDE DEF prefix, suffix
<1>4. SubSeq(old, 1, prefix) = SubSeq(new, 1, prefix)
  <2>1. prefix <= Len(old) /\ prefix <= Len(new)
    BY <1>1
  <2> QED
    BY <1>1, <1>2, <2>1, SameFront
<1>5. SubSeq(old, Len(old) - suffix + 1, Len(old))
        = SubSeq(new, Len(new) - suffix + 1, Len(new))
  <2>1. suffix <= Len(old) /\ suffix <= Len(new)
    BY <1>1
  <2> QED
    BY <1>1, <1>3, <2>1, SameBack
<1>6. (SubSeq(new, 1, prefix) \o inserted) \o SubSeq(new, Len(new) - suffix + 1, Len(new)) = new
  <2>1. prefix \in 0 .. Len(new) /\ Len(new) - suffix \in prefix .. Len(new)
    BY <1>1
  <2> QED
    BY <2>1, ThreeParts
<1>7. CASE deleted = 0 /\ inserted = <<>>
  <2>1. Edits(old, new) = {}
    BY <1>7 DEF Edits, prefix, suffix
  <2>2. (SubSeq(old, 1, prefix) \o SubSeq(old, prefix + 1, Len(old) - suffix))
          \o SubSeq(old, Len(old) - suffix + 1, Len(old)) = old
    <3>1. prefix \in 0 .. Len(old) /\ Len(old) - suffix \in prefix .. Len(old)
      BY <1>1
    <3> QED
      BY <3>1, ThreeParts
  <2>3. SubSeq(old, prefix + 1, Len(old) - suffix) = <<>>
    BY <1>1, <1>7
  <2>4. old = new
    BY <1>4, <1>5, <1>6, <1>7, <2>2, <2>3
  <2> QED
    BY <2>1, <2>4 DEF ApplyEdits
<1>8. CASE ~(deleted = 0 /\ inserted = <<>>)
  <2>1. Edits(old, new) = {edit}
    BY <1>8 DEF Edits, prefix, suffix
  <2>2. ApplyEdits(old, {edit}) = ApplyEdit(old, edit)
    BY DEF ApplyEdits
  <2>3. edit.start \div TokenWidth = prefix
        /\ (edit.start + edit.deleteCount) \div TokenWidth = Len(old) - suffix
    BY <1>1 DEF TokenWidth
  <2>4. ApplyEdit(old, edit)
          = (SubSeq(old, 1, prefix) \o inserted) \o SubSeq(old, Len(old) - suffix + 1, Len(old))
    BY <2>3 DEF ApplyEdit
  <2> QED
    BY <1>4, <1>5, <1>6, <2>1, <2>2, <2>4
<1> QED
  BY <1>7, <1>8

(* An edit has the type of the protocol's SemanticTokensEdit.                *)
EditOf(S) == [start : Nat, deleteCount : Nat, data : Seq(S)]

LEMMA EditsAreEdits ==
  ASSUME NEW S, NEW old \in Seq(S), NEW new \in Seq(S)
  PROVE  Edits(old, new) \in SUBSET EditOf(S)
<1> DEFINE prefix == CommonPrefix(old, new)
           suffix == CommonSuffix(old, new, prefix)
<1>1. prefix \in 0 .. Least(Len(old), Len(new))
  BY PrefixAgrees
<1>2. suffix \in 0 .. Least(Len(old), Len(new)) - prefix
  BY <1>1, SuffixAgrees
<1> HIDE DEF prefix, suffix
<1>3. Len(old) \in Nat /\ Len(new) \in Nat
  OBVIOUS
<1>4. /\ prefix \in Nat /\ suffix \in Nat
      /\ Len(old) - prefix - suffix \in Nat /\ Len(new) - suffix \in Nat
  <2>1. /\ Least(Len(old), Len(new)) \in Nat
        /\ Least(Len(old), Len(new)) <= Len(old) /\ Least(Len(old), Len(new)) <= Len(new)
    BY <1>3, LeastOfLengths
  <2> QED
    BY <1>1, <1>2, <1>3, <2>1
<1>5. SubSeq(new, prefix + 1, Len(new) - suffix) \in Seq(S)
  <2>1. \A i \in prefix + 1 .. Len(new) - suffix : i \in 1 .. Len(new)
    BY <1>3, <1>4
  <2> QED
    BY <1>4, <2>1
<1>6. prefix * TokenWidth \in Nat /\ (Len(old) - prefix - suffix) * TokenWidth \in Nat
  BY <1>4 DEF TokenWidth
<1> QED
  BY <1>5, <1>6 DEF Edits, EditOf, prefix, suffix

-----------------------------------------------------------------------------
(* The encoding.                                                           *)

Natural(Types) == [line : Nat, start : Nat, length : Nat, type : Types]

(* The token before the first one, and before any other.                     *)
BeforeToken(tokens, i) == IF i = 1 THEN Origin ELSE tokens[i - 1]

LEMMA EncodeAt ==
  ASSUME NEW T, NEW tokens \in Seq(Natural(T))
  PROVE  /\ DOMAIN Encode(tokens) = 1 .. Len(tokens)
         /\ Len(Encode(tokens)) = Len(tokens)
         /\ \A i \in 1 .. Len(tokens) :
              Encode(tokens)[i] = Relative(tokens[i], BeforeToken(tokens, i))
BY DEF Encode, BeforeToken

(* One step of the loop of tokens_in_range undoes one of encode_tokens.       *)
LEMMA AbsoluteOfRelative ==
  ASSUME NEW T, NEW token \in Natural(T), NEW before,
         before.line \in Nat, before.start \in Nat
  PROVE  Absolute(Relative(token, before), before) = token
<1>1. /\ token.line \in Nat /\ token.start \in Nat
      /\ token = [line |-> token.line, start |-> token.start,
                  length |-> token.length, type |-> token.type]
  BY DEF Natural
<1>2. /\ before.line + (token.line - before.line) = token.line
      /\ token.line - before.line = 0 <=> token.line = before.line
      /\ before.start + (token.start - before.start) = token.start
  BY <1>1
<1> QED
  BY <1>1, <1>2 DEF Absolute, Relative

(* What the loop has before it takes token i + 1 (the LET of Decode).         *)
IsDecoding(data, at) ==
  at = [i \in 0 .. Len(data) |-> IF i = 0 THEN Origin ELSE Absolute(data[i], at[i - 1])]

LEMMA OneDecoding ==
  ASSUME NEW data, Len(data) \in Nat,
         NEW f, IsDecoding(data, f), NEW g, IsDecoding(data, g)
  PROVE  f = g
<1> DEFINE Differ == {i \in 0 .. Len(data) : f[i] # g[i]}
<1>1. ASSUME Differ # {}
      PROVE  FALSE
  <2>1. PICK i \in Differ : \A j \in Differ : i <= j
    <3>1. Differ \subseteq Nat
      OBVIOUS
    <3> HIDE DEF Differ
    <3> QED
      BY <1>1, <3>1, LeastOfSet
  <2>2. i \in 0 .. Len(data) /\ f[i] # g[i]
    OBVIOUS
  <2>3. i # 0
    BY <2>2 DEF IsDecoding
  <2>4. i - 1 \in 0 .. Len(data) /\ i - 1 \notin Differ
    <3>1. i - 1 \in 0 .. Len(data) /\ ~(i <= i - 1)
      BY <2>2, <2>3
    <3> HIDE DEF Differ
    <3> QED
      BY <2>1, <3>1
  <2>5. f[i - 1] = g[i - 1]
    BY <2>4
  <2> QED
    BY <2>2, <2>3, <2>5 DEF IsDecoding
<1>2. \A i \in 0 .. Len(data) : f[i] = g[i]
  BY <1>1
<1> QED
  BY <1>2 DEF IsDecoding

LEMMA DecodeIs ==
  ASSUME NEW data, Len(data) \in Nat, NEW f, IsDecoding(data, f)
  PROVE  Decode(data) = [i \in 1 .. Len(data) |-> f[i]]
<1>1. \A g : IsDecoding(data, g) => g = f
  BY OneDecoding
<1> QED
  BY <1>1 DEF Decode, IsDecoding

(* For all token lists, the loop of tokens_in_range reads the positions that  *)
(* encode_tokens wrote.                                                     *)
THEOREM DecodingInvertsEncoding ==
  ASSUME NEW T, NEW tokens \in Seq(Natural(T))
  PROVE  Decode(Encode(tokens)) = tokens
<1> DEFINE n == Len(tokens)
           at == [i \in 0 .. n |-> IF i = 0 THEN Origin ELSE tokens[i]]
<1>1. n \in Nat /\ Len(Encode(tokens)) = n
  BY EncodeAt
<1>2. ASSUME NEW i \in 0 .. n
      PROVE  at[i] = IF i = 0 THEN Origin ELSE Absolute(Encode(tokens)[i], at[i - 1])
  <2>1. CASE i = 0
    BY <2>1
  <2>2. CASE i # 0
    <3>1. i \in 1 .. n /\ i - 1 \in 0 .. n
      BY <1>1, <2>2
    <3>2. at[i - 1] = BeforeToken(tokens, i)
      BY <3>1 DEF BeforeToken
    <3>3. at[i - 1].line \in Nat /\ at[i - 1].start \in Nat
      <4>1. CASE i = 1
        BY <3>2, <4>1 DEF BeforeToken, Origin
      <4>2. CASE i # 1
        <5>1. i - 1 \in 1 .. n
          BY <3>1, <4>2
        <5>2. tokens[i - 1] \in Natural(T)
          BY <5>1
        <5> QED
          BY <3>2, <4>2, <5>2 DEF BeforeToken, Natural
      <4> QED
        BY <4>1, <4>2
    <3>4. tokens[i] \in Natural(T) /\ Encode(tokens)[i] = Relative(tokens[i], at[i - 1])
      BY <3>1, <3>2, EncodeAt
    <3>5. at[i] = tokens[i]
      BY <2>2
    <3> HIDE DEF at
    <3> QED
      BY <2>2, <3>3, <3>4, <3>5, AbsoluteOfRelative
  <2> QED
    BY <2>1, <2>2
<1>3. IsDecoding(Encode(tokens), at)
  <2>1. at = [i \in 0 .. n |-> at[i]]
    OBVIOUS
  <2> HIDE DEF at
  <2>2. at = [i \in 0 .. n |-> IF i = 0 THEN Origin ELSE Absolute(Encode(tokens)[i], at[i - 1])]
    BY <1>2, <2>1
  <2> QED
    BY <1>1, <2>2 DEF IsDecoding
<1>4. Decode(Encode(tokens)) = [i \in 1 .. n |-> at[i]]
  <2> HIDE DEF at
  <2> QED
    BY <1>1, <1>3, DecodeIs
<1>5. \A i \in 1 .. n : at[i] = tokens[i]
  OBVIOUS
<1> HIDE DEF at
<1>6. tokens = [i \in 1 .. n |-> tokens[i]]
  OBVIOUS
<1> QED
  BY <1>4, <1>5, <1>6

(* Tokens in order are encoded without a number below zero, which the wire   *)
(* could not carry.                                                         *)
THEOREM EncodingIsNatural ==
  ASSUME NEW T, NEW tokens \in Seq(Natural(T)), Ordered(tokens)
  PROVE  Encode(tokens) \in Seq([deltaLine : Nat, deltaStart : Nat, length : Nat, type : T])
<1>1. ASSUME NEW i \in 1 .. Len(tokens)
      PROVE  Encode(tokens)[i] \in [deltaLine : Nat, deltaStart : Nat, length : Nat, type : T]
  <2>1. /\ tokens[i] \in Natural(T)
        /\ Encode(tokens)[i] = Relative(tokens[i], BeforeToken(tokens, i))
    BY EncodeAt
  <2>2. CASE i = 1
    BY <2>1, <2>2 DEF BeforeToken, Origin, Relative, Natural
  <2>3. CASE i # 1
    <3>1. i > 1 /\ i - 1 \in 1 .. Len(tokens)
      BY <2>3
    <3>2. tokens[i - 1] \in Natural(T)
      BY <3>1
    <3>3. \/ tokens[i - 1].line < tokens[i].line
          \/ /\ tokens[i - 1].line = tokens[i].line
             /\ tokens[i - 1].start + tokens[i - 1].length <= tokens[i].start
      BY <3>1 DEF Ordered
    <3>4. Encode(tokens)[i] = Relative(tokens[i], tokens[i - 1])
      BY <2>1, <2>3 DEF BeforeToken
    <3> DEFINE before == tokens[i - 1]
               token == tokens[i]
    <3>5. /\ before.line \in Nat /\ before.start \in Nat /\ before.length \in Nat
          /\ token.line \in Nat /\ token.start \in Nat /\ token.length \in Nat /\ token.type \in T
      BY <2>1, <3>2 DEF Natural
    <3>6. /\ token.line - before.line \in Nat
          /\ token.line = before.line => token.start - before.start \in Nat
      BY <3>3, <3>5
    <3> HIDE DEF before, token
    <3> QED
      BY <3>4, <3>5, <3>6 DEF Relative, before, token
  <2> QED
    BY <2>2, <2>3
<1> QED
  BY <1>1, EncodeAt DEF Encode

(* A token is in a range exactly if the range covers one of its characters.   *)
THEOREM RangesSelectTouched ==
  ASSUME NEW T, NEW token \in Natural(T), token.length > 0,
         NEW from \in Nat \X Nat, NEW to \in Nat \X Nat, Before(from, to)
  PROVE  InRange(token, from, to) <=> Touches(token, from, to)
<1>1. token.line \in Nat /\ token.start \in Nat /\ token.length \in Nat
  BY DEF Natural
<1>2. ASSUME InRange(token, from, to)
      PROVE  Touches(token, from, to)
  <2> DEFINE c == IF from[1] = token.line /\ from[2] > token.start THEN from[2] ELSE token.start
  <2>1. c \in token.start .. token.start + token.length - 1
    BY <1>1, <1>2 DEF InRange, AtOrBefore, Before, StartOf, EndOf
  <2>2. AtOrBefore(from, <<token.line, c>>) /\ Before(<<token.line, c>>, to)
    BY <1>1, <1>2 DEF InRange, AtOrBefore, Before, StartOf, EndOf
  <2> HIDE DEF c
  <2> QED
    BY <2>1, <2>2 DEF Touches
<1>3. ASSUME Touches(token, from, to)
      PROVE  InRange(token, from, to)
  BY <1>1, <1>3 DEF Touches, InRange, AtOrBefore, Before, StartOf, EndOf
<1> QED
  BY <1>2, <1>3

-----------------------------------------------------------------------------
(* The types of the variables.                                              *)
TokenData == Seq(EncodedToken)
ClientResult == [id : Nat, data : TokenData]
ServerAnswer == [type : {"tokens", "edits"}, id : Nat, edits : SUBSET EditOf(EncodedToken)]
MemoKey == [version : Nat, workspace : Nat, environment : Nat]
MemoEntry == [key : MemoKey, reading : Reading]
Publication == [id : Nat, data : TokenData, shared : BOOLEAN]
SlotState == [memo : MemoEntry \cup {None}, published : Publication \cup {None},
              holder : Requests \cup {NoRequest}]
Analysed == [snapshot : Snapshot, reading : Reading]

Reads == {"resolving", "comparing", "inserting", "tokenised"}
Places == Holding \cup {"idle", "queued", "locking", "answering"}
RequestState ==
  [at : Places, kind : {"full", "range", "delta"}, snapshot : Snapshot \cup {None},
   base : ClientResult \cup {None}, cancelled : BOOLEAN, slot : Nat,
   reading : Reading \cup {None}, answer : ServerAnswer \cup {None}]

(* What a request has where it is, with this many slots.                     *)
PlaceOK(q, len) ==
  /\ q.at # "idle" => q.snapshot \in Snapshot
  /\ q.at = "looking up" => q.snapshot.text \in Scripts
  /\ q.at \in Reads => q.reading \in Reading
  /\ q.at \in Holding \cup {"locking"} => q.slot \in 1 .. len
  /\ q.at \in {"idle", "queued", "answering"} => q.slot = 0
  /\ q.at # "idle" /\ q.kind = "delta" => q.base \in ClientResult
  /\ q.answer # None => q.at = "answering" /\ q.reading \in Reading

(* The mutex of a slot.                                                     *)
HolderOK(slot, s, r, q) == slot.holder = r <=> q.slot = s /\ q.at \in Holding

Types ==
  /\ doc \in [version : Nat, text : Texts]
  /\ workspace \in Nat
  /\ environment \in 0 .. MaxChanges
  /\ nextId \in Nat
  /\ slots \in Seq(SlotState)
  /\ slotOf \in 0 .. Len(slots)
  /\ analyses \subseteq Analysed
  /\ held \in ClientResult \cup {None}
  /\ request \in [Requests -> RequestState]
  /\ \A r \in Requests : PlaceOK(request[r], Len(slots))
  /\ \A s \in 1 .. Len(slots) : \A r \in Requests : HolderOK(slots[s], s, r, request[r])

(* No record of the model is None.                                          *)
LEMMA NoneIsNone ==
  /\ None \notin Snapshot /\ None \notin Reading /\ None \notin ClientResult
  /\ None \notin ServerAnswer /\ None \notin MemoEntry /\ None \notin Publication
<1>1. DOMAIN None = {"none"}
  BY DEF None
<1>2. \A x \in Snapshot : "text" \in DOMAIN x
  BY DEF Snapshot
<1>3. \A x \in Reading : "text" \in DOMAIN x
  BY DEF Reading
<1>4. \A x \in ClientResult : "id" \in DOMAIN x
  BY DEF ClientResult
<1>5. \A x \in ServerAnswer : "id" \in DOMAIN x
  BY DEF ServerAnswer
<1>6. \A x \in MemoEntry : "key" \in DOMAIN x
  BY DEF MemoEntry
<1>7. \A x \in Publication : "id" \in DOMAIN x
  BY DEF Publication
<1> QED
  BY <1>1, <1>2, <1>3, <1>4, <1>5, <1>6, <1>7

LEMMA EmptyTypes ==
  EmptySlot \in SlotState /\ Idle \in RequestState /\ \A len : PlaceOK(Idle, len)
<1>1. EmptySlot \in SlotState
  BY DEF EmptySlot, SlotState
<1>2. Idle \in RequestState
  BY DEF Idle, RequestState, Places
<1>3. \A len : PlaceOK(Idle, len)
  BY DEF Idle, PlaceOK, Reads, Holding
<1> QED
  BY <1>1, <1>2, <1>3

(* The types give the invariant the runs check.                              *)
LEMMA TypesSuffice == Types => TypeOK
<1> SUFFICES ASSUME Types PROVE TypeOK
  OBVIOUS
<1>1. Current \in Snapshot
  BY BoundsAssumption DEF Types, Current, Snapshot
<1>2. DOMAIN slots = 1 .. Len(slots)
  BY DEF Types
<1>3. ASSUME NEW s \in DOMAIN slots
      PROVE  /\ slots[s].holder \in Requests \cup {NoRequest}
             /\ slots[s].memo # None => slots[s].memo.reading \in Reading
  <2>1. slots[s] \in SlotState
    BY <1>2, <1>3, ElementOfSeq DEF Types
  <2> QED
    BY <2>1 DEF SlotState, MemoEntry
<1>4. \A s \in DOMAIN slots : \A r \in Requests :
        slots[s].holder = r <=> request[r].slot = s /\ request[r].at \in Holding
  BY <1>2 DEF Types, HolderOK
<1>5. ASSUME NEW r \in Requests
      PROVE  /\ request[r].at \in Holding \cup {"idle", "queued", "locking", "answering"}
             /\ request[r].at # "idle" => request[r].snapshot \in Snapshot
             /\ request[r].reading \in Reading \cup {None}
  <2>1. request[r] \in RequestState /\ PlaceOK(request[r], Len(slots))
    BY <1>5 DEF Types
  <2> QED
    BY <2>1 DEF RequestState, Places, PlaceOK
<1> QED
  BY <1>1, <1>3, <1>4, <1>5 DEF TypeOK, Types

-----------------------------------------------------------------------------
(* Types are kept: requests that leave the slots alone.                      *)

RequestsOK(all, requests) ==
  /\ requests \in [Requests -> RequestState]
  /\ \A r \in Requests : PlaceOK(requests[r], Len(all))
  /\ \A s \in 1 .. Len(all) : \A r \in Requests : HolderOK(all[s], s, r, requests[r])

LEMMA RequestMoves ==
  ASSUME Types, NEW r \in Requests, NEW q \in RequestState, PlaceOK(q, Len(slots)),
         q.at \in Holding <=> request[r].at \in Holding,
         q.at \in Holding => q.slot = request[r].slot
  PROVE  RequestsOK(slots, [request EXCEPT ![r] = q])
<1> DEFINE both == [request EXCEPT ![r] = q]
<1>1. both \in [Requests -> RequestState] /\ \A x \in Requests : both[x] = IF x = r THEN q ELSE request[x]
  BY DEF Types
<1>2. \A x \in Requests : PlaceOK(both[x], Len(slots))
  BY <1>1 DEF Types
<1>3. ASSUME NEW s \in 1 .. Len(slots), NEW x \in Requests
      PROVE  HolderOK(slots[s], s, x, both[x])
  BY <1>1, <1>3 DEF Types, HolderOK
<1> QED
  BY <1>1, <1>2, <1>3 DEF RequestsOK

LEMMA DispatchTypes ==
  ASSUME Types, NEW r \in Requests, Dispatch(r)
  PROVE  Types'
<1>1. PICK kind \in {"full", "range", "delta"} :
        /\ kind = "delta" => held # None
        /\ request' = [request EXCEPT ![r] =
             [Idle EXCEPT !.at = "queued", !.kind = kind, !.snapshot = Current,
                          !.base = IF kind = "delta" THEN held ELSE None]]
  BY DEF Dispatch
<1> DEFINE q == [Idle EXCEPT !.at = "queued", !.kind = kind, !.snapshot = Current,
                             !.base = IF kind = "delta" THEN held ELSE None]
<1>2. Current \in Snapshot
  BY BoundsAssumption DEF Types, Current, Snapshot
<1>3. /\ q.at = "queued" /\ q.slot = 0 /\ q.answer = None /\ q.kind = kind
      /\ q.snapshot = Current /\ q.base = IF kind = "delta" THEN held ELSE None
      /\ q \in RequestState
  BY <1>2 DEF Types, Idle, RequestState, Places
<1>4. PlaceOK(q, Len(slots))
  BY <1>1, <1>2, <1>3 DEF Types, PlaceOK, Holding, Reads
<1>5. request[r].at = "idle"
  BY DEF Dispatch
<1> HIDE DEF q
<1>6. RequestsOK(slots, request')
  BY <1>1, <1>3, <1>4, <1>5, RequestMoves DEF Holding, q
<1> QED
  BY <1>6 DEF Types, RequestsOK, Dispatch, sessionVars, cacheVars

LEMMA CancelTypes ==
  ASSUME Types, NEW r \in Requests, Cancel(r)
  PROVE  Types'
<1> DEFINE q == [request[r] EXCEPT !.cancelled = TRUE]
<1>1. /\ q \in RequestState
      /\ q.at = request[r].at /\ q.kind = request[r].kind /\ q.snapshot = request[r].snapshot
      /\ q.base = request[r].base /\ q.slot = request[r].slot
      /\ q.reading = request[r].reading /\ q.answer = request[r].answer
  BY DEF Types, RequestState
<1>2. PlaceOK(q, Len(slots))
  BY <1>1 DEF Types, PlaceOK
<1>3. request' = [request EXCEPT ![r] = q]
  BY DEF Cancel
<1> HIDE DEF q
<1>4. RequestsOK(slots, request')
  BY <1>1, <1>2, <1>3, RequestMoves
<1> QED
  BY <1>4 DEF Types, RequestsOK, Cancel, sessionVars, cacheVars, clientVars

(* A step of an analysis: from one place with the slot's mutex to the next.  *)
LEMMA HoldingMoves ==
  ASSUME Types, NEW r \in Requests, request[r].at \in Holding,
         NEW place \in Reads, NEW reading \in Reading,
         request' = [request EXCEPT ![r].at = place, ![r].reading = reading]
  PROVE  RequestsOK(slots, request')
<1> DEFINE q == [request[r] EXCEPT !.at = place, !.reading = reading]
<1>1. place \in Holding /\ place # "looking up" /\ place # "answering"
      /\ place # "idle" /\ place # "queued"
  BY DEF Reads, Holding
<1>2. /\ q \in RequestState
      /\ q.at = place /\ q.reading = reading
      /\ q.kind = request[r].kind /\ q.snapshot = request[r].snapshot
      /\ q.base = request[r].base /\ q.slot = request[r].slot /\ q.answer = request[r].answer
  BY <1>1 DEF Types, RequestState, Places
<1>3. request[r].at \notin {"idle", "answering"}
  BY DEF Holding
<1>4. PlaceOK(q, Len(slots))
  BY <1>1, <1>2, <1>3 DEF Types, PlaceOK
<1>5. request' = [request EXCEPT ![r] = q]
  BY DEF Types
<1> HIDE DEF q
<1> QED
  BY <1>1, <1>2, <1>4, <1>5, RequestMoves

(* What an analysis that is cached says.                                     *)
LEMMA LookupTypes ==
  ASSUME Types, NEW r \in Requests, Lookup(r)
  PROVE  Types'
<1>1. request[r].at = "looking up" /\ request[r].at \in Holding
  BY DEF Lookup, Holding
<1>2. request[r].snapshot.text \in Scripts
  BY <1>1 DEF Types, PlaceOK
<1>3. PICK place \in Reads, reading \in Reading :
        request' = [request EXCEPT ![r].at = place, ![r].reading = reading]
  <2>1. CASE \E a \in analyses : a.snapshot = request[r].snapshot /\ Have(r, a.reading)
    <3>1. PICK a \in analyses : Have(r, a.reading)
      BY <2>1
    <3>2. a.reading \in Reading
      BY <3>1 DEF Types, Analysed
    <3> QED
      BY <3>1, <3>2 DEF Have, Reads
  <2>2. CASE request' = [request EXCEPT
                 ![r].at = "resolving",
                 ![r].reading = [text |-> request[r].snapshot.text,
                                 environment |-> environment, complete |-> FALSE]]
    <3>1. [text |-> request[r].snapshot.text,
           environment |-> environment, complete |-> FALSE] \in Reading
      BY <1>2 DEF Types, Reading
    <3> QED
      BY <2>2, <3>1 DEF Reads
  <2> QED
    BY <2>1, <2>2 DEF Lookup
<1>4. RequestsOK(slots, request')
  BY <1>1, <1>3, HoldingMoves
<1> QED
  BY <1>4 DEF Types, RequestsOK, Lookup, sessionVars, cacheVars, clientVars

LEMMA ResolveTypes ==
  ASSUME Types, NEW r \in Requests, Resolve(r)
  PROVE  Types'
<1> DEFINE complete == ~request[r].cancelled /\ workspace = request[r].snapshot.workspace
           reading == [request[r].reading EXCEPT !.complete = complete]
<1>1. request[r].at \in Holding /\ request[r].reading \in Reading
  BY DEF Resolve, Holding, Types, PlaceOK, Reads
<1>2. complete \in BOOLEAN
  BY DEF Types, RequestState
<1>3. reading \in Reading
  BY <1>1, <1>2 DEF Reading
<1>4. request' = [request EXCEPT ![r].at = "comparing", ![r].reading = reading]
  BY DEF Resolve, Types, RequestState
<1> HIDE DEF reading
<1>5. RequestsOK(slots, request')
  BY <1>1, <1>3, <1>4, HoldingMoves DEF Reads
<1> QED
  BY <1>5 DEF Types, RequestsOK, Resolve, sessionVars, cacheVars, clientVars

LEMMA CompareTypes ==
  ASSUME Types, NEW r \in Requests, Compare(r)
  PROVE  Types'
<1> DEFINE place == IF WorthKeeping(r) THEN "inserting" ELSE "tokenised"
<1>1. request[r].at \in Holding /\ request[r].reading \in Reading
  BY DEF Compare, Holding, Types, PlaceOK, Reads
<1>2. place \in Reads
  BY DEF Reads
<1>3. request' = [request EXCEPT ![r].at = place, ![r].reading = request[r].reading]
  BY DEF Compare, Types, RequestState
<1> HIDE DEF place
<1>4. RequestsOK(slots, request')
  BY <1>1, <1>2, <1>3, HoldingMoves
<1> QED
  BY <1>4 DEF Types, RequestsOK, Compare, sessionVars, cacheVars, clientVars

LEMMA InsertTypes ==
  ASSUME Types, NEW r \in Requests, Insert(r)
  PROVE  Types'
<1>1. request[r].at \in Holding /\ request[r].reading \in Reading /\ request[r].snapshot \in Snapshot
  BY DEF Insert, Holding, Types, PlaceOK, Reads
<1>2. CASE \E a \in analyses : a.snapshot = request[r].snapshot /\ Have(r, a.reading)
  <2>1. PICK a \in analyses : Have(r, a.reading)
    BY <1>2
  <2>2. a.reading \in Reading
    BY <2>1 DEF Types, Analysed
  <2>3. RequestsOK(slots, request')
    BY <1>1, <2>1, <2>2, HoldingMoves DEF Have, Reads
  <2>4. analyses' \subseteq Analysed
    <3>1. [snapshot |-> request[r].snapshot, reading |-> request[r].reading] \in Analysed
      BY <1>1 DEF Analysed
    <3> QED
      BY <3>1 DEF Insert, Types
  <2> QED
    BY <2>3, <2>4 DEF Types, RequestsOK, Insert, sessionVars, cacheVars, clientVars
<1>3. CASE /\ analyses' = analyses \cup {[snapshot |-> request[r].snapshot,
                                          reading |-> request[r].reading]}
           /\ request' = [request EXCEPT ![r].at = "tokenised"]
  <2>1. request' = [request EXCEPT ![r].at = "tokenised", ![r].reading = request[r].reading]
    BY <1>3 DEF Types, RequestState
  <2>2. RequestsOK(slots, request')
    BY <1>1, <2>1, HoldingMoves DEF Reads
  <2>3. analyses' \subseteq Analysed
    BY <1>1, <1>3 DEF Analysed, Types
  <2> QED
    BY <2>2, <2>3 DEF Types, RequestsOK, Insert, sessionVars, cacheVars, clientVars
<1> QED
  BY <1>2, <1>3 DEF Insert

(* What the client rebuilds from an answer.                                  *)
RebuiltOf(q) ==
  IF q.answer.type = "edits" THEN ApplyEdits(q.base.data, q.answer.edits)
                             ELSE TokensOf(q.reading)

LEMMA TokensAreData == \A reading \in Reading : TokensOf(reading) \in TokenData
  BY TokensAssumption DEF TokenData

LEMMA DeliverTypes ==
  ASSUME Types, NEW r \in Requests, Deliver(r),
         request[r].answer # None => Rebuilt(r) \in TokenData
  PROVE  Types'
<1>1. request[r].at \notin Holding /\ Idle.at \notin Holding
  BY DEF Deliver, Holding, Idle
<1>2. request' = [request EXCEPT ![r] = Idle]
  BY DEF Deliver
<1>3. RequestsOK(slots, request')
  BY <1>1, <1>2, EmptyTypes, RequestMoves
<1>4. held' \in ClientResult \cup {None}
  <2>1. CASE request[r].cancelled \/ request[r].answer = None
    BY <2>1 DEF Deliver, Types
  <2>2. CASE ~(request[r].cancelled \/ request[r].answer = None)
    <3>1. request[r].answer \in ServerAnswer
      BY <2>2 DEF Types, RequestState
    <3>2. request[r].answer.id \in Nat
      BY <3>1 DEF ServerAnswer
    <3>3. held' = [id |-> request[r].answer.id, data |-> Rebuilt(r)]
      BY <2>2 DEF Deliver
    <3> QED
      BY <2>2, <3>2, <3>3 DEF ClientResult
  <2> QED
    BY <2>1, <2>2
<1> QED
  BY <1>3, <1>4 DEF Types, RequestsOK, Deliver, sessionVars, cacheVars

-----------------------------------------------------------------------------
(* Types are kept: slots come, change hands and go.                          *)

SlotsOK(all, mapped, requests) ==
  /\ all \in Seq(SlotState)
  /\ mapped \in 0 .. Len(all)
  /\ RequestsOK(all, requests)

(* What is left of the slots when some are let go.                           *)
LEMMA KeptSlots ==
  ASSUME NEW all \in Seq(SlotState), NEW mapped, NEW requests
  PROVE  /\ Kept(all, mapped, requests) \in Seq(SlotState)
         /\ Len(Kept(all, mapped, requests)) = Len(all)
         /\ \A s \in 1 .. Len(all) :
              /\ Kept(all, mapped, requests)[s] \in {all[s], EmptySlot}
              /\ (\E r \in Requests : requests[r].slot = s)
                   => Kept(all, mapped, requests)[s] = all[s]
<1> DEFINE kept == Kept(all, mapped, requests)
<1>1. Len(all) \in Nat /\ DOMAIN all = 1 .. Len(all) /\ \A s \in 1 .. Len(all) : all[s] \in SlotState
  BY LenProperties, ElementOfSeq
<1>2. kept = [s \in 1 .. Len(all) |->
                IF s = mapped \/ \E r \in Requests : requests[r].slot = s THEN all[s] ELSE EmptySlot]
  BY <1>1 DEF Kept
<1>3. \A s \in 1 .. Len(all) :
        /\ kept[s] \in {all[s], EmptySlot}
        /\ (\E r \in Requests : requests[r].slot = s) => kept[s] = all[s]
  BY <1>2
<1>4. kept \in [1 .. Len(all) -> SlotState]
  BY <1>1, <1>2, EmptyTypes
<1> HIDE DEF kept
<1>5. kept \in Seq(SlotState)
  BY <1>1, <1>4
<1>6. Len(kept) = Len(all)
  BY <1>1, <1>4, <1>5
<1> QED
  BY <1>3, <1>5, <1>6 DEF kept

(* A slot that is let go has no holder.                                      *)
LEMMA KeptTypes ==
  ASSUME NEW all, NEW requests, NEW mapped, all \in Seq(SlotState), mapped \in 0 .. Len(all),
         RequestsOK(all, requests)
  PROVE  SlotsOK(Kept(all, mapped, requests), mapped, requests)
<1> DEFINE kept == Kept(all, mapped, requests)
<1>1. /\ kept \in Seq(SlotState) /\ Len(kept) = Len(all)
      /\ \A s \in 1 .. Len(all) :
           /\ kept[s] \in {all[s], EmptySlot}
           /\ (\E r \in Requests : requests[r].slot = s) => kept[s] = all[s]
  BY KeptSlots
<1> HIDE DEF kept
<1>2. ASSUME NEW s \in 1 .. Len(kept), NEW r \in Requests
      PROVE  HolderOK(kept[s], s, r, requests[r])
  <2>1. s \in 1 .. Len(all) /\ HolderOK(all[s], s, r, requests[r])
    BY <1>1, <1>2 DEF RequestsOK
  <2>2. CASE requests[r].slot = s
    BY <1>1, <2>1, <2>2
  <2>3. CASE requests[r].slot # s
    BY <1>1, <2>1, <2>3, RequestAssumption DEF HolderOK, EmptySlot
  <2> QED
    BY <2>2, <2>3
<1>3. RequestsOK(kept, requests)
  BY <1>1, <1>2 DEF RequestsOK
<1> QED
  BY <1>1, <1>3 DEF SlotsOK, kept

(* A request takes, keeps or gives back a slot it is at.                     *)
LEMMA SlotMoves ==
  ASSUME Types, NEW r \in Requests, NEW q \in RequestState, PlaceOK(q, Len(slots)),
         NEW s \in 1 .. Len(slots), NEW slot \in SlotState,
         s = request[r].slot,
         \/ slots[s].holder = NoRequest
         \/ slots[s].holder = r,
         \/ slot.holder = NoRequest /\ q.at \notin Holding
         \/ slot.holder = r /\ q.at \in Holding /\ q.slot = s
  PROVE  /\ [slots EXCEPT ![s] = slot] \in Seq(SlotState)
         /\ Len([slots EXCEPT ![s] = slot]) = Len(slots)
         /\ RequestsOK([slots EXCEPT ![s] = slot], [request EXCEPT ![r] = q])
<1> DEFINE all == [slots EXCEPT ![s] = slot]
           both == [request EXCEPT ![r] = q]
<1>1. /\ all \in Seq(SlotState) /\ Len(all) = Len(slots)
      /\ \A i \in 1 .. Len(slots) : all[i] = IF i = s THEN slot ELSE slots[i]
  BY ExceptSeq DEF Types
<1>2. both \in [Requests -> RequestState] /\ \A x \in Requests : both[x] = IF x = r THEN q ELSE request[x]
  BY DEF Types
<1> HIDE DEF all, both
<1>3. \A x \in Requests : PlaceOK(both[x], Len(all))
  BY <1>1, <1>2 DEF Types
<1>4. ASSUME NEW i \in 1 .. Len(all), NEW x \in Requests
      PROVE  HolderOK(all[i], i, x, both[x])
  <2>1. i \in 1 .. Len(slots) /\ HolderOK(slots[i], i, x, request[x])
    BY <1>1, <1>4 DEF Types
  <2>2. x # NoRequest
    BY <1>4, RequestAssumption
  <2>3. CASE i = s
    BY <1>1, <1>2, <2>1, <2>2, <2>3 DEF HolderOK
  <2>4. CASE i # s
    <3>1. CASE x = r
      BY <1>1, <1>2, <2>1, <2>2, <2>4, <3>1 DEF HolderOK
    <3>2. CASE x # r
      BY <1>1, <1>2, <2>1, <2>4, <3>2 DEF HolderOK
    <3> QED
      BY <3>1, <3>2
  <2> QED
    BY <2>3, <2>4
<1>5. RequestsOK(all, both)
  BY <1>1, <1>2, <1>3, <1>4 DEF RequestsOK
<1> QED
  BY <1>1, <1>5 DEF all, both

LEMMA TypesFromSlots ==
  ASSUME Types, SlotsOK(slots', slotOf', request'), nextId' \in Nat,
         UNCHANGED <<sessionVars, analyses, held>>
  PROVE  Types'
  BY DEF Types, SlotsOK, RequestsOK, sessionVars

(* A place with more slots than before.                                     *)
LEMMA PlaceGrows ==
  ASSUME NEW q \in RequestState, NEW m \in Nat, NEW n \in Nat, m <= n, PlaceOK(q, m)
  PROVE  PlaceOK(q, n)
<1>1. q.slot \in 1 .. m => q.slot \in 1 .. n
  OBVIOUS
<1> QED
  BY <1>1, Zenon DEF PlaceOK

LEMMA BeginTypes ==
  ASSUME Types, NEW r \in Requests, Begin(r)
  PROVE  Types'
<1>1. request[r] \in RequestState /\ request[r].at = "queued" /\ Len(slots) \in Nat
  BY DEF Types, Begin
<1>2. CASE request[r].cancelled
  <2>1. request' = [request EXCEPT ![r] = Idle]
    BY <1>2 DEF Begin
  <2>2. RequestsOK(slots, request')
    BY <1>1, <2>1, EmptyTypes, RequestMoves DEF Idle, Holding
  <2>3. SlotsOK(slots', slotOf', request') /\ nextId' = nextId
    BY <1>2, <2>2 DEF Begin, SlotsOK, Types
  <2> QED
    BY <2>3, TypesFromSlots DEF Begin, clientVars, Types
<1>3. CASE ~request[r].cancelled
  <2> DEFINE q == [request[r] EXCEPT !.at = "locking", !.slot = slotOf']
  <2>1. /\ slots' = IF slotOf = 0 THEN Append(slots, EmptySlot) ELSE slots
        /\ slotOf' = IF slotOf = 0 THEN Len(slots) + 1 ELSE slotOf
        /\ request' = [request EXCEPT ![r] = q]
    BY <1>1, <1>3 DEF Begin, Types
  <2>2. /\ slots' \in Seq(SlotState) /\ Len(slots') \in Nat /\ Len(slots) <= Len(slots')
        /\ \A s \in 1 .. Len(slots') :
             IF s \in 1 .. Len(slots) THEN slots'[s] = slots[s] ELSE slots'[s] = EmptySlot
        /\ slotOf' \in 1 .. Len(slots')
    <3>1. CASE slotOf = 0
      <4>1. /\ Append(slots, EmptySlot) \in Seq(SlotState)
            /\ Len(Append(slots, EmptySlot)) = Len(slots) + 1
            /\ \A i \in 1 .. Len(slots) : Append(slots, EmptySlot)[i] = slots[i]
            /\ Append(slots, EmptySlot)[Len(slots) + 1] = EmptySlot
        BY AppendProperties, EmptyTypes DEF Types
      <4> QED
        BY <1>1, <2>1, <3>1, <4>1
    <3>2. CASE slotOf # 0
      BY <1>1, <2>1, <3>2 DEF Types
    <3> QED
      BY <3>1, <3>2
  <2>3. /\ q.at = "locking" /\ q.slot = slotOf' /\ q.kind = request[r].kind
        /\ q.snapshot = request[r].snapshot /\ q.base = request[r].base
        /\ q.reading = request[r].reading /\ q.answer = request[r].answer
        /\ q \in RequestState
    <3>1. slotOf' \in Nat
      BY <2>2
    <3> QED
      BY <1>1, <3>1 DEF RequestState, Places
  <2>4. PlaceOK(q, Len(slots'))
    <3>1. PlaceOK(request[r], Len(slots))
      BY DEF Types
    <3> QED
      BY <1>1, <2>2, <2>3, <3>1 DEF PlaceOK, Reads, Holding
  <2> HIDE DEF q
  <2>5. request' \in [Requests -> RequestState]
        /\ \A x \in Requests : request'[x] = IF x = r THEN q ELSE request[x]
    BY <2>1, <2>3 DEF Types
  <2>6. ASSUME NEW x \in Requests PROVE PlaceOK(request'[x], Len(slots'))
    <3>1. request[x] \in RequestState /\ PlaceOK(request[x], Len(slots))
      BY DEF Types
    <3>2. PlaceOK(request[x], Len(slots'))
      BY <1>1, <2>2, <3>1, PlaceGrows
    <3> QED
      BY <2>4, <2>5, <3>2
  <2>7. ASSUME NEW s \in 1 .. Len(slots'), NEW x \in Requests
        PROVE  HolderOK(slots'[s], s, x, request'[x])
    <3>1. x # NoRequest /\ PlaceOK(request[x], Len(slots))
      BY <2>7, RequestAssumption DEF Types
    <3>2. q.at \notin Holding /\ request[r].at \notin Holding
      BY <1>1, <2>3 DEF Holding
    <3>3. CASE s \in 1 .. Len(slots)
      <4>1. HolderOK(slots[s], s, x, request[x]) /\ slots'[s] = slots[s]
        BY <2>2, <2>7, <3>3 DEF Types
      <4> QED
        BY <2>5, <3>2, <4>1 DEF HolderOK
    <3>4. CASE s \notin 1 .. Len(slots)
      <4>1. slots'[s].holder = NoRequest
        BY <2>2, <2>7, <3>4 DEF EmptySlot
      <4>2. request[x].at \in Holding => request[x].slot # s
        BY <3>1, <3>4 DEF PlaceOK
      <4> QED
        BY <2>5, <3>1, <3>2, <4>1, <4>2 DEF HolderOK
    <3> QED
      BY <3>3, <3>4
  <2>8. SlotsOK(slots', slotOf', request')
    BY <2>2, <2>5, <2>6, <2>7 DEF SlotsOK, RequestsOK
  <2> QED
    BY <2>8, TypesFromSlots DEF Begin, clientVars, Types
<1> QED
  BY <1>2, <1>3

LEMMA LockTypes ==
  ASSUME Types, NEW r \in Requests, Lock(r)
  PROVE  Types'
<1> DEFINE s == request[r].slot
<1>1. /\ request[r] \in RequestState /\ request[r].at = "locking"
      /\ PlaceOK(request[r], Len(slots)) /\ s \in 1 .. Len(slots)
      /\ request[r].snapshot \in Snapshot
  BY DEF Types, Lock, PlaceOK
<1>2. slots[s] \in SlotState /\ slots[s].holder = NoRequest
  BY <1>1, ElementOfSeq DEF Types, Lock, Unlocked
<1>3. Memo(r) # None => Memo(r).reading \in Reading
  BY <1>2 DEF SlotState, MemoEntry, Memo
<1> DEFINE taken == [slots[s] EXCEPT !.holder = r]
<1>4. taken \in SlotState /\ taken.holder = r
  BY <1>2 DEF SlotState
<1>5. CASE Memo(r) # None /\ Memo(r).key = Key(request[r].snapshot)
  <2> DEFINE q == [request[r] EXCEPT !.at = "tokenised", !.reading = Memo(r).reading]
  <2>1. request' = [request EXCEPT ![r] = q] /\ slots' = [slots EXCEPT ![s] = taken]
    BY <1>5 DEF Lock, Types
  <2>2. /\ q.at = "tokenised" /\ q.slot = s /\ q.reading = Memo(r).reading
        /\ q.kind = request[r].kind /\ q.snapshot = request[r].snapshot
        /\ q.base = request[r].base /\ q.answer = request[r].answer
        /\ q \in RequestState
    BY <1>1, <1>3, <1>5 DEF RequestState, Places, Holding
  <2>3. PlaceOK(q, Len(slots))
    BY <1>1, <1>3, <1>5, <2>2 DEF PlaceOK, Reads, Holding
  <2> HIDE DEF q, taken
  <2>4. SlotsOK(slots', slotOf', request')
    <3>1. /\ slots' \in Seq(SlotState) /\ Len(slots') = Len(slots)
          /\ RequestsOK(slots', request')
      BY <1>1, <1>2, <1>4, <2>1, <2>2, <2>3, SlotMoves DEF Holding
    <3> QED
      BY <3>1 DEF SlotsOK, Lock, Types
  <2> QED
    BY <2>4, TypesFromSlots DEF Lock, clientVars, Types
<1>6. CASE ~(Memo(r) # None /\ Memo(r).key = Key(request[r].snapshot))
           /\ request[r].snapshot.text \in Scripts
  <2> DEFINE q == [request[r] EXCEPT !.at = "looking up"]
  <2>1. request' = [request EXCEPT ![r] = q] /\ slots' = [slots EXCEPT ![s] = taken]
    BY <1>6 DEF Lock, Types
  <2>2. /\ q.at = "looking up" /\ q.slot = s /\ q.reading = request[r].reading
        /\ q.kind = request[r].kind /\ q.snapshot = request[r].snapshot
        /\ q.base = request[r].base /\ q.answer = request[r].answer
        /\ q \in RequestState
    BY <1>1 DEF RequestState, Places, Holding
  <2>3. PlaceOK(q, Len(slots))
    BY <1>1, <1>6, <2>2 DEF PlaceOK, Reads, Holding
  <2> HIDE DEF q, taken
  <2>4. SlotsOK(slots', slotOf', request')
    <3>1. /\ slots' \in Seq(SlotState) /\ Len(slots') = Len(slots)
          /\ RequestsOK(slots', request')
      BY <1>1, <1>2, <1>4, <2>1, <2>2, <2>3, SlotMoves DEF Holding
    <3> QED
      BY <3>1 DEF SlotsOK, Lock, Types
  <2> QED
    BY <2>4, TypesFromSlots DEF Lock, clientVars, Types
<1>7. CASE ~(Memo(r) # None /\ Memo(r).key = Key(request[r].snapshot))
           /\ request[r].snapshot.text \notin Scripts
  <2> DEFINE q == [request[r] EXCEPT !.at = "answering", !.slot = 0]
  <2>1. request' = [request EXCEPT ![r] = q] /\ slots' = [slots EXCEPT ![s] = EmptySlot]
    BY <1>7 DEF Lock, Types
  <2>2. /\ q.at = "answering" /\ q.slot = 0 /\ q.reading = request[r].reading
        /\ q.kind = request[r].kind /\ q.snapshot = request[r].snapshot
        /\ q.base = request[r].base /\ q.answer = request[r].answer
        /\ q \in RequestState
    BY <1>1 DEF RequestState, Places
  <2>3. PlaceOK(q, Len(slots))
    BY <1>1, <2>2 DEF PlaceOK, Reads, Holding
  <2>4. EmptySlot \in SlotState /\ EmptySlot.holder = NoRequest
    BY EmptyTypes DEF EmptySlot
  <2> HIDE DEF q
  <2>5. SlotsOK(slots', slotOf', request')
    <3>1. /\ slots' \in Seq(SlotState) /\ Len(slots') = Len(slots)
          /\ RequestsOK(slots', request')
      BY <1>1, <1>2, <2>1, <2>2, <2>3, <2>4, SlotMoves DEF Holding
    <3> QED
      BY <3>1 DEF SlotsOK, Lock, Types
  <2> QED
    BY <2>5, TypesFromSlots DEF Lock, clientVars, Types
<1> QED
  BY <1>5, <1>6, <1>7

LEMMA AnswersTypes ==
  ASSUME Types, NEW r \in Requests, request[r].at = "tokenised",
         NEW slot \in SlotState, NEW answer \in ServerAnswer \cup {None},
         Answers(r, slot, answer)
  PROVE  Types'
<1> DEFINE s == request[r].slot
           q == [request[r] EXCEPT !.at = "answering", !.slot = 0, !.answer = answer]
           freed == [slot EXCEPT !.holder = NoRequest]
           all == [slots EXCEPT ![s] = freed]
<1>1. /\ request[r] \in RequestState
      /\ PlaceOK(request[r], Len(slots)) /\ s \in 1 .. Len(slots)
      /\ request[r].reading \in Reading /\ slots[s].holder = r
  BY DEF Types, PlaceOK, Reads, Holding, HolderOK
<1>2. /\ q.at = "answering" /\ q.slot = 0 /\ q.reading = request[r].reading
      /\ q.kind = request[r].kind /\ q.snapshot = request[r].snapshot
      /\ q.base = request[r].base /\ q.answer = answer
      /\ q \in RequestState
  BY <1>1 DEF RequestState, Places
<1>3. PlaceOK(q, Len(slots))
  BY <1>1, <1>2 DEF PlaceOK, Reads, Holding
<1>4. freed \in SlotState /\ freed.holder = NoRequest
  BY DEF SlotState
<1>5. request' = [request EXCEPT ![r] = q] /\ slots' = Kept(all, slotOf, request')
  BY DEF Answers, Types
<1> HIDE DEF q, freed
<1>6. all \in Seq(SlotState) /\ Len(all) = Len(slots) /\ RequestsOK(all, request')
  BY <1>1, <1>2, <1>3, <1>4, <1>5, SlotMoves DEF Holding
<1> HIDE DEF all
<1>7. SlotsOK(slots', slotOf', request')
  BY <1>5, <1>6, KeptTypes DEF Answers, Types
<1>8. nextId' \in Nat
  BY DEF Answers, Types
<1> QED
  BY <1>7, <1>8, TypesFromSlots DEF Answers, clientVars

-----------------------------------------------------------------------------
(* What a request answers.                                                  *)

(* The slot with the memo of the request's tokens: what it had published is  *)
(* still there, and shared only if it was and the memo is the one it had.    *)
MemoOf(r) == [key |-> Key(request[r].snapshot), reading |-> request[r].reading]

LEMMA SlotWithMemoKeeps ==
  ASSUME Types, NEW r \in Requests, request[r].at = "tokenised"
  PROVE  LET old == slots[request[r].slot]
             new == SlotWithMemo(r)
         IN  /\ old \in SlotState /\ new \in SlotState
             /\ MemoOf(r) \in MemoEntry /\ new.memo = MemoOf(r)
             /\ new.published = None <=> old.published = None
             /\ new.published # None =>
                  /\ new.published \in Publication /\ old.published \in Publication
                  /\ new.published.id = old.published.id
                  /\ new.published.data = old.published.data
                  /\ new.published.shared => old.published.shared /\ old.memo = new.memo
<1> DEFINE old == slots[request[r].slot]
           new == SlotWithMemo(r)
           memo == MemoOf(r)
<1>1. old \in SlotState
  BY ElementOfSeq DEF Types, PlaceOK, Holding
<1>2. memo \in MemoEntry
  BY DEF Types, PlaceOK, Reads, MemoOf, MemoEntry, MemoKey, Key, Snapshot
<1>3. CASE old.memo = memo
  <2>1. new = old
    BY <1>3 DEF SlotWithMemo, MemoOf
  <2> QED
    BY <1>1, <1>2, <1>3, <2>1 DEF SlotState
<1>4. CASE old.memo # memo
  <2> DEFINE published == IF old.published = None THEN None
                          ELSE [old.published EXCEPT !.shared = FALSE]
  <2>1. /\ published \in Publication \cup {None}
        /\ published = None <=> old.published = None
        /\ published # None =>
             /\ published \in Publication /\ old.published \in Publication
             /\ published.id = old.published.id /\ published.data = old.published.data
             /\ published.shared = FALSE
    <3>1. CASE old.published = None
      BY <3>1
    <3>2. CASE old.published # None
      <4>1. old.published \in Publication
        BY <1>1, <3>2 DEF SlotState
      <4>2. [old.published EXCEPT !.shared = FALSE] \in Publication
        BY <4>1 DEF Publication
      <4>3. [old.published EXCEPT !.shared = FALSE] # None
        BY <4>2, NoneIsNone
      <4> QED
        BY <3>2, <4>1, <4>2, <4>3 DEF Publication
    <3> QED
      BY <3>1, <3>2
  <2>2. new = [old EXCEPT !.memo = memo, !.published = published]
    BY <1>1, <1>4 DEF SlotWithMemo, Memoised, MemoOf, SlotState
  <2> HIDE DEF published
  <2>3. new \in SlotState /\ new.memo = memo /\ new.published = published
    BY <1>1, <1>2, <2>1, <2>2 DEF SlotState
  <2> QED
    BY <1>1, <1>2, <2>1, <2>3
<1> QED
  BY <1>3, <1>4

(* PublishFull as an answer.                                                *)
LEMMA FullAnswer ==
  ASSUME Types, NEW r \in Requests, request[r].at = "tokenised",
         NEW slot \in SlotState, slot.memo # None, PublishFull(r, slot)
  PROVE  \E new \in SlotState, id \in Nat :
           /\ Answers(r, new, [type |-> "tokens", id |-> id, edits |-> {}])
           /\ [type |-> "tokens", id |-> id, edits |-> {}] \in ServerAnswer
           /\ new.memo = slot.memo
           /\ \/ /\ new = slot /\ slot.published # None /\ slot.published.shared
                 /\ id = slot.published.id
              \/ /\ id = nextId
                 /\ new.published = [id |-> id, data |-> TokensOf(request[r].reading), shared |-> TRUE]
<1> DEFINE data == TokensOf(request[r].reading)
           same == slot.published # None /\ slot.published.shared
<1>1. data \in TokenData
  BY TokensAreData DEF Types, PlaceOK, Reads
<1>2. CASE same
  <2>1. slot.published.id \in Nat
    BY <1>2 DEF SlotState, Publication
  <2>2. Answers(r, slot, [type |-> "tokens", id |-> slot.published.id, edits |-> {}])
    BY <1>2 DEF PublishFull
  <2>3. [type |-> "tokens", id |-> slot.published.id, edits |-> {}] \in ServerAnswer
    BY <2>1 DEF ServerAnswer
  <2> QED
    BY <1>2, <2>1, <2>2, <2>3
<1>3. CASE ~same
  <2> DEFINE new == [slot EXCEPT !.published = [id |-> nextId, data |-> data, shared |-> TRUE]]
  <2>1. Answers(r, new, [type |-> "tokens", id |-> nextId, edits |-> {}])
    BY <1>3 DEF PublishFull, Publishes
  <2>2. nextId \in Nat
    BY DEF Types
  <2>3. [id |-> nextId, data |-> data, shared |-> TRUE] \in Publication
    BY <1>1, <2>2 DEF Publication
  <2>4. /\ new \in SlotState /\ new.memo = slot.memo
        /\ new.published = [id |-> nextId, data |-> data, shared |-> TRUE]
    BY <2>3 DEF SlotState
  <2>5. [type |-> "tokens", id |-> nextId, edits |-> {}] \in ServerAnswer
    BY <2>2 DEF ServerAnswer
  <2> HIDE DEF new
  <2> QED
    BY <2>1, <2>2, <2>4, <2>5
<1> QED
  BY <1>2, <1>3

(* The edits of a delta, when the client holds what is published.            *)
DeltaEdits(r) ==
  IF SlotWithMemo(r).published.shared THEN {}
  ELSE Edits(SlotWithMemo(r).published.data, TokensOf(request[r].reading))

LEMMA DeltaAnswer ==
  ASSUME Types, NEW r \in Requests, AnswerDelta(r),
         IsBaseline(SlotWithMemo(r).published, request[r].base.id)
  PROVE  \E new \in SlotState, id \in Nat :
           /\ Answers(r, new, [type |-> "edits", id |-> id, edits |-> DeltaEdits(r)])
           /\ [type |-> "edits", id |-> id, edits |-> DeltaEdits(r)] \in ServerAnswer
           /\ id = DeltaId(DeltaEdits(r), request[r].base.id)
           /\ new.memo = MemoOf(r)
           /\ new.published = [id |-> id, data |-> TokensOf(request[r].reading), shared |-> TRUE]
<1> DEFINE slot == SlotWithMemo(r)
           data == TokensOf(request[r].reading)
           id == DeltaId(DeltaEdits(r), request[r].base.id)
           new == [slot EXCEPT !.published = [id |-> id, data |-> data, shared |-> TRUE]]
<1>1. request[r].at = "tokenised" /\ request[r].kind = "delta"
  BY DEF AnswerDelta
<1>2. request[r].base \in ClientResult /\ data \in TokenData
  BY <1>1, TokensAreData DEF Types, PlaceOK, Reads
<1>3. /\ slot \in SlotState /\ slot.memo = MemoOf(r)
      /\ slot.published # None => slot.published \in Publication
  BY <1>1, SlotWithMemoKeeps
<1>4. slot.published \in Publication
  BY <1>3 DEF IsBaseline
<1>5. DeltaEdits(r) \in SUBSET EditOf(EncodedToken)
  <2>1. slot.published.data \in Seq(EncodedToken) /\ data \in Seq(EncodedToken)
    BY <1>2, <1>4 DEF Publication, TokenData
  <2>2. Edits(slot.published.data, data) \in SUBSET EditOf(EncodedToken)
    BY <2>1, EditsAreEdits
  <2> QED
    BY <2>2 DEF DeltaEdits
<1>6. id \in Nat
  BY <1>2 DEF DeltaId, ClientResult, Types
<1>7. Answers(r, new, [type |-> "edits", id |-> id, edits |-> DeltaEdits(r)])
  BY DEF AnswerDelta, DeltaEdits, Publishes
<1>8. [type |-> "edits", id |-> id, edits |-> DeltaEdits(r)] \in ServerAnswer
  BY <1>5, <1>6 DEF ServerAnswer
<1> HIDE DEF id, data, slot
<1>9. [id |-> id, data |-> data, shared |-> TRUE] \in Publication
  BY <1>2, <1>6 DEF Publication
<1>10. /\ new \in SlotState /\ new.memo = slot.memo
       /\ new.published = [id |-> id, data |-> data, shared |-> TRUE]
  BY <1>3, <1>9 DEF SlotState
<1> HIDE DEF new
<1> USE DEF id, data, slot
<1> QED
  BY <1>3, <1>6, <1>7, <1>8, <1>10

LEMMA AnswerTypes ==
  ASSUME Types, NEW r \in Requests, AnswerFull(r) \/ AnswerRange(r) \/ AnswerDelta(r)
  PROVE  Types'
<1>1. request[r].at = "tokenised"
  BY DEF AnswerFull, AnswerRange, AnswerDelta
<1>2. /\ SlotWithMemo(r) \in SlotState /\ SlotWithMemo(r).memo # None
  <2>1. MemoOf(r) \in MemoEntry
    BY <1>1, SlotWithMemoKeeps
  <2>2. SlotWithMemo(r) \in SlotState /\ SlotWithMemo(r).memo = MemoOf(r)
    BY <1>1, SlotWithMemoKeeps
  <2> QED
    BY <2>1, <2>2, NoneIsNone
<1>3. CASE PublishFull(r, SlotWithMemo(r))
  <2>1. PICK new \in SlotState, id \in Nat :
          /\ Answers(r, new, [type |-> "tokens", id |-> id, edits |-> {}])
          /\ [type |-> "tokens", id |-> id, edits |-> {}] \in ServerAnswer
    BY <1>1, <1>2, <1>3, FullAnswer
  <2> QED
    BY <1>1, <2>1, AnswersTypes
<1>4. CASE Answers(r, SlotWithMemo(r), None)
  BY <1>1, <1>2, <1>4, AnswersTypes
<1>5. CASE AnswerDelta(r) /\ IsBaseline(SlotWithMemo(r).published, request[r].base.id)
  <2>1. PICK new \in SlotState, id \in Nat :
          /\ Answers(r, new, [type |-> "edits", id |-> id, edits |-> DeltaEdits(r)])
          /\ [type |-> "edits", id |-> id, edits |-> DeltaEdits(r)] \in ServerAnswer
    BY <1>5, DeltaAnswer
  <2> QED
    BY <1>1, <2>1, AnswersTypes
<1> QED
  BY <1>3, <1>4, <1>5 DEF AnswerFull, AnswerRange, AnswerDelta

-----------------------------------------------------------------------------
(* Types are kept: the notifications.                                       *)
LEMMA EvictTypes ==
  ASSUME Types, Evict, UNCHANGED request
  PROVE  SlotsOK(slots', slotOf', request')
<1>1. RequestsOK(slots, request) /\ slots \in Seq(SlotState) /\ Len(slots) \in Nat
  BY DEF Types, RequestsOK
<1>2. 0 \in 0 .. Len(slots)
  BY <1>1
<1>3. SlotsOK(Kept(slots, 0, request), 0, request)
  BY <1>1, <1>2, KeptTypes
<1> QED
  BY <1>3 DEF Evict

LEMMA SessionMoves ==
  ASSUME Types, MayChange
  PROVE  workspace + 1 \in Nat /\ environment + 1 \in 0 .. MaxChanges
  BY BoundsAssumption DEF Types, MayChange

LEMMA NotificationTypes ==
  ASSUME Types, Notification
  PROVE  Types'
<1>1. MayChange
  BY DEF Notification, DidOpen, DidChange, DidClose, Refresh, UpdateShellSession
<1>2. CASE DidOpen
  <2>1. SlotsOK(slots', slotOf', request') /\ workspace' \in Nat
    BY <1>1, <1>2, EvictTypes, SessionMoves DEF DidOpen
  <2>2. doc' \in [version : Nat, text : Texts]
    BY <1>2 DEF DidOpen
  <2> QED
    BY <1>2, <2>1, <2>2 DEF DidOpen, Types, SlotsOK, RequestsOK, clientVars
<1>3. CASE DidChange
  <2>1. workspace' \in Nat
    BY <1>1, <1>3, SessionMoves DEF DidChange
  <2>2. doc' \in [version : Nat, text : Texts]
    BY <1>3 DEF DidChange, Types
  <2> QED
    BY <1>3, <2>1, <2>2 DEF DidChange, Types, cacheVars, clientVars
<1>4. CASE DidClose
  <2>1. SlotsOK(slots', slotOf', request') /\ workspace' \in Nat
    BY <1>1, <1>4, EvictTypes, SessionMoves DEF DidClose
  <2>2. doc' \in [version : Nat, text : Texts]
    BY <1>4 DEF DidClose, Types
  <2> QED
    BY <1>4, <2>1, <2>2 DEF DidClose, Types, SlotsOK, RequestsOK, clientVars
<1>5. CASE Refresh \/ UpdateShellSession
  <2>1. workspace' \in Nat /\ environment' \in 0 .. MaxChanges
    BY <1>1, <1>5, SessionMoves DEF Refresh, UpdateShellSession, Invalidate, Types
  <2> QED
    BY <1>5, <2>1 DEF Refresh, UpdateShellSession, Invalidate, Types, cacheVars, clientVars
<1> QED
  BY <1>2, <1>3, <1>4, <1>5 DEF Notification

-----------------------------------------------------------------------------
(* Result ids.  There is one meaning of every id that was given out, and     *)
(* what the client holds, what requests are based on and answer, and what    *)
(* slots have published keep to it.  Shared data is that of the memo.        *)
Names(meaning, next, id, data) == id < next /\ meaning[id] = data

SlotNames(meaning, next, slot) ==
  slot.published # None =>
    /\ Names(meaning, next, slot.published.id, slot.published.data)
    /\ slot.published.shared =>
         slot.memo # None /\ slot.published.data = TokensOf(slot.memo.reading)

RequestNames(meaning, next, q) ==
  /\ q.base # None => Names(meaning, next, q.base.id, q.base.data)
  /\ q.answer # None =>
       /\ RebuiltOf(q) = TokensOf(q.reading)
       /\ Names(meaning, next, q.answer.id, TokensOf(q.reading))

ResultNames(meaning) ==
  /\ held # None => Names(meaning, nextId, held.id, held.data)
  /\ \A s \in 1 .. Len(slots) : SlotNames(meaning, nextId, slots[s])
  /\ \A r \in Requests : RequestNames(meaning, nextId, request[r])

ResultInv == \E meaning \in [Nat -> TokenData] : ResultNames(meaning)

LEMMA ResultsSuffice == Types /\ ResultInv => DeltaRebuilds /\ OneResultPerId
<1> SUFFICES ASSUME Types, NEW meaning \in [Nat -> TokenData], ResultNames(meaning)
             PROVE  DeltaRebuilds /\ OneResultPerId
  BY DEF ResultInv
<1>1. \A r \in Requests : request[r].answer # None => Rebuilt(r) = TokensOf(request[r].reading)
  BY DEF ResultNames, RequestNames, Rebuilt, RebuiltOf
<1>2. ASSUME NEW a \in Results PROVE a.data = meaning[a.id]
  <2>1. DOMAIN slots = 1 .. Len(slots)
    BY DEF Types
  <2>2. CASE a \in {[id |-> held.id, data |-> held.data] : h \in {held} \ {None}}
    BY <2>2 DEF ResultNames, Names
  <2>3. CASE \E r \in Requests : /\ request[r].base # None
                                 /\ a = [id |-> request[r].base.id, data |-> request[r].base.data]
    BY <2>3 DEF ResultNames, RequestNames, Names
  <2>4. CASE \E r \in Requests : /\ request[r].answer # None
                                 /\ a = [id |-> request[r].answer.id, data |-> Rebuilt(r)]
    BY <1>1, <2>4 DEF ResultNames, RequestNames, Names
  <2>5. CASE \E s \in DOMAIN slots :
               /\ slots[s].published # None
               /\ a = [id |-> slots[s].published.id, data |-> slots[s].published.data]
    BY <2>1, <2>5 DEF ResultNames, SlotNames, Names
  <2> QED
    BY <1>2, <2>2, <2>3, <2>4, <2>5 DEF Results
<1>3. OneResultPerId
  BY <1>2 DEF OneResultPerId
<1> QED
  BY <1>1, <1>3 DEF DeltaRebuilds

(* A slot or a request with no result but what was there before.             *)
SlotFrom(new) ==
  \/ new.published = None
  \/ \E t \in 1 .. Len(slots) : new.published = slots[t].published /\ new.memo = slots[t].memo

RequestFrom(r, q) ==
  /\ q.base \in {None, held, request[r].base}
  /\ \/ q.answer = None
     \/ q.answer = request[r].answer /\ q.base = request[r].base /\ q.reading = request[r].reading

LEMMA ResultsStay ==
  ASSUME Types, NEW meaning \in [Nat -> TokenData], ResultNames(meaning),
         nextId' = nextId,
         held' # None => Names(meaning, nextId, held'.id, held'.data),
         \A s \in 1 .. Len(slots') : SlotFrom(slots'[s]),
         \A r \in Requests : RequestFrom(r, request'[r])
  PROVE  ResultInv'
<1>1. ASSUME NEW s \in 1 .. Len(slots') PROVE SlotNames(meaning, nextId, slots'[s])
  BY <1>1 DEF SlotFrom, SlotNames, ResultNames
<1>2. ASSUME NEW r \in Requests PROVE RequestNames(meaning, nextId, request'[r])
  <2>1. RequestNames(meaning, nextId, request[r]) /\ RequestFrom(r, request'[r])
    BY <1>2 DEF ResultNames
  <2>2. request'[r].base # None =>
          Names(meaning, nextId, request'[r].base.id, request'[r].base.data)
    BY <2>1 DEF RequestFrom, RequestNames, ResultNames
  <2>3. request'[r].answer # None => RebuiltOf(request'[r]) = RebuiltOf(request[r])
                                     /\ request'[r].answer = request[r].answer
                                     /\ request'[r].reading = request[r].reading
    BY <2>1 DEF RequestFrom, RebuiltOf
  <2> QED
    BY <2>1, <2>2, <2>3 DEF RequestNames
<1> QED
  BY <1>1, <1>2 DEF ResultInv, ResultNames

(* The meaning of an id that is given out with an answer is its tokens.      *)
LEMMA AnswerNames ==
  ASSUME Types, NEW meaning \in [Nat -> TokenData], ResultNames(meaning),
         NEW r \in Requests, request[r].at = "tokenised",
         NEW slot \in SlotState, NEW answer \in ServerAnswer \cup {None},
         Answers(r, slot, answer),
         answer # None =>
           /\ answer.id = nextId
                \/ Names(meaning, nextId, answer.id, TokensOf(request[r].reading))
           /\ answer.type = "edits" =>
                ApplyEdits(request[r].base.data, answer.edits) = TokensOf(request[r].reading),
         \/ SlotNames(meaning, nextId, slot)
         \/ /\ answer # None /\ slot.published.id = answer.id
            /\ slot.published.data = TokensOf(request[r].reading)
            /\ slot.memo = MemoOf(r)
  PROVE  ResultInv'
<1> DEFINE data == TokensOf(request[r].reading)
           fresh == answer # None /\ answer.id = nextId
           after == IF fresh THEN [meaning EXCEPT ![nextId] = data] ELSE meaning
           freed == [slot EXCEPT !.holder = NoRequest]
           all == [slots EXCEPT ![request[r].slot] = freed]
<1>1. data \in TokenData /\ nextId \in Nat
  BY TokensAreData DEF Types, PlaceOK, Reads
<1>2. after \in [Nat -> TokenData]
  BY <1>1
<1>3. nextId' = IF fresh THEN nextId + 1 ELSE nextId
  BY DEF Answers
<1>4. ASSUME NEW id \in Nat, NEW d, Names(meaning, nextId, id, d)
      PROVE  Names(after, nextId', id, d)
  BY <1>1, <1>3, <1>4 DEF Names
<1>5. answer # None => Names(after, nextId', answer.id, data)
  <2>1. CASE fresh
    BY <1>1, <1>3, <2>1 DEF Names
  <2>2. CASE ~fresh
    BY <1>3, <2>2 DEF Names
  <2> QED
    BY <2>1, <2>2
<1> HIDE DEF after, fresh, data
<1>6. held' = held /\ (held # None => Names(after, nextId', held.id, held.data))
  <2>1. held # None => held.id \in Nat
    BY DEF Types, ClientResult
  <2> QED
    BY <1>4, <2>1 DEF ResultNames, Answers, clientVars
<1>7. ASSUME NEW x \in SlotState, SlotNames(meaning, nextId, x)
      PROVE  SlotNames(after, nextId', x)
  <2>1. x.published # None => x.published.id \in Nat
    BY <1>7 DEF SlotState, Publication
  <2> QED
    BY <1>4, <1>7, <2>1 DEF SlotNames
<1>8. request[r].slot \in 1 .. Len(slots) /\ request[r].reading \in Reading
  BY DEF Types, PlaceOK, Holding, Reads
<1>9. freed \in SlotState /\ freed.published = slot.published /\ freed.memo = slot.memo
  BY DEF SlotState
<1>10. SlotNames(after, nextId', freed)
  <2>1. CASE SlotNames(meaning, nextId, slot)
    BY <1>7, <1>9, <2>1 DEF SlotNames
  <2>2. CASE /\ answer # None /\ slot.published.id = answer.id
             /\ slot.published.data = TokensOf(request[r].reading)
             /\ slot.memo = MemoOf(r)
    <3>1. MemoOf(r) # None /\ MemoOf(r).reading = request[r].reading
      <4>1. MemoOf(r) \in MemoEntry
        BY SlotWithMemoKeeps
      <4> QED
        BY <4>1, NoneIsNone DEF MemoOf
    <3> QED
      BY <1>5, <1>9, <2>2, <3>1 DEF SlotNames, data
  <2> QED
    BY <2>1, <2>2
<1> HIDE DEF freed
<1>11. ASSUME NEW s \in 1 .. Len(slots')
       PROVE  SlotNames(after, nextId', slots'[s])
  <2>1. /\ all \in Seq(SlotState) /\ Len(all) = Len(slots)
        /\ \A i \in 1 .. Len(slots) : all[i] = IF i = request[r].slot THEN freed ELSE slots[i]
    BY <1>8, <1>9, ExceptSeq DEF Types
  <2>2. slots' = Kept(all, slotOf, request')
    BY DEF Answers, freed
  <2> HIDE DEF all
  <2>3. Len(slots') = Len(slots) /\ slots'[s] \in {all[s], EmptySlot}
    BY <1>11, <2>1, <2>2, KeptSlots
  <2>4. SlotNames(after, nextId', EmptySlot)
    BY DEF SlotNames, EmptySlot
  <2>5. CASE slots'[s] = slots[s]
    <3>1. slots[s] \in SlotState /\ SlotNames(meaning, nextId, slots[s])
      BY <1>11, <2>3, ElementOfSeq DEF Types, ResultNames
    <3> QED
      BY <1>7, <2>5, <3>1
  <2> QED
    BY <1>10, <1>11, <2>1, <2>3, <2>4, <2>5
<1>12. ASSUME NEW x \in Requests
       PROVE  RequestNames(after, nextId', request'[x])
  <2>1. request[x] \in RequestState /\ RequestNames(meaning, nextId, request[x])
    BY DEF Types, ResultNames
  <2>2. /\ request[x].base # None => request[x].base.id \in Nat
        /\ request[x].answer # None => request[x].answer.id \in Nat
    BY <2>1 DEF RequestState, ClientResult, ServerAnswer
  <2>3. RequestNames(after, nextId', request[x])
    BY <1>4, <2>1, <2>2 DEF RequestNames
  <2>4. CASE x # r
    BY <2>3, <2>4 DEF Answers, Types
  <2>5. CASE x = r
    <3>1. /\ request'[r].base = request[r].base /\ request'[r].answer = answer
          /\ request'[r].reading = request[r].reading
      BY DEF Answers, Types, RequestState
    <3>2. answer # None => RebuiltOf(request'[r]) = data
      BY <3>1 DEF RebuiltOf, data
    <3> QED
      BY <1>5, <2>3, <2>5, <3>1, <3>2 DEF RequestNames, data
  <2> QED
    BY <2>4, <2>5
<1>13. PICK final \in [Nat -> TokenData] : final = after
  BY <1>2
<1>14. ResultNames(final)'
  BY <1>6, <1>11, <1>12, <1>13 DEF ResultNames
<1> QED
  BY <1>14 DEF ResultInv

(* The slot keeps to the meaning with the memo of the request's tokens.      *)
LEMMA MemoNames ==
  ASSUME Types, NEW meaning \in [Nat -> TokenData], ResultNames(meaning),
         NEW r \in Requests, request[r].at = "tokenised"
  PROVE  SlotNames(meaning, nextId, SlotWithMemo(r))
<1> DEFINE old == slots[request[r].slot]
           new == SlotWithMemo(r)
<1>1. SlotNames(meaning, nextId, old)
  BY DEF Types, PlaceOK, Holding, ResultNames
<1>2. /\ new.published = None <=> old.published = None
      /\ new.published # None =>
           /\ new.published.id = old.published.id /\ new.published.data = old.published.data
           /\ new.published.shared => old.published.shared /\ old.memo = new.memo
  BY SlotWithMemoKeeps
<1> HIDE DEF old, new
<1>3. SlotNames(meaning, nextId, new)
  BY <1>1, <1>2 DEF SlotNames
<1> QED
  BY <1>3 DEF new

LEMMA FullNames ==
  ASSUME Types, NEW meaning \in [Nat -> TokenData], ResultNames(meaning),
         NEW r \in Requests, request[r].at = "tokenised", PublishFull(r, SlotWithMemo(r))
  PROVE  ResultInv'
<1> DEFINE slot == SlotWithMemo(r)
           data == TokensOf(request[r].reading)
<1>1. /\ slot \in SlotState /\ MemoOf(r) \in MemoEntry /\ slot.memo = MemoOf(r)
  BY SlotWithMemoKeeps
<1>2. slot.memo # None
  BY <1>1, NoneIsNone
<1>3. PICK new \in SlotState, id \in Nat :
        /\ Answers(r, new, [type |-> "tokens", id |-> id, edits |-> {}])
        /\ [type |-> "tokens", id |-> id, edits |-> {}] \in ServerAnswer
        /\ new.memo = slot.memo
        /\ \/ /\ new = slot /\ slot.published # None /\ slot.published.shared
              /\ id = slot.published.id
           \/ /\ id = nextId
              /\ new.published = [id |-> id, data |-> data, shared |-> TRUE]
  BY <1>1, <1>2, FullAnswer
<1> DEFINE answer == [type |-> "tokens", id |-> id, edits |-> {}]
<1>4. answer \in ServerAnswer /\ answer.id = id /\ answer.type # "edits" /\ answer # None
  BY <1>3, NoneIsNone
<1>5. Answers(r, new, answer)
  BY <1>3
<1>6. SlotNames(meaning, nextId, slot)
  BY MemoNames
<1> HIDE DEF slot, answer
<1>7. CASE /\ new = slot /\ slot.published # None /\ slot.published.shared
           /\ id = slot.published.id
  <2>1. slot.published.data = data
    BY <1>1, <1>6, <1>7 DEF SlotNames, MemoOf
  <2>2. Names(meaning, nextId, answer.id, data)
    BY <1>4, <1>6, <1>7, <2>1 DEF SlotNames
  <2> QED
    BY <1>4, <1>5, <1>6, <1>7, <2>2, AnswerNames
<1>8. CASE id = nextId /\ new.published = [id |-> id, data |-> data, shared |-> TRUE]
  <2>1. /\ new.published.id = answer.id /\ new.published.data = data
        /\ new.memo = MemoOf(r) /\ answer.id = nextId
    BY <1>1, <1>3, <1>4, <1>8
  <2> QED
    BY <1>4, <1>5, <2>1, AnswerNames
<1> QED
  BY <1>3, <1>7, <1>8

LEMMA DeltaNames ==
  ASSUME Types, NEW meaning \in [Nat -> TokenData], ResultNames(meaning),
         NEW r \in Requests, AnswerDelta(r),
         IsBaseline(SlotWithMemo(r).published, request[r].base.id)
  PROVE  ResultInv'
<1> DEFINE slot == SlotWithMemo(r)
           data == TokensOf(request[r].reading)
           base == request[r].base
           edits == DeltaEdits(r)
<1>1. request[r].at = "tokenised" /\ request[r].kind = "delta"
  BY DEF AnswerDelta
<1>2. base \in ClientResult /\ base # None /\ data \in TokenData
  BY <1>1, TokensAreData, NoneIsNone DEF Types, PlaceOK, Reads
<1>3. /\ slot.memo = MemoOf(r) /\ SlotNames(meaning, nextId, slot)
      /\ slot.published # None /\ slot.published \in Publication
      /\ slot.published.id = base.id
  <2>1. slot.memo = MemoOf(r) /\ (slot.published # None => slot.published \in Publication)
    BY <1>1, SlotWithMemoKeeps
  <2> QED
    BY <1>1, <2>1, MemoNames DEF IsBaseline
<1>4. Names(meaning, nextId, base.id, base.data)
  BY <1>2 DEF ResultNames, RequestNames
<1>5. slot.published.data = base.data /\ base.data \in Seq(EncodedToken)
  BY <1>2, <1>3, <1>4 DEF SlotNames, Names, ClientResult, TokenData
<1>6. ApplyEdits(base.data, edits) = data
  <2>1. CASE slot.published.shared
    <3>1. edits = {} /\ base.data = data
      BY <1>3, <1>5, <2>1 DEF SlotNames, MemoOf, DeltaEdits
    <3> QED
      BY <3>1 DEF ApplyEdits
  <2>2. CASE ~slot.published.shared
    <3>1. edits = Edits(base.data, data)
      BY <1>5, <2>2 DEF DeltaEdits
    <3> QED
      BY <1>2, <1>5, <3>1, EditsRebuild DEF TokenData
  <2> QED
    BY <2>1, <2>2
<1>7. PICK new \in SlotState, id \in Nat :
        /\ Answers(r, new, [type |-> "edits", id |-> id, edits |-> edits])
        /\ [type |-> "edits", id |-> id, edits |-> edits] \in ServerAnswer
        /\ id = DeltaId(edits, base.id)
        /\ new.memo = MemoOf(r)
        /\ new.published = [id |-> id, data |-> data, shared |-> TRUE]
  BY DeltaAnswer
<1> DEFINE answer == [type |-> "edits", id |-> id, edits |-> edits]
<1> HIDE DEF slot, edits
<1>8. answer \in ServerAnswer /\ answer.id = id /\ answer.edits = edits
  BY <1>7
<1>9. id = nextId \/ Names(meaning, nextId, id, data)
  <2>1. CASE edits = {}
    <3>1. id = base.id /\ base.data = data
      BY <1>6, <1>7, <2>1 DEF DeltaId, ApplyEdits
    <3> QED
      BY <1>4, <3>1
  <2>2. CASE edits # {}
    BY <1>7, <2>2 DEF DeltaId
  <2> QED
    BY <2>1, <2>2
<1>10. answer # None
  BY <1>8, NoneIsNone
<1>11. Answers(r, new, answer)
  BY <1>7
<1>12. new.published.id = answer.id /\ new.published.data = data /\ new.memo = MemoOf(r)
  BY <1>7
<1> HIDE DEF answer
<1> QED
  BY <1>1, <1>6, <1>8, <1>9, <1>10, <1>11, <1>12, AnswerNames

(* Steps that leave the slots alone add no result.                           *)
LEMMA SameSlots ==
  ASSUME Types, UNCHANGED slots
  PROVE  \A s \in 1 .. Len(slots') : SlotFrom(slots'[s])
  BY DEF SlotFrom

LEMMA EvictedSlots ==
  ASSUME Types, Evict
  PROVE  \A s \in 1 .. Len(slots') : SlotFrom(slots'[s])
<1>1. /\ Len(slots') = Len(slots)
      /\ \A s \in 1 .. Len(slots) : slots'[s] \in {slots[s], EmptySlot}
  BY KeptSlots DEF Evict, Types
<1>2. EmptySlot.published = None
  BY DEF EmptySlot
<1> QED
  BY <1>1, <1>2 DEF SlotFrom

LEMMA OtherResults ==
  ASSUME Types, NEW r \in Requests, NEW q, request' = [request EXCEPT ![r] = q],
         RequestFrom(r, q)
  PROVE  \A x \in Requests : RequestFrom(x, request'[x])
<1>1. \A x \in Requests : RequestFrom(x, request[x])
  BY DEF RequestFrom
<1> QED
  BY <1>1 DEF Types

LEMMA NotificationResults ==
  ASSUME Types, ResultInv, Notification \/ Forget
  PROVE  ResultInv'
<1>1. PICK meaning \in [Nat -> TokenData] : ResultNames(meaning)
  BY DEF ResultInv
<1>2. nextId' = nextId /\ request' = request /\ held' = held
  BY DEF Notification, DidOpen, DidChange, DidClose, Refresh, UpdateShellSession, Forget,
         cacheVars, clientVars
<1>3. \A s \in 1 .. Len(slots') : SlotFrom(slots'[s])
  <2>1. Evict \/ UNCHANGED slots
    BY DEF Notification, DidOpen, DidChange, DidClose, Refresh, UpdateShellSession, Forget,
           cacheVars
  <2> QED
    BY <2>1, SameSlots, EvictedSlots
<1>4. \A r \in Requests : RequestFrom(r, request'[r])
  BY <1>2 DEF RequestFrom
<1>5. held' # None => Names(meaning, nextId, held'.id, held'.data)
  BY <1>1, <1>2 DEF ResultNames
<1> QED
  BY <1>1, <1>2, <1>3, <1>4, <1>5, ResultsStay

LEMMA HandlingResults ==
  ASSUME Types, ResultInv, NEW r \in Requests,
         Dispatch(r) \/ Cancel(r) \/ Begin(r) \/ Lock(r) \/ Analysis(r) \/ Deliver(r)
  PROVE  ResultInv'
<1>1. PICK meaning \in [Nat -> TokenData] : ResultNames(meaning)
  BY DEF ResultInv
<1>2. request[r] \in RequestState /\ PlaceOK(request[r], Len(slots))
  BY DEF Types
<1>3. nextId' = nextId
  BY DEF Dispatch, Cancel, Begin, Lock, Analysis, Lookup, Resolve, Compare, Insert, Deliver,
         cacheVars
<1>4. \A x \in Requests : RequestFrom(x, request'[x])
  <2>1. CASE Dispatch(r)
    <3>1. PICK kind \in {"full", "range", "delta"} :
            request' = [request EXCEPT ![r] =
              [Idle EXCEPT !.at = "queued", !.kind = kind, !.snapshot = Current,
                           !.base = IF kind = "delta" THEN held ELSE None]]
      BY <2>1 DEF Dispatch
    <3> DEFINE q == [Idle EXCEPT !.at = "queued", !.kind = kind, !.snapshot = Current,
                                 !.base = IF kind = "delta" THEN held ELSE None]
    <3>2. q.answer = None /\ q.base \in {held, None}
      BY DEF Idle
    <3> HIDE DEF q
    <3>3. RequestFrom(r, q)
      BY <3>2 DEF RequestFrom
    <3> QED
      BY <3>1, <3>3, OtherResults DEF q
  <2>2. CASE Cancel(r)
    <3> DEFINE q == [request[r] EXCEPT !.cancelled = TRUE]
    <3>1. /\ q.base = request[r].base /\ q.answer = request[r].answer
          /\ q.reading = request[r].reading
      BY <1>2 DEF RequestState
    <3>2. request' = [request EXCEPT ![r] = q]
      BY <2>2 DEF Cancel, Types
    <3> HIDE DEF q
    <3> QED
      BY <3>1, <3>2, OtherResults DEF RequestFrom
  <2>3. CASE request' = [request EXCEPT ![r] = Idle]
    <3>1. RequestFrom(r, Idle)
      BY DEF RequestFrom, Idle
    <3> QED
      BY <2>3, <3>1, OtherResults
  <2>4. CASE request[r].answer = None /\ request'[r].answer = request[r].answer
             /\ request'[r].base = request[r].base
             /\ \A x \in Requests \ {r} : request'[x] = request[x]
    BY <2>4 DEF RequestFrom
  <2>5. request[r].at # "answering" => request[r].answer = None
    BY <1>2 DEF PlaceOK
  <2>6. CASE Begin(r)
    <3>1. CASE request[r].cancelled
      BY <2>3, <2>6, <3>1 DEF Begin
    <3>2. CASE ~request[r].cancelled
      <4>1. request' = [request EXCEPT ![r].at = "locking", ![r].slot = slotOf']
        BY <2>6, <3>2 DEF Begin
      <4> QED
        BY <1>2, <2>4, <2>5, <2>6, <4>1 DEF Begin, Types, RequestState
    <3> QED
      BY <3>1, <3>2
  <2>7. CASE Lock(r)
    <3>1. /\ request'[r].answer = request[r].answer /\ request'[r].base = request[r].base
          /\ \A x \in Requests \ {r} : request'[x] = request[x]
      <4>1. CASE request' = [request EXCEPT ![r].at = "tokenised", ![r].reading = Memo(r).reading]
        BY <1>2, <4>1 DEF Types, RequestState
      <4>2. CASE request' = [request EXCEPT ![r].at = "looking up"]
        BY <1>2, <4>2 DEF Types, RequestState
      <4>3. CASE request' = [request EXCEPT ![r].at = "answering", ![r].slot = 0]
        BY <1>2, <4>3 DEF Types, RequestState
      <4> QED
        BY <2>7, <4>1, <4>2, <4>3 DEF Lock
    <3> QED
      BY <2>4, <2>5, <2>7, <3>1 DEF Lock
  <2>8. CASE Analysis(r)
    <3>1. /\ request'[r].answer = request[r].answer /\ request'[r].base = request[r].base
          /\ \A x \in Requests \ {r} : request'[x] = request[x]
      <4>1. ASSUME NEW place, NEW reading,
                   request' = [request EXCEPT ![r].at = place, ![r].reading = reading]
            PROVE  /\ request'[r].answer = request[r].answer /\ request'[r].base = request[r].base
                   /\ \A x \in Requests \ {r} : request'[x] = request[x]
        BY <1>2, <4>1 DEF Types, RequestState
      <4>2. CASE Lookup(r) \/ Insert(r)
        <5>1. CASE \E a \in analyses : a.snapshot = request[r].snapshot /\ Have(r, a.reading)
          BY <4>1, <5>1 DEF Have
        <5>2. CASE request' = [request EXCEPT ![r].at = "tokenised"]
          BY <1>2, <5>2 DEF Types, RequestState
        <5> QED
          BY <4>1, <4>2, <5>1, <5>2 DEF Lookup, Insert
      <4>3. CASE Resolve(r)
        BY <1>2, <4>3 DEF Resolve, Types, RequestState
      <4>4. CASE Compare(r)
        BY <1>2, <4>4 DEF Compare, Types, RequestState
      <4> QED
        BY <2>8, <4>2, <4>3, <4>4 DEF Analysis
    <3>2. request[r].at # "answering"
      BY <2>8 DEF Analysis, Lookup, Resolve, Compare, Insert
    <3> QED
      BY <2>4, <2>5, <3>1, <3>2
  <2>9. CASE Deliver(r)
    BY <2>3, <2>9 DEF Deliver
  <2> QED
    BY <2>1, <2>2, <2>6, <2>7, <2>8, <2>9
<1>5. \A s \in 1 .. Len(slots') : SlotFrom(slots'[s])
  <2>1. CASE Begin(r)
    <3>1. CASE slots' = Append(slots, EmptySlot)
      <4>1. /\ Len(slots') = Len(slots) + 1
            /\ \A i \in 1 .. Len(slots) : slots'[i] = slots[i]
            /\ slots'[Len(slots) + 1] = EmptySlot
        BY <3>1, AppendProperties, EmptyTypes DEF Types
      <4>2. EmptySlot.published = None
        BY DEF EmptySlot
      <4>3. Len(slots) \in Nat
        BY DEF Types
      <4>4. ASSUME NEW s \in 1 .. Len(slots') PROVE s \in 1 .. Len(slots) \/ s = Len(slots) + 1
        BY <4>1, <4>3, <4>4
      <4> QED
        BY <4>1, <4>2, <4>4 DEF SlotFrom
    <3>2. CASE UNCHANGED slots
      BY <3>2, SameSlots
    <3> QED
      BY <2>1, <3>1, <3>2 DEF Begin
  <2>2. CASE Lock(r)
    <3> DEFINE s == request[r].slot
               taken == [slots[s] EXCEPT !.holder = r]
    <3>1. s \in 1 .. Len(slots) /\ slots[s] \in SlotState
      BY <1>2, <2>2, ElementOfSeq DEF Lock, PlaceOK, Types
    <3>2. taken \in SlotState /\ taken.published = slots[s].published /\ taken.memo = slots[s].memo
      BY <3>1 DEF SlotState
    <3>3. PICK slot \in {taken, EmptySlot} : slots' = [slots EXCEPT ![s] = slot]
      BY <2>2 DEF Lock, Types
    <3>4. EmptySlot.published = None /\ EmptySlot \in SlotState
      BY EmptyTypes DEF EmptySlot
    <3> HIDE DEF taken
    <3>5. /\ Len(slots') = Len(slots)
          /\ \A i \in 1 .. Len(slots) : slots'[i] = IF i = s THEN slot ELSE slots[i]
      BY <3>1, <3>2, <3>3, <3>4, ExceptSeq DEF Types
    <3>6. SlotFrom(slot)
      BY <3>1, <3>2, <3>3, <3>4 DEF SlotFrom
    <3> QED
      BY <3>5, <3>6 DEF SlotFrom
  <2>3. CASE UNCHANGED slots
    BY <2>3, SameSlots
  <2> QED
    BY <2>1, <2>2, <2>3 DEF Dispatch, Cancel, Analysis, Lookup, Resolve, Compare, Insert, Deliver,
                            cacheVars
<1>6. held' # None => Names(meaning, nextId, held'.id, held'.data)
  <2>1. CASE held' = held
    BY <1>1, <2>1 DEF ResultNames
  <2>2. CASE /\ request[r].answer # None
             /\ held' = [id |-> request[r].answer.id, data |-> Rebuilt(r)]
    <3>1. RequestNames(meaning, nextId, request[r])
      BY <1>1 DEF ResultNames
    <3>2. Rebuilt(r) = RebuiltOf(request[r])
      BY DEF Rebuilt, RebuiltOf
    <3> QED
      BY <2>2, <3>1, <3>2 DEF RequestNames
  <2> QED
    BY <2>1, <2>2 DEF Dispatch, Cancel, Begin, Lock, Analysis, Lookup, Resolve, Compare, Insert,
                      Deliver, clientVars
<1> QED
  BY <1>1, <1>3, <1>4, <1>5, <1>6, ResultsStay

LEMMA InitTypes == Init => Types
<1> SUFFICES ASSUME Init PROVE Types
  OBVIOUS
<1>1. slots \in Seq(SlotState) /\ Len(slots) = 0
  BY EmptySeq DEF Init
<1>2. environment \in 0 .. MaxChanges
  BY BoundsAssumption DEF Init
<1>3. request \in [Requests -> RequestState] /\ \A r \in Requests : request[r] = Idle
  BY EmptyTypes DEF Init
<1>4. doc \in [version : Nat, text : Texts]
  BY DEF Init
<1>5. \A r \in Requests : PlaceOK(request[r], Len(slots))
  BY <1>3, EmptyTypes
<1> QED
  BY <1>1, <1>2, <1>3, <1>4, <1>5 DEF Init, Types

LEMMA InitResults == Init => ResultInv
<1> SUFFICES ASSUME Init PROVE ResultInv
  OBVIOUS
<1>1. <<>> \in TokenData
  BY EmptySeq DEF TokenData
<1>2. PICK meaning \in [Nat -> TokenData] : meaning = [id \in Nat |-> <<>>]
  BY <1>1
<1>3. Len(slots) = 0 /\ held = None
  BY EmptySeq DEF Init
<1>4. \A r \in Requests : RequestNames(meaning, nextId, request[r])
  BY DEF Init, Idle, RequestNames
<1>5. ResultNames(meaning)
  BY <1>3, <1>4 DEF ResultNames
<1> QED
  BY <1>5 DEF ResultInv

LEMMA StepTypes ==
  ASSUME Types, ResultInv, [Next]_vars
  PROVE  Types'
<1>1. CASE Notification
  BY <1>1, NotificationTypes
<1>2. CASE Forget
  BY <1>2 DEF Forget, Types, sessionVars, cacheVars, clientVars
<1>3. ASSUME NEW r \in Requests, Dispatch(r) \/ Cancel(r) \/ Handling(r)
      PROVE  Types'
  <2>1. CASE Dispatch(r) \/ Cancel(r)
    BY <2>1, DispatchTypes, CancelTypes
  <2>2. CASE Begin(r) \/ Lock(r)
    BY <2>2, BeginTypes, LockTypes
  <2>3. CASE Analysis(r)
    BY <2>3, LookupTypes, ResolveTypes, CompareTypes, InsertTypes DEF Analysis
  <2>4. CASE AnswerFull(r) \/ AnswerRange(r) \/ AnswerDelta(r)
    BY <2>4, AnswerTypes
  <2>5. CASE Deliver(r)
    <3>1. ASSUME request[r].answer # None PROVE Rebuilt(r) \in TokenData
      <4>1. request[r].at = "answering" /\ DeltaRebuilds /\ request[r].reading \in Reading
        BY <2>5, <3>1, ResultsSuffice DEF Deliver, Types, PlaceOK
      <4> QED
        BY <3>1, <4>1, TokensAreData DEF DeltaRebuilds
    <3> QED
      BY <2>5, <3>1, DeliverTypes
  <2> QED
    BY <1>3, <2>1, <2>2, <2>3, <2>4, <2>5 DEF Handling
<1>4. CASE UNCHANGED vars
  BY <1>4 DEF vars, Types, sessionVars, cacheVars, clientVars
<1> QED
  BY <1>1, <1>2, <1>3, <1>4 DEF Next

LEMMA StepResults ==
  ASSUME Types, ResultInv, [Next]_vars
  PROVE  ResultInv'
<1>1. CASE Notification \/ Forget
  BY <1>1, NotificationResults
<1>2. ASSUME NEW r \in Requests, Dispatch(r) \/ Cancel(r) \/ Handling(r)
      PROVE  ResultInv'
  <2>1. CASE Dispatch(r) \/ Cancel(r) \/ Begin(r) \/ Lock(r) \/ Analysis(r) \/ Deliver(r)
    BY <2>1, HandlingResults
  <2>2. PICK meaning \in [Nat -> TokenData] : ResultNames(meaning)
    BY DEF ResultInv
  <2>3. CASE AnswerRange(r)
    <3>1. request[r].at = "tokenised" /\ Answers(r, SlotWithMemo(r), None)
      BY <2>3 DEF AnswerRange
    <3>2. SlotWithMemo(r) \in SlotState
      BY <3>1, SlotWithMemoKeeps
    <3> QED
      BY <2>2, <3>1, <3>2, MemoNames, AnswerNames
  <2>4. CASE (AnswerFull(r) \/ AnswerDelta(r)) /\ PublishFull(r, SlotWithMemo(r))
    <3>1. request[r].at = "tokenised"
      BY <2>4 DEF AnswerFull, AnswerDelta
    <3> QED
      BY <2>2, <2>4, <3>1, FullNames
  <2>5. CASE AnswerDelta(r) /\ IsBaseline(SlotWithMemo(r).published, request[r].base.id)
    BY <2>2, <2>5, DeltaNames
  <2>6. AnswerFull(r) => PublishFull(r, SlotWithMemo(r))
    BY DEF AnswerFull
  <2>7. AnswerDelta(r) => \/ PublishFull(r, SlotWithMemo(r))
                          \/ IsBaseline(SlotWithMemo(r).published, request[r].base.id)
    BY DEF AnswerDelta
  <2> QED
    BY <1>2, <2>1, <2>3, <2>4, <2>5, <2>6, <2>7 DEF Handling
<1>3. CASE UNCHANGED vars
  BY <1>3 DEF vars, ResultInv, ResultNames, cacheVars, clientVars
<1> QED
  BY <1>1, <1>2, <1>3 DEF Next

(* In every reachable state the variables have their types, and a slot's     *)
(* mutex has the one holder that is between its lock and its answer.         *)
THEOREM TokensTypeCorrect == Spec => []TypeOK
<1>1. Init => Types /\ ResultInv
  BY InitTypes, InitResults
<1>2. Types /\ ResultInv /\ [Next]_vars => (Types /\ ResultInv)'
  BY StepTypes, StepResults
<1>3. Types => TypeOK
  BY TypesSuffice
<1> QED
  BY <1>1, <1>2, <1>3, PTL DEF Spec

(* A result id names one result for the whole session (publish and delta of  *)
(* SemanticTokensCache, for any number of requests, slots and changes).      *)
THEOREM IdsNameResults == Spec => []OneResultPerId
<1>1. Init => Types /\ ResultInv
  BY InitTypes, InitResults
<1>2. Types /\ ResultInv /\ [Next]_vars => (Types /\ ResultInv)'
  BY StepTypes, StepResults
<1>3. Types /\ ResultInv => OneResultPerId
  BY ResultsSuffice
<1> QED
  BY <1>1, <1>2, <1>3, PTL DEF Spec

(* What a client rebuilds from a delta is what the server tokenised.         *)
THEOREM DeltasAreRight == Spec => []DeltaRebuilds
<1>1. Init => Types /\ ResultInv
  BY InitTypes, InitResults
<1>2. Types /\ ResultInv /\ [Next]_vars => (Types /\ ResultInv)'
  BY StepTypes, StepResults
<1>3. Types /\ ResultInv => DeltaRebuilds
  BY ResultsSuffice
<1> QED
  BY <1>1, <1>2, <1>3, PTL DEF Spec

-----------------------------------------------------------------------------
(* Whose state a request is answered from.  The text of the document is a    *)
(* function of the workspace epoch, since every notification that changes    *)
(* the one moves the other; so a memo found by its key is of the same text.  *)
(* A reading's environment is no older than its key's.                       *)
SnapshotOwn(textAt, w, e, snapshot) ==
  /\ snapshot.workspace <= w
  /\ snapshot.environment <= e
  /\ snapshot.text = textAt[snapshot.workspace]

ReadingOwn(snapshot, reading) ==
  /\ reading.text = snapshot.text
  /\ reading.environment >= snapshot.environment

RequestOwn(textAt, w, e, q) ==
  q.at # "idle" =>
    /\ SnapshotOwn(textAt, w, e, q.snapshot)
    /\ q.reading # None => ReadingOwn(q.snapshot, q.reading)
    /\ q.at = "comparing" /\ ~q.reading.complete => q.cancelled \/ q.snapshot.workspace < w
    /\ q.at = "inserting" /\ ~q.reading.complete => q.snapshot.workspace < w

MemoOwn(textAt, w, memo) ==
  memo # None =>
    /\ memo.key.workspace <= w
    /\ memo.reading.text = textAt[memo.key.workspace]
    /\ memo.reading.environment >= memo.key.environment

AnalysisOwn(w, a) ==
  /\ ReadingOwn(a.snapshot, a.reading)
  /\ a.snapshot.workspace <= w
  /\ ~a.reading.complete => a.snapshot.workspace < w

OwnWith(textAt) ==
  /\ textAt[workspace] = doc.text
  /\ \A s \in 1 .. Len(slots) : MemoOwn(textAt, workspace, slots[s].memo)
  /\ \A a \in analyses : AnalysisOwn(workspace, a)
  /\ \A r \in Requests : RequestOwn(textAt, workspace, environment, request[r])

OwnInv == \E textAt \in [Nat -> Texts] : OwnWith(textAt)

LEMMA OwnSuffices == Types /\ OwnInv => OwnState /\ SharedAnalysisComplete
<1> SUFFICES ASSUME Types, NEW textAt \in [Nat -> Texts], OwnWith(textAt)
             PROVE  OwnState /\ SharedAnalysisComplete
  BY DEF OwnInv
<1>1. OwnState
  BY DEF OwnState, OwnWith, RequestOwn, ReadingOwn
<1>2. ASSUME NEW a \in analyses, a.snapshot.workspace = workspace PROVE a.reading.complete
  <2>1. AnalysisOwn(workspace, a) /\ workspace \in Nat
    BY <1>2 DEF OwnWith, Types
  <2> QED
    BY <1>2, <2>1 DEF AnalysisOwn
<1> QED
  BY <1>1, <1>2 DEF SharedAnalysisComplete

LEMMA InitOwn == Init => OwnInv
<1> SUFFICES ASSUME Init PROVE OwnInv
  OBVIOUS
<1>1. doc.text \in Texts
  BY DEF Init
<1>2. PICK textAt \in [Nat -> Texts] : textAt = [w \in Nat |-> doc.text]
  BY <1>1
<1>3. Len(slots) = 0
  BY EmptySeq DEF Init
<1>4. OwnWith(textAt)
  BY <1>2, <1>3 DEF Init, OwnWith, RequestOwn, Idle
<1> QED
  BY <1>4 DEF OwnInv

(* A step of the session: the epoch's new text, and all else is older.       *)
LEMMA NotificationOwn ==
  ASSUME Types, OwnInv, Notification
  PROVE  OwnInv'
<1>1. PICK textAt \in [Nat -> Texts] : OwnWith(textAt)
  BY DEF OwnInv
<1>2. /\ workspace \in Nat /\ environment \in Nat
      /\ workspace' \in {workspace, workspace + 1} /\ environment' \in {environment, environment + 1}
      /\ analyses' \subseteq analyses /\ request' = request
      /\ workspace' = workspace => doc'.text = doc.text
      /\ doc'.text \in Texts
  BY BoundsAssumption DEF Types, Notification, DidOpen, DidChange, DidClose, Refresh,
         UpdateShellSession, Invalidate, cacheVars
<1>3. PICK final \in [Nat -> Texts] : final = [textAt EXCEPT ![workspace'] = doc'.text]
  BY <1>2
<1>4. /\ workspace' \in Nat /\ workspace <= workspace'
      /\ environment' \in Nat /\ environment <= environment'
      /\ \A w \in Nat : w <= workspace => final[w] = textAt[w]
      /\ final[workspace'] = doc'.text
  BY <1>1, <1>2, <1>3 DEF OwnWith
<1>5. ASSUME NEW memo \in MemoEntry \cup {None}, MemoOwn(textAt, workspace, memo)
      PROVE  MemoOwn(final, workspace', memo)
  <2>1. memo # None => memo.key.workspace \in Nat
    BY <1>5 DEF MemoEntry, MemoKey
  <2> QED
    BY <1>2, <1>4, <1>5, <2>1 DEF MemoOwn
<1>6. ASSUME NEW s \in 1 .. Len(slots') PROVE MemoOwn(final, workspace', slots'[s].memo)
  <2>1. \A i \in 1 .. Len(slots) :
          slots[i].memo \in MemoEntry \cup {None} /\ MemoOwn(textAt, workspace, slots[i].memo)
    <3>1. \A i \in 1 .. Len(slots) : slots[i] \in SlotState
      BY ElementOfSeq DEF Types
    <3> QED
      BY <1>1, <3>1 DEF OwnWith, SlotState
  <2>2. \A i \in 1 .. Len(slots) : MemoOwn(final, workspace', slots[i].memo)
    BY <1>5, <2>1
  <2>3. MemoOwn(final, workspace', EmptySlot.memo)
    BY DEF MemoOwn, EmptySlot
  <2>4. Len(slots') = Len(slots) /\ slots'[s] \in {slots[s], EmptySlot}
    <3>1. CASE Evict
      BY <1>6, <3>1, KeptSlots DEF Evict, Types
    <3>2. CASE UNCHANGED slots
      BY <3>2
    <3> QED
      BY <3>1, <3>2 DEF Notification, DidOpen, DidChange, DidClose, Refresh,
                        UpdateShellSession, cacheVars
  <2> QED
    BY <1>6, <2>2, <2>3, <2>4
<1>7. ASSUME NEW a \in analyses' PROVE AnalysisOwn(workspace', a)
  <2>1. a.snapshot.workspace \in Nat /\ AnalysisOwn(workspace, a)
    BY <1>1, <1>2, <1>7 DEF Types, Analysed, Snapshot, OwnWith
  <2> QED
    BY <1>2, <1>4, <2>1 DEF AnalysisOwn
<1>8. ASSUME NEW r \in Requests
      PROVE  RequestOwn(final, workspace', environment', request'[r])
  <2>1. CASE request[r].at = "idle"
    BY <1>2, <2>1 DEF RequestOwn
  <2>2. CASE request[r].at # "idle"
    <3>1. request[r].snapshot \in Snapshot
      BY <2>2 DEF Types, PlaceOK
    <3>2. request[r].snapshot.workspace \in Nat /\ request[r].snapshot.environment \in Nat
      BY <3>1 DEF Snapshot
    <3>3. RequestOwn(textAt, workspace, environment, request[r])
      BY <1>1 DEF OwnWith
    <3>4. SnapshotOwn(final, workspace', environment', request[r].snapshot)
      BY <1>2, <1>4, <2>2, <3>2, <3>3 DEF RequestOwn, SnapshotOwn
    <3>5. request[r].snapshot.workspace < workspace => request[r].snapshot.workspace < workspace'
      BY <1>2, <1>4, <3>2
    <3> QED
      BY <1>2, <2>2, <3>3, <3>4, <3>5, Zenon DEF RequestOwn
  <2> QED
    BY <2>1, <2>2
<1>9. OwnWith(final)'
  BY <1>4, <1>6, <1>7, <1>8 DEF OwnWith
<1> QED
  BY <1>9 DEF OwnInv

(* A step of one request, which changes neither the session nor the past.    *)
LEMMA OwnStays ==
  ASSUME Types, NEW textAt \in [Nat -> Texts], OwnWith(textAt),
         NEW r \in Requests,
         UNCHANGED sessionVars,
         \A x \in Requests \ {r} : request'[x] = request[x],
         RequestOwn(textAt, workspace, environment, request'[r]),
         \A s \in 1 .. Len(slots') : MemoOwn(textAt, workspace, slots'[s].memo),
         \A a \in analyses' : AnalysisOwn(workspace, a)
  PROVE  OwnInv'
<1>1. \A x \in Requests : RequestOwn(textAt, workspace, environment, request'[x])
  BY DEF OwnWith
<1>2. OwnWith(textAt)'
  BY <1>1 DEF OwnWith, sessionVars
<1> QED
  BY <1>2 DEF OwnInv

LEMMA DispatchOwn ==
  ASSUME Types, OwnInv, NEW r \in Requests, Dispatch(r)
  PROVE  OwnInv'
<1>1. PICK textAt \in [Nat -> Texts] : OwnWith(textAt)
  BY DEF OwnInv
<1>2. /\ request'[r].at = "queued" /\ request'[r].snapshot = Current
      /\ request'[r].reading = None
      /\ \A x \in Requests \ {r} : request'[x] = request[x]
  BY DEF Dispatch, Idle, Types
<1>3. SnapshotOwn(textAt, workspace, environment, Current)
  BY <1>1, BoundsAssumption DEF SnapshotOwn, Current, OwnWith, Types
<1>4. RequestOwn(textAt, workspace, environment, request'[r])
  BY <1>2, <1>3 DEF RequestOwn
<1> QED
  BY <1>1, <1>2, <1>4, OwnStays DEF Dispatch, cacheVars, OwnWith

(* A request goes back to idle, or goes on with the snapshot and the reading *)
(* it has.                                                                  *)
LEMMA OwnGoesOn ==
  ASSUME Types, NEW textAt \in [Nat -> Texts], OwnWith(textAt), NEW r \in Requests, NEW q,
         \/ q.at = "idle"
         \/ /\ request[r].at # "idle"
            /\ q.at \notin {"comparing", "inserting"}
            /\ q.snapshot = request[r].snapshot /\ q.reading = request[r].reading
  PROVE  RequestOwn(textAt, workspace, environment, q)
  BY DEF OwnWith, RequestOwn

LEMMA CancelOwn ==
  ASSUME Types, OwnInv, NEW r \in Requests, Cancel(r)
  PROVE  OwnInv'
<1>1. PICK textAt \in [Nat -> Texts] : OwnWith(textAt)
  BY DEF OwnInv
<1>2. /\ request'[r].at = request[r].at /\ request'[r].snapshot = request[r].snapshot
      /\ request'[r].reading = request[r].reading /\ request'[r].cancelled
      /\ \A x \in Requests \ {r} : request'[x] = request[x]
  BY DEF Cancel, Types, RequestState
<1>3. RequestOwn(textAt, workspace, environment, request'[r])
  BY <1>1, <1>2 DEF OwnWith, RequestOwn
<1> QED
  BY <1>1, <1>2, <1>3, OwnStays DEF Cancel, cacheVars, OwnWith

LEMMA BeginOwn ==
  ASSUME Types, OwnInv, NEW r \in Requests, Begin(r)
  PROVE  OwnInv'
<1>1. PICK textAt \in [Nat -> Texts] : OwnWith(textAt)
  BY DEF OwnInv
<1>2. request[r] \in RequestState /\ request[r].at = "queued"
  BY DEF Begin, Types
<1>3. /\ \A x \in Requests \ {r} : request'[x] = request[x]
      /\ \/ request'[r].at = "idle"
         \/ /\ request'[r].at = "locking" /\ request'[r].snapshot = request[r].snapshot
            /\ request'[r].reading = request[r].reading
  <2>1. CASE request' = [request EXCEPT ![r] = Idle]
    BY <2>1 DEF Types, Idle
  <2>2. CASE request' = [request EXCEPT ![r].at = "locking", ![r].slot = slotOf']
    BY <1>2, <2>2 DEF Types, RequestState
  <2> QED
    BY <2>1, <2>2 DEF Begin
<1>4. RequestOwn(textAt, workspace, environment, request'[r])
  BY <1>1, <1>2, <1>3, OwnGoesOn
<1>5. ASSUME NEW s \in 1 .. Len(slots') PROVE MemoOwn(textAt, workspace, slots'[s].memo)
  <2>1. CASE slots' = Append(slots, EmptySlot)
    <3>1. /\ Len(slots') = Len(slots) + 1 /\ Len(slots) \in Nat
          /\ \A i \in 1 .. Len(slots) : slots'[i] = slots[i]
          /\ slots'[Len(slots) + 1] = EmptySlot
      BY <2>1, AppendProperties, EmptyTypes DEF Types
    <3>2. s \in 1 .. Len(slots) \/ s = Len(slots) + 1
      BY <1>5, <3>1
    <3> QED
      BY <1>1, <3>1, <3>2 DEF OwnWith, MemoOwn, EmptySlot
  <2>2. CASE UNCHANGED slots
    BY <1>1, <1>5, <2>2 DEF OwnWith
  <2> QED
    BY <2>1, <2>2 DEF Begin
<1> QED
  BY <1>1, <1>3, <1>4, <1>5, OwnStays DEF Begin, OwnWith

LEMMA DeliverOwn ==
  ASSUME Types, OwnInv, NEW r \in Requests, Deliver(r)
  PROVE  OwnInv'
<1>1. PICK textAt \in [Nat -> Texts] : OwnWith(textAt)
  BY DEF OwnInv
<1>2. request'[r].at = "idle" /\ \A x \in Requests \ {r} : request'[x] = request[x]
  BY DEF Deliver, Idle, Types
<1>3. RequestOwn(textAt, workspace, environment, request'[r])
  BY <1>2 DEF RequestOwn
<1> QED
  BY <1>1, <1>2, <1>3, OwnStays DEF Deliver, cacheVars, OwnWith

LEMMA LockOwn ==
  ASSUME Types, OwnInv, NEW r \in Requests, Lock(r)
  PROVE  OwnInv'
<1>1. PICK textAt \in [Nat -> Texts] : OwnWith(textAt)
  BY DEF OwnInv
<1> DEFINE s == request[r].slot
           snapshot == request[r].snapshot
<1>2. /\ request[r] \in RequestState /\ request[r].at = "locking"
      /\ s \in 1 .. Len(slots) /\ snapshot \in Snapshot
      /\ slots[s] \in SlotState
  BY ElementOfSeq DEF Types, Lock, PlaceOK
<1>3. SnapshotOwn(textAt, workspace, environment, snapshot)
  BY <1>1, <1>2 DEF OwnWith, RequestOwn
<1>4. ASSUME Memo(r) # None, Memo(r).key = Key(snapshot),
             request' = [request EXCEPT ![r].at = "tokenised", ![r].reading = Memo(r).reading]
      PROVE  RequestOwn(textAt, workspace, environment, request'[r])
  <2>1. MemoOwn(textAt, workspace, Memo(r))
    BY <1>1, <1>2 DEF OwnWith, Memo
  <2>2. /\ Memo(r).key.workspace = snapshot.workspace
        /\ Memo(r).key.environment = snapshot.environment
    BY <1>4 DEF Key
  <2>3. ReadingOwn(snapshot, Memo(r).reading)
    BY <1>3, <1>4, <2>1, <2>2 DEF MemoOwn, ReadingOwn, SnapshotOwn
  <2>4. /\ request'[r].at = "tokenised" /\ request'[r].snapshot = snapshot
        /\ request'[r].reading = Memo(r).reading
    BY <1>2, <1>4 DEF Types, RequestState
  <2> QED
    BY <1>3, <2>3, <2>4 DEF RequestOwn
<1>5. ASSUME \/ request' = [request EXCEPT ![r].at = "looking up"]
             \/ request' = [request EXCEPT ![r].at = "answering", ![r].slot = 0]
      PROVE  RequestOwn(textAt, workspace, environment, request'[r])
  <2>1. /\ request'[r].at \in {"looking up", "answering"} /\ request'[r].snapshot = snapshot
        /\ request'[r].reading = request[r].reading
    <3>1. CASE request' = [request EXCEPT ![r].at = "looking up"]
      BY <1>2, <3>1 DEF Types, RequestState
    <3>2. CASE request' = [request EXCEPT ![r].at = "answering", ![r].slot = 0]
      BY <1>2, <3>2 DEF Types, RequestState
    <3> QED
      BY <1>5, <3>1, <3>2
  <2> QED
    BY <1>1, <1>2, <2>1, OwnGoesOn
<1>6. RequestOwn(textAt, workspace, environment, request'[r])
  BY <1>4, <1>5 DEF Lock
<1>7. \A x \in Requests \ {r} : request'[x] = request[x]
  BY DEF Lock, Types
<1>8. ASSUME NEW i \in 1 .. Len(slots') PROVE MemoOwn(textAt, workspace, slots'[i].memo)
  <2> DEFINE taken == [slots[s] EXCEPT !.holder = r]
  <2>1. taken \in SlotState /\ taken.memo = slots[s].memo
    BY <1>2 DEF SlotState
  <2>2. PICK slot \in {taken, EmptySlot} : slots' = [slots EXCEPT ![s] = slot]
    BY DEF Lock, Types
  <2>3. EmptySlot.memo = None /\ EmptySlot \in SlotState
    BY EmptyTypes DEF EmptySlot
  <2> HIDE DEF taken
  <2>4. /\ Len(slots') = Len(slots)
        /\ \A j \in 1 .. Len(slots) : slots'[j] = IF j = s THEN slot ELSE slots[j]
    BY <1>2, <2>1, <2>2, <2>3, ExceptSeq DEF Types
  <2>5. MemoOwn(textAt, workspace, slot.memo)
    BY <1>1, <1>2, <2>1, <2>2, <2>3 DEF OwnWith, MemoOwn
  <2> QED
    BY <1>1, <1>8, <2>4, <2>5 DEF OwnWith
<1> QED
  BY <1>1, <1>6, <1>7, <1>8, OwnStays DEF Lock, OwnWith

(* What an analysis finds or makes is of the snapshot's state.               *)
LEMMA AnalysisStepOwn ==
  ASSUME Types, OwnInv, NEW r \in Requests, Analysis(r)
  PROVE  OwnInv'
<1>1. PICK textAt \in [Nat -> Texts] : OwnWith(textAt)
  BY DEF OwnInv
<1> DEFINE snapshot == request[r].snapshot
<1>2. /\ request[r] \in RequestState /\ request[r].at \in Holding /\ request[r].at # "idle"
      /\ snapshot \in Snapshot /\ PlaceOK(request[r], Len(slots))
      /\ workspace \in Nat /\ environment \in Nat
  <2>1. request[r].at \in Holding /\ request[r].at # "idle"
    BY DEF Analysis, Lookup, Resolve, Compare, Insert, Holding
  <2>2. request[r] \in RequestState /\ PlaceOK(request[r], Len(slots))
    BY DEF Types
  <2>3. workspace \in Nat /\ environment \in Nat
    BY BoundsAssumption DEF Types
  <2> QED
    BY <2>1, <2>2, <2>3 DEF PlaceOK
<1>3. /\ SnapshotOwn(textAt, workspace, environment, snapshot)
      /\ RequestOwn(textAt, workspace, environment, request[r])
      /\ request[r].reading # None => ReadingOwn(snapshot, request[r].reading)
  BY <1>1, <1>2 DEF OwnWith, RequestOwn
<1>4. /\ snapshot.workspace \in Nat /\ snapshot.environment \in Nat
      /\ snapshot.workspace <= workspace /\ snapshot.environment <= environment
  BY <1>2, <1>3 DEF Snapshot, SnapshotOwn
<1>5. ASSUME NEW a \in analyses, a.snapshot = snapshot, Have(r, a.reading)
      PROVE  RequestOwn(textAt, workspace, environment, request'[r])
  <2>1. ReadingOwn(snapshot, a.reading)
    BY <1>1, <1>5 DEF OwnWith, AnalysisOwn
  <2>2. /\ request'[r].at = "tokenised" /\ request'[r].snapshot = snapshot
        /\ request'[r].reading = a.reading
    BY <1>2, <1>5 DEF Have, Types, RequestState
  <2> QED
    BY <1>3, <2>1, <2>2 DEF RequestOwn
<1>6. CASE Lookup(r)
  <2>1. ASSUME request' = [request EXCEPT
                 ![r].at = "resolving",
                 ![r].reading = [text |-> snapshot.text,
                                 environment |-> environment, complete |-> FALSE]]
        PROVE  RequestOwn(textAt, workspace, environment, request'[r])
    <3>1. /\ request'[r].at = "resolving" /\ request'[r].snapshot = snapshot
          /\ request'[r].reading = [text |-> snapshot.text,
                                    environment |-> environment, complete |-> FALSE]
      BY <1>2, <2>1 DEF Types, RequestState
    <3>2. ReadingOwn(snapshot, request'[r].reading)
      BY <1>4, <3>1 DEF ReadingOwn
    <3> QED
      BY <1>3, <3>1, <3>2 DEF RequestOwn
  <2>2. RequestOwn(textAt, workspace, environment, request'[r])
    BY <1>5, <1>6, <2>1 DEF Lookup
  <2>3. /\ \A x \in Requests \ {r} : request'[x] = request[x]
        /\ slots' = slots /\ analyses' = analyses /\ UNCHANGED sessionVars
    BY <1>6 DEF Lookup, Have, Types, cacheVars
  <2> QED
    BY <1>1, <2>2, <2>3, OwnStays DEF OwnWith
<1>7. CASE Resolve(r)
  <2> DEFINE complete == ~request[r].cancelled /\ workspace = snapshot.workspace
             reading == [request[r].reading EXCEPT !.complete = complete]
  <2>1. request[r].reading \in Reading /\ request[r].reading # None
    BY <1>2, <1>7, NoneIsNone DEF Resolve, PlaceOK, Reads
  <2>2. /\ reading.text = request[r].reading.text /\ reading.complete = complete
        /\ reading.environment = request[r].reading.environment
    BY <2>1 DEF Reading
  <2>3. /\ request'[r].at = "comparing" /\ request'[r].snapshot = snapshot
        /\ request'[r].reading = reading /\ request'[r].cancelled = request[r].cancelled
    BY <1>2, <1>7 DEF Resolve, Types, RequestState
  <2>4. ReadingOwn(snapshot, reading)
    BY <1>3, <2>1, <2>2 DEF ReadingOwn
  <2>5. ~complete => request[r].cancelled \/ snapshot.workspace < workspace
    BY <1>2, <1>4
  <2> HIDE DEF reading
  <2>6. RequestOwn(textAt, workspace, environment, request'[r])
    BY <1>3, <2>2, <2>3, <2>4, <2>5 DEF RequestOwn
  <2>7. /\ \A x \in Requests \ {r} : request'[x] = request[x]
        /\ slots' = slots /\ analyses' = analyses /\ UNCHANGED sessionVars
    BY <1>7 DEF Resolve, Types, cacheVars
  <2> QED
    BY <1>1, <2>6, <2>7, OwnStays DEF OwnWith
<1>8. CASE Compare(r)
  <2>1. /\ request'[r].at = (IF WorthKeeping(r) THEN "inserting" ELSE "tokenised")
        /\ request'[r].snapshot = snapshot /\ request'[r].reading = request[r].reading
    BY <1>2, <1>8 DEF Compare, Types, RequestState
  <2>2. WorthKeeping(r) /\ ~request[r].reading.complete => snapshot.workspace < workspace
    BY <1>3, <1>8 DEF WorthKeeping, RequestOwn, Compare
  <2>3. RequestOwn(textAt, workspace, environment, request'[r])
    BY <1>3, <2>1, <2>2 DEF RequestOwn
  <2>4. /\ \A x \in Requests \ {r} : request'[x] = request[x]
        /\ slots' = slots /\ analyses' = analyses /\ UNCHANGED sessionVars
    BY <1>8 DEF Compare, Types, cacheVars
  <2> QED
    BY <1>1, <2>3, <2>4, OwnStays DEF OwnWith
<1>9. CASE Insert(r)
  <2> DEFINE new == [snapshot |-> snapshot, reading |-> request[r].reading]
  <2>1. request[r].reading # None /\ request[r].at = "inserting"
    BY <1>2, <1>9, NoneIsNone DEF Insert, PlaceOK, Reads
  <2>2. AnalysisOwn(workspace, new)
    BY <1>3, <1>4, <2>1 DEF AnalysisOwn, RequestOwn
  <2>3. ASSUME request' = [request EXCEPT ![r].at = "tokenised"]
        PROVE  RequestOwn(textAt, workspace, environment, request'[r])
    <3>1. /\ request'[r].at = "tokenised" /\ request'[r].snapshot = snapshot
          /\ request'[r].reading = request[r].reading
      BY <1>2, <2>3 DEF Types, RequestState
    <3> QED
      BY <1>1, <1>2, <3>1, OwnGoesOn
  <2>4. RequestOwn(textAt, workspace, environment, request'[r])
    BY <1>5, <1>9, <2>3 DEF Insert
  <2>5. \A a \in analyses' : AnalysisOwn(workspace, a)
    BY <1>1, <1>9, <2>2 DEF Insert, OwnWith
  <2>6. /\ \A x \in Requests \ {r} : request'[x] = request[x]
        /\ slots' = slots /\ UNCHANGED sessionVars
    BY <1>9 DEF Insert, Have, Types, cacheVars
  <2> QED
    BY <1>1, <2>4, <2>5, <2>6, OwnStays DEF OwnWith
<1> QED
  BY <1>6, <1>7, <1>8, <1>9 DEF Analysis

LEMMA AnswersOwn ==
  ASSUME Types, OwnInv, NEW r \in Requests, request[r].at = "tokenised",
         NEW slot \in SlotState, NEW answer, Answers(r, slot, answer), slot.memo = MemoOf(r)
  PROVE  OwnInv'
<1>1. PICK textAt \in [Nat -> Texts] : OwnWith(textAt)
  BY DEF OwnInv
<1> DEFINE snapshot == request[r].snapshot
           freed == [slot EXCEPT !.holder = NoRequest]
           all == [slots EXCEPT ![request[r].slot] = freed]
<1>2. /\ request[r] \in RequestState /\ request[r].at # "idle"
      /\ request[r].slot \in 1 .. Len(slots) /\ snapshot \in Snapshot
      /\ request[r].reading \in Reading /\ request[r].reading # None
  BY NoneIsNone DEF Types, PlaceOK, Holding, Reads
<1>3. SnapshotOwn(textAt, workspace, environment, snapshot)
      /\ ReadingOwn(snapshot, request[r].reading)
  BY <1>1, <1>2 DEF OwnWith, RequestOwn
<1>4. MemoOwn(textAt, workspace, MemoOf(r))
  <2>1. /\ MemoOf(r).reading = request[r].reading
        /\ MemoOf(r).key.workspace = snapshot.workspace
        /\ MemoOf(r).key.environment = snapshot.environment
    BY DEF MemoOf, Key
  <2> QED
    BY <1>3, <2>1 DEF MemoOwn, SnapshotOwn, ReadingOwn
<1>5. /\ request'[r].at = "answering" /\ request'[r].snapshot = snapshot
      /\ request'[r].reading = request[r].reading
      /\ \A x \in Requests \ {r} : request'[x] = request[x]
  BY <1>2 DEF Answers, Types, RequestState
<1>6. RequestOwn(textAt, workspace, environment, request'[r])
  BY <1>1, <1>2, <1>5, OwnGoesOn
<1>7. ASSUME NEW s \in 1 .. Len(slots') PROVE MemoOwn(textAt, workspace, slots'[s].memo)
  <2>1. freed \in SlotState /\ freed.memo = MemoOf(r)
    BY DEF SlotState
  <2> HIDE DEF freed
  <2>2. /\ all \in Seq(SlotState) /\ Len(all) = Len(slots)
        /\ \A i \in 1 .. Len(slots) : all[i] = IF i = request[r].slot THEN freed ELSE slots[i]
    BY <1>2, <2>1, ExceptSeq DEF Types
  <2>3. slots' = Kept(all, slotOf, request')
    BY DEF Answers, freed
  <2> HIDE DEF all
  <2>4. Len(slots') = Len(slots) /\ slots'[s] \in {all[s], EmptySlot}
    BY <1>7, <2>2, <2>3, KeptSlots
  <2>5. MemoOwn(textAt, workspace, EmptySlot.memo)
    BY DEF MemoOwn, EmptySlot
  <2>6. MemoOwn(textAt, workspace, all[s].memo)
    BY <1>1, <1>4, <1>7, <2>1, <2>2, <2>4 DEF OwnWith
  <2> QED
    BY <2>4, <2>5, <2>6
<1> QED
  BY <1>1, <1>5, <1>6, <1>7, OwnStays DEF Answers, OwnWith

LEMMA StepOwn ==
  ASSUME Types, OwnInv, [Next]_vars
  PROVE  OwnInv'
<1>1. CASE Notification
  BY <1>1, NotificationOwn
<1>2. CASE Forget \/ UNCHANGED vars
  BY <1>2 DEF Forget, vars, OwnInv, OwnWith, sessionVars, cacheVars, clientVars
<1>3. ASSUME NEW r \in Requests, Dispatch(r) \/ Cancel(r) \/ Handling(r)
      PROVE  OwnInv'
  <2>1. CASE Dispatch(r) \/ Cancel(r) \/ Begin(r) \/ Lock(r) \/ Analysis(r) \/ Deliver(r)
    BY <2>1, DispatchOwn, CancelOwn, BeginOwn, LockOwn, AnalysisStepOwn, DeliverOwn
  <2>2. CASE AnswerFull(r) \/ AnswerRange(r) \/ AnswerDelta(r)
    <3>1. request[r].at = "tokenised"
      BY <2>2 DEF AnswerFull, AnswerRange, AnswerDelta
    <3>2. SlotWithMemo(r) \in SlotState /\ SlotWithMemo(r).memo = MemoOf(r)
          /\ MemoOf(r) # None
      <4>1. MemoOf(r) \in MemoEntry
        BY <3>1, SlotWithMemoKeeps
      <4> QED
        BY <3>1, <4>1, SlotWithMemoKeeps, NoneIsNone
    <3>3. CASE PublishFull(r, SlotWithMemo(r))
      <4>1. PICK new \in SlotState, id \in Nat :
              /\ Answers(r, new, [type |-> "tokens", id |-> id, edits |-> {}])
              /\ new.memo = SlotWithMemo(r).memo
        BY <3>1, <3>2, <3>3, FullAnswer
      <4> QED
        BY <3>1, <3>2, <4>1, AnswersOwn
    <3>4. CASE Answers(r, SlotWithMemo(r), None)
      BY <3>1, <3>2, <3>4, AnswersOwn
    <3>5. CASE AnswerDelta(r) /\ IsBaseline(SlotWithMemo(r).published, request[r].base.id)
      <4>1. PICK new \in SlotState, id \in Nat :
              /\ Answers(r, new, [type |-> "edits", id |-> id, edits |-> DeltaEdits(r)])
              /\ new.memo = MemoOf(r)
        BY <3>5, DeltaAnswer
      <4> QED
        BY <3>1, <4>1, AnswersOwn
    <3> QED
      BY <2>2, <3>3, <3>4, <3>5 DEF AnswerFull, AnswerRange, AnswerDelta
  <2> QED
    BY <1>3, <2>1, <2>2 DEF Handling
<1> QED
  BY <1>1, <1>2, <1>3 DEF Next

(* A request is answered from its own text and from no older environment,    *)
(* whoever tokenised it (tokens_key and analysis_key).                       *)
THEOREM AnswersAreOfTheirState == Spec => []OwnState
<1>1. Init => Types /\ ResultInv /\ OwnInv
  BY InitTypes, InitResults, InitOwn
<1>2. Types /\ ResultInv /\ OwnInv /\ [Next]_vars => (Types /\ ResultInv /\ OwnInv)'
  BY StepTypes, StepResults, StepOwn
<1>3. Types /\ OwnInv => OwnState
  BY OwnSuffices
<1> QED
  BY <1>1, <1>2, <1>3, PTL DEF Spec

(* What later requests of the present state share was made with the          *)
(* workspace index (CommandService::analysis keeps nothing of a cancelled    *)
(* request).                                                                *)
THEOREM SharedAnalysesAreComplete == Spec => []SharedAnalysisComplete
<1>1. Init => Types /\ ResultInv /\ OwnInv
  BY InitTypes, InitResults, InitOwn
<1>2. Types /\ ResultInv /\ OwnInv /\ [Next]_vars => (Types /\ ResultInv /\ OwnInv)'
  BY StepTypes, StepResults, StepOwn
<1>3. Types /\ OwnInv => SharedAnalysisComplete
  BY OwnSuffices
<1> QED
  BY <1>1, <1>2, <1>3, PTL DEF Spec
=============================================================================
