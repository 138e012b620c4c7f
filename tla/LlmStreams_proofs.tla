------------------------- MODULE LlmStreams_proofs -------------------------
(***************************************************************************)
(* One event per model call, for every answer the model may give. The      *)
(* span is marked by what the caller was told, chunk by chunk, so the      *)
(* invariant relates it to out alone. An unstreamed call is told all at    *)
(* once; that it is an error or has none follows from where FlattenSeq     *)
(* takes its elements, by induction over the sequences it appends.         *)
(***************************************************************************)
EXTENDS LlmStreams, FiniteSetTheorems, WellFoundedInduction, TLAPS

-----------------------------------------------------------------------------
(* Induction over numbers: a set of numbers has a least one, since of the   *)
(* initial intervals they end one contains no other.                        *)
LEMMA Least ==
  ASSUME NEW S, S \subseteq Nat, S # {}
  PROVE  \E i \in S : \A j \in S : i <= j
<1> DEFINE Upto(i) == 1 .. i
           T == {Upto(i) : i \in S}
           R == StrictSubsetOrdering(Nat)
<1>1. T # {} /\ T \subseteq FiniteSubsetsOf(Nat)
  <2>1. \A i \in S : IsFiniteSet(1 .. i)
    BY FS_Interval
  <2>2. \A i \in S : 1 .. i \in SUBSET Nat
    OBVIOUS
  <2> QED
    BY <2>1, <2>2 DEF FiniteSubsetsOf
<1>2. PICK u \in T : \A v \in T : ~(<<v, u>> \in R)
  <2> HIDE DEF T, R
  <2>1. IsWellFoundedOn(R, FiniteSubsetsOf(Nat))
    BY FS_StrictSubsetOrderingWellFounded DEF R
  <2> QED
    BY <1>1, <2>1, WFMin
<1>3. PICK i \in S : u = 1 .. i
  BY <1>2
<1>4. ASSUME NEW j \in S, ~(i <= j)
      PROVE  FALSE
  <2>1. 1 .. j \subseteq 1 .. i /\ i \in 1 .. i /\ i \notin 1 .. j
    BY <1>4
  <2>2. 1 .. j \in SUBSET Nat /\ 1 .. i \in SUBSET Nat
    OBVIOUS
  <2>3. <<1 .. j, 1 .. i>> \in R
    BY <2>1, <2>2 DEF StrictSubsetOrdering
  <2> QED
    BY <1>2, <1>3, <2>3
<1> QED
  BY <1>4

(* So a set of numbers from 1 that has 1 and with each number the next has  *)
(* them all.                                                                *)
LEMMA Induction ==
  ASSUME NEW n \in Nat, NEW S, n >= 1 => 1 \in S,
         \A i \in 1 .. n : i \in S /\ i < n => i + 1 \in S
  PROVE  1 .. n \subseteq S
<1> DEFINE Out == (1 .. n) \ S
<1>1. ASSUME Out # {}
      PROVE  FALSE
  <2>0. Out \subseteq Nat
    OBVIOUS
  <2>1. PICK i \in Out : \A j \in Out : i <= j
    <3> HIDE DEF Out
    <3> QED
      BY <1>1, <2>0, Least
  <2>2. i # 1 /\ i - 1 \in 1 .. n /\ i - 1 \notin Out /\ (i - 1) + 1 = i /\ i - 1 < n
    BY <2>1
  <2> QED
    BY <2>1, <2>2
<1> QED
  BY <1>1

-----------------------------------------------------------------------------
(* Sequences.                                                               *)

IsSeq(s) == Len(s) \in Nat /\ s = [k \in 1 .. Len(s) |-> s[k]]

(* A sequence over its own elements is what its positions say.              *)
LEMMA SeqIs ==
  ASSUME NEW s, s \in Seq({s[k] : k \in DOMAIN s})
  PROVE  IsSeq(s) /\ DOMAIN s = 1 .. Len(s)
<1> DEFINE S == {s[k] : k \in DOMAIN s}
<1>1. s \in Seq(S)
  OBVIOUS
<1> HIDE DEF S
<1>2. Len(s) \in Nat /\ DOMAIN s = 1 .. Len(s) /\ s = [k \in 1 .. Len(s) |-> s[k]]
  BY <1>1
<1> QED
  BY <1>2 DEF IsSeq

(* A function on the first numbers is a sequence.                           *)
LEMMA FunctionIsSeq ==
  ASSUME NEW n \in Nat, NEW s, s = [k \in 1 .. n |-> s[k]]
  PROVE  IsSeq(s) /\ Len(s) = n /\ DOMAIN s = 1 .. n
<1> DEFINE S == {s[k] : k \in 1 .. n}
<1>1. s \in [1 .. n -> S]
  OBVIOUS
<1> HIDE DEF S
<1>2. s \in Seq(S)
  BY <1>1
<1>3. Len(s) = n /\ DOMAIN s = 1 .. n
  BY <1>1, <1>2
<1> QED
  BY <1>3 DEF IsSeq

(* The elements of two sequences in a row.                                  *)
LEMMA ConcatIs ==
  ASSUME NEW s, NEW t, IsSeq(s), IsSeq(t)
  PROVE  /\ IsSeq(s \o t) /\ Len(s \o t) = Len(s) + Len(t)
         /\ DOMAIN (s \o t) = 1 .. Len(s) + Len(t)
         /\ \A i \in 1 .. Len(s) : (s \o t)[i] = s[i]
         /\ \A i \in 1 .. Len(t) : (s \o t)[Len(s) + i] = t[i]
<1> DEFINE S == {s[k] : k \in 1 .. Len(s)} \cup {t[k] : k \in 1 .. Len(t)}
<1>1. s \in Seq(S) /\ t \in Seq(S)
  <2>1. s \in [1 .. Len(s) -> S] /\ t \in [1 .. Len(t) -> S] /\ Len(s) \in Nat /\ Len(t) \in Nat
    BY DEF IsSeq
  <2> HIDE DEF S
  <2> QED
    BY <2>1
<1> HIDE DEF S
<1>2. /\ s \o t \in Seq(S) /\ Len(s \o t) = Len(s) + Len(t)
      /\ \A i \in 1 .. Len(s) : (s \o t)[i] = s[i]
      /\ \A i \in 1 .. Len(t) : (s \o t)[Len(s) + i] = t[i]
  BY <1>1
<1>3. IsSeq(s \o t) /\ DOMAIN (s \o t) = 1 .. Len(s \o t)
  <2> DEFINE u == s \o t
  <2>1. u \in Seq(S)
    BY <1>2
  <2> HIDE DEF u
  <2>2. Len(u) \in Nat /\ u = [k \in 1 .. Len(u) |-> u[k]] /\ DOMAIN u = 1 .. Len(u)
    BY <2>1
  <2>3. IsSeq(u)
    BY <2>2 DEF IsSeq
  <2> QED
    BY <2>2, <2>3 DEF u
<1> QED
  BY <1>2, <1>3

(* One element more.                                                        *)
LEMMA AppendIs ==
  ASSUME NEW s, IsSeq(s), NEW e
  PROVE  /\ IsSeq(Append(s, e)) /\ DOMAIN Append(s, e) = 1 .. Len(s) + 1
         /\ \A i \in 1 .. Len(s) : Append(s, e)[i] = s[i]
         /\ Append(s, e)[Len(s) + 1] = e
<1> DEFINE S == {s[k] : k \in 1 .. Len(s)} \cup {e}
<1>1. s \in Seq(S) /\ e \in S
  <2>1. s \in [1 .. Len(s) -> S] /\ Len(s) \in Nat
    BY DEF IsSeq
  <2> QED
    BY <2>1
<1> HIDE DEF S
<1> DEFINE u == Append(s, e)
<1>2. /\ u \in Seq(S) /\ Len(u) = Len(s) + 1
      /\ \A i \in 1 .. Len(s) : u[i] = s[i]
      /\ u[Len(s) + 1] = e
  BY <1>1
<1> HIDE DEF u
<1>3. Len(u) \in Nat /\ u = [k \in 1 .. Len(u) |-> u[k]] /\ DOMAIN u = 1 .. Len(u)
  BY <1>2
<1>4. IsSeq(u) /\ DOMAIN u = 1 .. Len(s) + 1
  BY <1>2, <1>3 DEF IsSeq
<1> QED
  BY <1>2, <1>4 DEF u

-----------------------------------------------------------------------------
(* Sequences of sequences.                                                  *)

(* The recursion FlattenSeq chooses a function by.                          *)
Flattens(f, ss, n) == f = [i \in 1 .. n |-> IF i = 1 THEN ss[i] ELSE f[i - 1] \o ss[i]]

(* There is such a function.                                                *)
LEMMA FlattensExists ==
  ASSUME NEW ss, NEW n \in Nat
  PROVE  \E f : Flattens(f, ss, n)
<1> DEFINE S == {k \in 1 .. n : \E f : Flattens(f, ss, k)}
<1>1. n >= 1 => 1 \in S
  <2>1. Flattens([i \in 1 .. 1 |-> ss[i]], ss, 1)
    BY DEF Flattens
  <2> QED
    BY <2>1
<1>2. ASSUME NEW k \in 1 .. n, k \in S, k < n
      PROVE  k + 1 \in S
  <2>1. PICK f : Flattens(f, ss, k)
    BY <1>2
  <2> DEFINE g == [i \in 1 .. k + 1 |-> IF i <= k THEN f[i] ELSE f[k] \o ss[i]]
  <2>2. DOMAIN f = 1 .. k /\ \A i \in 1 .. k : f[i] = IF i = 1 THEN ss[i] ELSE f[i - 1] \o ss[i]
    BY <2>1 DEF Flattens
  <2>3. \A i \in 1 .. k + 1 : g[i] = IF i = 1 THEN ss[i] ELSE g[i - 1] \o ss[i]
    <3> TAKE i \in 1 .. k + 1
    <3>1. CASE i = k + 1
      <4>1. i # 1 /\ i - 1 = k /\ ~(i <= k) /\ k <= k /\ k \in 1 .. k + 1
        BY <3>1
      <4>2. g[i] = f[k] \o ss[i] /\ g[k] = f[k]
        BY <4>1
      <4> QED
        BY <4>1, <4>2
    <3>2. CASE i \in 1 .. k
      <4>1. g[i] = f[i] /\ (i # 1 => g[i - 1] = f[i - 1])
        BY <3>2
      <4> QED
        BY <2>2, <3>2, <4>1
    <3> QED
      BY <3>1, <3>2
  <2>4. Flattens(g, ss, k + 1)
    BY <2>3 DEF Flattens
  <2>5. k + 1 \in 1 .. n
    BY <1>2
  <2> QED
    BY <2>4, <2>5
<1>3. 1 .. n \subseteq S
  <2> HIDE DEF S
  <2> QED
    BY <1>1, <1>2, Induction
<1>4. CASE n >= 1
  BY <1>3, <1>4
<1>5. CASE n = 0
  BY <1>5 DEF Flattens
<1> QED
  BY <1>4, <1>5

(* FlattenSeq is its last value.                                            *)
LEMMA FlattenIs ==
  ASSUME NEW ss, Len(ss) \in Nat, Len(ss) # 0
  PROVE  \E f : Flattens(f, ss, Len(ss)) /\ FlattenSeq(ss) = f[Len(ss)]
<1> DEFINE f == CHOOSE f : Flattens(f, ss, Len(ss))
<1>1. Flattens(f, ss, Len(ss))
  BY FlattensExists
<1>2. FlattenSeq(ss) = f[Len(ss)]
  BY DEF FlattenSeq, Flattens
<1> QED
  BY <1>1, <1>2

(* Flattening sequences gives a sequence of their elements.                 *)
LEMMA FlattenSays ==
  ASSUME NEW ss, IsSeq(ss), \A i \in DOMAIN ss : IsSeq(ss[i])
  PROVE  /\ IsSeq(FlattenSeq(ss))
         /\ \A k \in DOMAIN FlattenSeq(ss) :
              \E i \in DOMAIN ss : \E j \in DOMAIN ss[i] : FlattenSeq(ss)[k] = ss[i][j]
<1> DEFINE Said(s) == IsSeq(s) /\ \A k \in DOMAIN s : \E i \in DOMAIN ss : \E j \in DOMAIN ss[i] : s[k] = ss[i][j]
           n == Len(ss)
<1>0. n \in Nat /\ DOMAIN ss = 1 .. n
  BY DEF IsSeq
<1>1. CASE n = 0
  <2>1. FlattenSeq(ss) = ss /\ DOMAIN ss = {}
    BY <1>0, <1>1 DEF FlattenSeq
  <2> QED
    BY <2>1
<1>2. CASE n # 0
  <2>1. PICK f : Flattens(f, ss, n) /\ FlattenSeq(ss) = f[n]
    BY <1>0, <1>2, FlattenIs
  <2>2. \A i \in 1 .. n : f[i] = IF i = 1 THEN ss[i] ELSE f[i - 1] \o ss[i]
    BY <2>1 DEF Flattens
  <2> DEFINE S == {i \in 1 .. n : Said(f[i])}
  <2>3. \A i \in 1 .. n : Said(ss[i])
    BY <1>0
  <2>4. 1 \in S
    BY <1>0, <1>2, <2>2, <2>3
  <2>5. ASSUME NEW i \in 1 .. n, i \in S, i < n
        PROVE  i + 1 \in S
    <3>0. i + 1 \in 1 .. n /\ (i + 1) - 1 = i /\ i + 1 # 1
      BY <1>0, <2>5
    <3>1. i + 1 \in 1 .. n /\ f[i + 1] = f[i] \o ss[i + 1]
      BY <2>2, <3>0
    <3>2. Said(f[i]) /\ Said(ss[i + 1])
      BY <2>3, <2>5, <3>1
    <3> DEFINE s == f[i]
               t == ss[i + 1]
    <3> HIDE DEF s, t
    <3>3. Said(s \o t)
      <4>0. IsSeq(s) /\ IsSeq(t)
        BY <3>2 DEF s, t
      <4>1. /\ IsSeq(s \o t) /\ DOMAIN (s \o t) = 1 .. Len(s) + Len(t)
            /\ \A k \in 1 .. Len(s) : (s \o t)[k] = s[k]
            /\ \A k \in 1 .. Len(t) : (s \o t)[Len(s) + k] = t[k]
        BY <4>0, ConcatIs
      <4>2. Len(s) \in Nat /\ Len(t) \in Nat /\ DOMAIN s = 1 .. Len(s) /\ DOMAIN t = 1 .. Len(t)
        BY <4>0 DEF IsSeq
      <4>3. ASSUME NEW k \in 1 .. Len(s) + Len(t)
            PROVE  (\E l \in DOMAIN s : (s \o t)[k] = s[l]) \/ (\E l \in DOMAIN t : (s \o t)[k] = t[l])
        <5>1. CASE k <= Len(s)
          BY <4>1, <4>2, <5>1
        <5>2. CASE ~(k <= Len(s))
          <6>1. k - Len(s) \in 1 .. Len(t) /\ Len(s) + (k - Len(s)) = k
            BY <4>2, <5>2
          <6> QED
            BY <4>1, <4>2, <6>1
        <5> QED
          BY <5>1, <5>2
      <4>4. /\ \A l \in DOMAIN s : \E a \in DOMAIN ss : \E b \in DOMAIN ss[a] : s[l] = ss[a][b]
            /\ \A l \in DOMAIN t : \E a \in DOMAIN ss : \E b \in DOMAIN ss[a] : t[l] = ss[a][b]
        BY <3>2 DEF s, t
      <4>5. \A k \in DOMAIN (s \o t) : \E a \in DOMAIN ss : \E b \in DOMAIN ss[a] : (s \o t)[k] = ss[a][b]
        <5> TAKE k \in DOMAIN (s \o t)
        <5>1. k \in 1 .. Len(s) + Len(t)
          BY <4>1
        <5>2. CASE \E l \in DOMAIN s : (s \o t)[k] = s[l]
          BY <4>4, <5>2
        <5>3. CASE \E l \in DOMAIN t : (s \o t)[k] = t[l]
          BY <4>4, <5>3
        <5> QED
          BY <4>3, <5>1, <5>2, <5>3
      <4> QED
        BY <4>1, <4>5
    <3>4. f[i + 1] = s \o t
      BY <3>1 DEF s, t
    <3> HIDE DEF Said
    <3>5. Said(f[i + 1])
      BY <3>3, <3>4
    <3> QED
      BY <3>1, <3>5
  <2>6. 1 .. n \subseteq S
    <3> HIDE DEF S
    <3> QED
      BY <1>0, <2>4, <2>5, Induction
  <2>7. Said(f[n])
    BY <1>0, <1>2, <2>6
  <2> QED
    BY <2>1, <2>7
<1> QED
  BY <1>0, <1>1, <1>2

-----------------------------------------------------------------------------
(* The span of a call.                                                      *)

(* Items without an error.                                                  *)
Spoken(s) == IsSeq(s) /\ \A i \in DOMAIN s : s[i].kind # "Err"

(* Flattening sequences of such items gives one.                            *)
LEMMA FlattenSpoken ==
  ASSUME NEW ss, IsSeq(ss), \A i \in DOMAIN ss : Spoken(ss[i])
  PROVE  Spoken(FlattenSeq(ss))
BY FlattenSays DEF Spoken

(* A single one is one.                                                     *)
LEMMA OneSpoken ==
  ASSUME NEW c, c.kind # "Err"
  PROVE  Spoken(<<c>>)
<1> DEFINE s == <<c>>
<1>1. s = [i \in 1 .. 1 |-> s[i]] /\ s[1] = c
  OBVIOUS
<1> HIDE DEF s
<1>2. IsSeq(s) /\ DOMAIN s = 1 .. 1
  BY <1>1, FunctionIsSeq
<1>3. Spoken(s)
  BY <1>1, <1>2 DEF Spoken
<1> QED
  BY <1>3 DEF s

(* And so is none.                                                          *)
LEMMA NoneSpoken == Spoken(<<>>)
BY DEF Spoken, IsSeq

(* And two in a row are.                                                    *)
LEMMA ConcatSpoken ==
  ASSUME NEW s, NEW t, Spoken(s), Spoken(t)
  PROVE  Spoken(s \o t)
<1>1. /\ IsSeq(s \o t) /\ DOMAIN (s \o t) = 1 .. Len(s) + Len(t)
      /\ \A i \in 1 .. Len(s) : (s \o t)[i] = s[i]
      /\ \A i \in 1 .. Len(t) : (s \o t)[Len(s) + i] = t[i]
  BY ConcatIs DEF Spoken
<1>2. Len(s) \in Nat /\ Len(t) \in Nat /\ DOMAIN s = 1 .. Len(s) /\ DOMAIN t = 1 .. Len(t)
  BY DEF Spoken, IsSeq
<1>3. ASSUME NEW i \in 1 .. Len(s) + Len(t)
      PROVE  (s \o t)[i].kind # "Err"
  <2>1. CASE i <= Len(s)
    BY <1>1, <1>2, <2>1 DEF Spoken
  <2>2. CASE ~(i <= Len(s))
    <3>1. i - Len(s) \in 1 .. Len(t) /\ Len(s) + (i - Len(s)) = i
      BY <1>2, <2>2
    <3> QED
      BY <1>1, <1>2, <3>1 DEF Spoken
  <2> QED
    BY <2>1, <2>2
<1> QED
  BY <1>1, <1>3 DEF Spoken

(* What an answer has is sequences.                                         *)
LEMMA AnswerIs ==
  ASSUME NEW a \in Answers
  PROVE  /\ IsSeq(a.items) /\ DOMAIN a.items = 1 .. Len(a.items)
         /\ \A i \in DOMAIN a.items :
              IsSeq(a.items[i].calls) /\ DOMAIN a.items[i].calls = 1 .. Len(a.items[i].calls)
BY AnswersAssumption, SeqIs

(* A group of calls is the sequence of its calls.                           *)
LEMMA CallsSpoken ==
  ASSUME NEW item, IsSeq(item.calls)
  PROVE  Spoken(CallItems(item))
<1> DEFINE calls == CallItems(item)
<1>1. Len(item.calls) \in Nat /\ DOMAIN item.calls = 1 .. Len(item.calls)
  BY DEF IsSeq
<1>2. /\ calls = [i \in 1 .. Len(item.calls) |-> calls[i]]
      /\ \A i \in 1 .. Len(item.calls) : calls[i].kind = "ToolCall"
  BY <1>1 DEF CallItems, ToolCall, Chunk
<1> HIDE DEF calls
<1> QED
  BY <1>1, <1>2, FunctionIsSeq DEF Spoken, calls

(* An unstreamed call gives its caller an error and nothing else, or items  *)
(* without one.                                                             *)
LEMMA CompletedSpeaks ==
  ASSUME NEW p, NEW a \in Answers
  PROVE  Completed(p, a) = <<Err>> \/ Spoken(Completed(p, a))
<1> DEFINE n == Len(a.items)
<1>1. n \in Nat /\ DOMAIN a.items = 1 .. n /\ \A i \in 1 .. n : IsSeq(a.items[i].calls)
  BY AnswerIs DEF IsSeq
<1>2. \A text : TextItem(text).kind # "Err"
  BY DEF TextItem, Chunk
<1>3. parse_body(a) = <<Err>> \/ Spoken(parse_body(a))
  <2> DEFINE ss == [i \in DOMAIN a.items |->
                      CASE a.items[i].kind = "text" -> <<TextItem(a.items[i].text)>>
                        [] a.items[i].kind = "calls" -> CallItems(a.items[i])
                        [] OTHER -> <<>>]
  <2>1. \A i \in 1 .. n : Spoken(ss[i])
    BY <1>1, <1>2, OneSpoken, NoneSpoken, CallsSpoken
  <2>2. IsSeq(ss) /\ DOMAIN ss = 1 .. n
    BY <1>1, FunctionIsSeq
  <2>3. parse_body(a) = <<Err>> \/ parse_body(a) = FlattenSeq(ss)
    BY DEF parse_body
  <2> HIDE DEF ss
  <2> QED
    BY <2>1, <2>2, <2>3, FlattenSpoken
<1>4. items_from(a) = <<Err>> \/ Spoken(items_from(a))
  <2> DEFINE texts == [i \in DOMAIN a.items |-> IF a.items[i].kind = "text" THEN a.items[i].text ELSE <<>>]
             content == FlattenSeq(texts)
             ss == [i \in DOMAIN a.items |-> IF a.items[i].kind = "calls" THEN CallItems(a.items[i]) ELSE <<>>]
             said == IF content = <<>> THEN <<>> ELSE <<TextItem(content)>>
  <2>1. \A i \in 1 .. n : Spoken(ss[i])
    BY <1>1, NoneSpoken, CallsSpoken
  <2>2. IsSeq(ss) /\ DOMAIN ss = 1 .. n
    BY <1>1, FunctionIsSeq
  <2>3. items_from(a) = <<Err>> \/ items_from(a) = said \o FlattenSeq(ss)
    BY Zenon DEF items_from
  <2>4. Spoken(said)
    <3> HIDE DEF content
    <3> QED
      BY <1>2, OneSpoken, NoneSpoken
  <2> HIDE DEF ss, said
  <2>5. Spoken(FlattenSeq(ss))
    BY <2>1, <2>2, FlattenSpoken
  <2> DEFINE calls == FlattenSeq(ss)
  <2> HIDE DEF calls
  <2>6. Spoken(said \o calls)
    <3>1. Spoken(said) /\ Spoken(calls)
      BY <2>4, <2>5 DEF calls
    <3> QED
      BY <3>1, ConcatSpoken
  <2> QED
    BY <2>3, <2>6 DEF calls
<1>5. CallbackItems(a) = <<Err>> \/ Spoken(CallbackItems(a))
  <2> DEFINE calls(i) == [j \in DOMAIN a.items[i].calls |->
                            ToolCall(a.items[i].calls[j].id, ArgsOf(a.items[i].calls[j].json))]
             ss == [i \in DOMAIN a.items |->
                      IF a.items[i].kind = "text" THEN <<TextItem(a.items[i].text)>> ELSE calls(i)]
  <2>1. ASSUME NEW i \in 1 .. n
        PROVE  Spoken(calls(i))
    <3> DEFINE s == calls(i)
               m == Len(a.items[i].calls)
    <3>1. m \in Nat /\ DOMAIN a.items[i].calls = 1 .. m
      BY <1>1 DEF IsSeq
    <3>2. s = [j \in 1 .. m |-> s[j]] /\ \A j \in 1 .. m : s[j].kind = "ToolCall"
      BY <3>1 DEF ToolCall, Chunk
    <3> HIDE DEF s, m
    <3> QED
      BY <3>1, <3>2, FunctionIsSeq DEF Spoken, s
  <2> HIDE DEF calls
  <2>2. \A i \in 1 .. n : Spoken(ss[i])
    BY <1>1, <1>2, <2>1, OneSpoken
  <2>3. IsSeq(ss) /\ DOMAIN ss = 1 .. n
    BY <1>1, FunctionIsSeq
  <2>4. CallbackItems(a) = <<Err>> \/ CallbackItems(a) = FlattenSeq(ss)
    BY Zenon DEF CallbackItems, calls
  <2> HIDE DEF ss
  <2> QED
    BY <2>2, <2>3, <2>4, FlattenSpoken
<1> QED
  BY <1>3, <1>4, <1>5 DEF Completed

(* A span is its four fields.                                               *)
SpanOf(open, errored, ok, error) == [open |-> open, errored |-> errored, ok |-> ok, error |-> error]

(* Its fields.                                                              *)
LEMMA SpanFields ==
  ASSUME NEW s, NEW o, NEW e, NEW k, NEW r, s = SpanOf(o, e, k, r)
  PROVE  s.open = o /\ s.errored = e /\ s.ok = k /\ s.error = r
BY DEF SpanOf

(* Open or not changed.                                                     *)
LEMMA SpanOpened ==
  ASSUME NEW s, NEW o, NEW e, NEW k, NEW r, s = SpanOf(o, e, k, r)
  PROVE  \A v : [s EXCEPT !.open = v] = SpanOf(v, e, k, r)
BY DEF SpanOf

(* Its mark changed.                                                        *)
LEMMA SpanErrored ==
  ASSUME NEW s, NEW o, NEW e, NEW k, NEW r, s = SpanOf(o, e, k, r)
  PROVE  \A v : [s EXCEPT !.errored = v] = SpanOf(o, v, k, r)
BY DEF SpanOf

(* Its count of successes changed.                                          *)
LEMMA SpanOk ==
  ASSUME NEW s, NEW o, NEW e, NEW k, NEW r, s = SpanOf(o, e, k, r)
  PROVE  \A v : [s EXCEPT !.ok = v] = SpanOf(o, e, v, r)
BY DEF SpanOf

(* Its count of errors changed.                                             *)
LEMMA SpanError ==
  ASSUME NEW s, NEW o, NEW e, NEW k, NEW r, s = SpanOf(o, e, k, r)
  PROVE  \A v : [s EXCEPT !.error = v] = SpanOf(o, e, k, v)
BY DEF SpanOf

(* The steps that change two.                                               *)
Refuse(s, open, v) == [s EXCEPT !.open = open, !.errored = v]
EndOk(s, open) == [s EXCEPT !.open = open, !.ok = @ + 1]
EndError(s, open) == [s EXCEPT !.open = open, !.error = @ + 1]

(* A span opened and marked.                                                *)
LEMMA SpanRefused ==
  ASSUME NEW s, NEW o, NEW e, NEW k, NEW r, s = SpanOf(o, e, k, r)
  PROVE  \A open, v : Refuse(s, open, v) = SpanOf(open, v, k, r)
<1> TAKE open, v
<1> DEFINE t == [s EXCEPT !.open = open]
<1>1. t = SpanOf(open, e, k, r)
  BY SpanOpened
<1>2. [s EXCEPT !.open = open, !.errored = v] = [t EXCEPT !.errored = v]
  OBVIOUS
<1> HIDE DEF t
<1>3. \A w : [t EXCEPT !.errored = w] = SpanOf(open, w, k, r)
  BY <1>1, SpanErrored
<1> QED
  BY <1>2, <1>3, Zenon DEF Refuse

(* A span that ends well.                                                   *)
LEMMA SpanEndsOk ==
  ASSUME NEW s, NEW o, NEW e, s = SpanOf(o, e, 0, 0)
  PROVE  \A open : EndOk(s, open) = SpanOf(open, e, 1, 0)
<1> TAKE open
<1> DEFINE t == [s EXCEPT !.open = open]
<1>1. t = SpanOf(open, e, 0, 0)
  BY SpanOpened
<1>2. s.ok = 0 /\ 0 + 1 = 1
  BY SpanFields
<1>3. [s EXCEPT !.open = open, !.ok = @ + 1] = [s EXCEPT !.open = open, !.ok = 1]
  BY <1>2, Zenon
<1>4. [s EXCEPT !.open = open, !.ok = 1] = [t EXCEPT !.ok = 1]
  OBVIOUS
<1> HIDE DEF t
<1>5. \A v : [t EXCEPT !.ok = v] = SpanOf(open, e, v, 0)
  BY <1>1, SpanOk
<1> QED
  BY <1>3, <1>4, <1>5, Zenon DEF EndOk

(* A span that ends with an error.                                          *)
LEMMA SpanEndsError ==
  ASSUME NEW s, NEW o, NEW e, s = SpanOf(o, e, 0, 0)
  PROVE  \A open : EndError(s, open) = SpanOf(open, e, 0, 1)
<1> TAKE open
<1> DEFINE t == [s EXCEPT !.open = open]
<1>1. t = SpanOf(open, e, 0, 0)
  BY SpanOpened
<1>2. s.error = 0 /\ 0 + 1 = 1
  BY SpanFields
<1>3. [s EXCEPT !.open = open, !.error = @ + 1] = [s EXCEPT !.open = open, !.error = 1]
  BY <1>2, Zenon
<1>4. [s EXCEPT !.open = open, !.error = 1] = [t EXCEPT !.error = 1]
  OBVIOUS
<1> HIDE DEF t
<1>5. \A v : [t EXCEPT !.error = v] = SpanOf(open, e, 0, v)
  BY <1>1, SpanError
<1> QED
  BY <1>3, <1>4, <1>5, Zenon DEF EndError

(* An error was said.                                                       *)
SaidErr(s) == \E i \in DOMAIN s : s[i] = Err

(* A span under way, and one that has ended, after an error or without.     *)
Running(open, errored) == SpanOf(open, errored, 0, 0)
Ended(errored) == SpanOf(FALSE, errored, IF errored THEN 0 ELSE 1, IF errored THEN 1 ELSE 0)

(* The span of a call counts what its caller was told: it is marked once an *)
(* error was yielded, and ends with the call.                               *)
SpanInv ==
  /\ answer \in Answers /\ IsSeq(out)
  /\ phase \in {"idle", "streaming", "ended", "over"}
  /\ phase = "idle" => out = <<>>
  /\ IF phase = "over" THEN span = Ended(SaidErr(out))
                       ELSE \E open : span = Running(open, SaidErr(out))

(* A stream's end, for whatever it yielded.                                 *)
LEMMA Emits ==
  ASSUME NEW s, NEW o, NEW e \in BOOLEAN, s = Running(o, e)
  PROVE  Emit(s) = Ended(e)
<1>1. s = SpanOf(o, e, 0, 0)
  BY Zenon DEF Running
<1>2. s.errored = e
  BY <1>1, SpanFields
<1>3. /\ [s EXCEPT !.open = FALSE, !.error = @ + 1] = SpanOf(FALSE, e, 0, 1)
      /\ [s EXCEPT !.open = FALSE, !.ok = @ + 1] = SpanOf(FALSE, e, 1, 0)
  <2> DEFINE x == e
  <2>1. s = SpanOf(o, x, 0, 0)
    BY <1>1, Zenon
  <2> HIDE DEF x
  <2>2. \A open : EndError(s, open) = SpanOf(open, x, 0, 1)
    BY <2>1, SpanEndsError
  <2>3. \A open : EndOk(s, open) = SpanOf(open, x, 1, 0)
    BY <2>1, SpanEndsOk
  <2> QED
    BY <2>2, <2>3, Zenon DEF x, EndError, EndOk
<1>4. CASE e = TRUE
  BY <1>2, <1>3, <1>4, Zenon DEF Emit, Ended
<1>5. CASE e = FALSE
  BY <1>2, <1>3, <1>5, Zenon DEF Emit, Ended
<1> QED
  BY <1>4, <1>5

(* A call that has not begun has said nothing.                              *)
LEMMA SpanInit == Init => SpanInv
<1> SUFFICES ASSUME Init PROVE SpanInv
  OBVIOUS
<1>1. out = <<>> /\ phase = "idle" /\ answer \in Answers
      /\ span = [open |-> FALSE, errored |-> FALSE, ok |-> 0, error |-> 0]
  BY DEF Init
<1>2. IsSeq(<<>>)
  BY NoneSpoken DEF Spoken
<1>3. SaidErr(out) = FALSE
  BY <1>1 DEF SaidErr
<1>4. span = Running(FALSE, SaidErr(out))
  BY <1>1, <1>3, Zenon DEF Running, SpanOf
<1> QED
  BY <1>1, <1>2, <1>4 DEF SpanInv

(* The only event of a call that was answered at once says what it says.    *)
LEMMA Answered ==
  ASSUME SpanInv, phase = "idle", IsSeq(out'), phase' = "over", UNCHANGED answer,
         \/ span' = Refused /\ SaidErr(out')
         \/ span' = Emit(Started) /\ ~SaidErr(out')
  PROVE  SpanInv'
<1>1. PICK o : span = Running(o, FALSE)
  <2>1. SaidErr(out) = FALSE
    BY DEF SpanInv, SaidErr
  <2> QED
    BY <2>1 DEF SpanInv
<1>2. span = SpanOf(o, FALSE, 0, 0)
  BY <1>1, Zenon DEF Running
<1>3. Started = Running(TRUE, FALSE) /\ Refused = Emit(Running(TRUE, TRUE))
  <2> DEFINE none == FALSE
  <2>0. span = SpanOf(o, none, 0, 0)
    BY <1>2, Zenon
  <2> HIDE DEF none
  <2>1. \A v : [span EXCEPT !.open = v] = SpanOf(v, none, 0, 0)
    BY <2>0, SpanOpened
  <2>2. \A open, v : Refuse(span, open, v) = SpanOf(open, v, 0, 0)
    BY <2>0, SpanRefused
  <2> QED
    BY <2>1, <2>2, Zenon DEF Started, Refused, Running, none, Refuse
<1>4. span' = Ended(SaidErr(out'))
  <2>1. CASE span' = Refused /\ SaidErr(out')
    <3>1. SaidErr(out') = TRUE
      BY <2>1 DEF SaidErr
    <3>2. span' = Ended(TRUE)
      BY <1>3, <2>1, Emits
    <3> QED
      BY <3>1, <3>2, Zenon
  <2>2. CASE span' = Emit(Started) /\ ~SaidErr(out')
    <3>1. SaidErr(out') = FALSE
      BY <2>2 DEF SaidErr
    <3>2. span' = Ended(FALSE)
      BY <1>3, <2>2, Emits
    <3> QED
      BY <3>1, <3>2, Zenon
  <2> QED
    BY <2>1, <2>2
<1> QED
  BY <1>4 DEF SpanInv

(* An error alone is an error said, items without one are none.             *)
LEMMA ErrSaid ==
  /\ IsSeq(<<Err>>) /\ SaidErr(<<Err>>)
  /\ \A s : Spoken(s) => IsSeq(s) /\ ~SaidErr(s)
<1> DEFINE s == <<Err>>
<1>1. s = [i \in 1 .. 1 |-> s[i]] /\ s[1] = Err
  OBVIOUS
<1> HIDE DEF s
<1>2. IsSeq(s) /\ DOMAIN s = 1 .. 1
  BY <1>1, FunctionIsSeq
<1>3. SaidErr(s)
  BY <1>1, <1>2 DEF SaidErr
<1>4. Err.kind = "Err"
  BY DEF Err, Chunk
<1>5. \A t : Spoken(t) => IsSeq(t) /\ ~SaidErr(t)
  BY <1>4 DEF Spoken, SaidErr
<1> QED
  BY <1>2, <1>3, <1>5 DEF s

(* Every step keeps the span in step with what was said.                    *)
LEMMA SpanNext == SpanInv /\ [Next]_vars => SpanInv'
<1> SUFFICES ASSUME SpanInv, [Next]_vars PROVE SpanInv'
  OBVIOUS
<1>1. ASSUME NEW reachable \in BOOLEAN, Complete(reachable)
      PROVE  SpanInv'
  <2>1. /\ phase = "idle" /\ phase' = "over" /\ UNCHANGED answer
        /\ out' = IF reachable THEN Completed(provider, answer) ELSE <<Err>>
        /\ span' = IF out' = <<Err>> THEN Refused ELSE Emit(Started)
    BY <1>1 DEF Complete
  <2>2. out' = <<Err>> \/ Spoken(out')
    BY <2>1, CompletedSpeaks DEF SpanInv
  <2>3. CASE out' = <<Err>>
    <3>1. IsSeq(out') /\ SaidErr(out') /\ span' = Refused
      BY <2>1, <2>3, ErrSaid
    <3> QED
      BY <2>1, <3>1, Answered
  <2>4. CASE out' # <<Err>>
    <3>1. IsSeq(out') /\ ~SaidErr(out') /\ span' = Emit(Started)
      BY <2>1, <2>2, <2>4, ErrSaid
    <3> QED
      BY <2>1, <3>1, Answered
  <2> QED
    BY <2>3, <2>4
<1>2. ASSUME OpenFails
      PROVE  SpanInv'
  <2>1. phase = "idle" /\ phase' = "over" /\ UNCHANGED answer /\ out' = <<Err>> /\ span' = Refused
    BY <1>2 DEF OpenFails
  <2>2. IsSeq(out') /\ SaidErr(out')
    BY <2>1, ErrSaid
  <2> QED
    BY <2>1, <2>2, Answered
<1>3. ASSUME OpenSse \/ OpenNdjson \/ OpenIter
      PROVE  SpanInv'
  <2>1. phase = "idle" /\ phase' = "streaming" /\ UNCHANGED <<answer, out>> /\ span' = [span EXCEPT !.open = TRUE]
    BY <1>3 DEF OpenSse, OpenNdjson, OpenIter, OpenBody, Started
  <2>2. PICK o : span = Running(o, SaidErr(out))
    BY <2>1 DEF SpanInv
  <2>3. span' = Running(TRUE, SaidErr(out))
    <3>1. \A b : [span EXCEPT !.open = b] = SpanOf(b, SaidErr(out), 0, 0)
      BY <2>2, SpanOpened DEF Running
    <3> QED
      BY <2>1, <3>1, Zenon DEF Running
  <2> QED
    BY <2>1, <2>3 DEF SpanInv, SaidErr
<1>4. ASSUME (\E n \in DOMAIN body : Frame(n)) \/ FrameFails \/ TakeSse \/ TakeNdjson
      PROVE  SpanInv'
  <2>1. UNCHANGED <<answer, out, span, phase>>
    BY <1>4 DEF Frame, FrameFails, TakeSse, TakeNdjson
  <2> QED
    BY <2>1 DEF SpanInv, SaidErr
<1>5. ASSUME Yield
      PROVE  SpanInv'
  <2> DEFINE c == Head(pending)
  <2> HIDE DEF c
  <2>1. /\ phase = "streaming" /\ out' = Append(out, c) /\ UNCHANGED answer
        /\ span' = [span EXCEPT !.errored = @ \/ c = Err] /\ phase' \in {"streaming", "ended"}
    BY <1>5 DEF Yield, c
  <2>2. PICK o : span = Running(o, SaidErr(out))
    BY <2>1 DEF SpanInv
  <2>3. /\ IsSeq(out') /\ DOMAIN out' = 1 .. Len(out) + 1
        /\ \A i \in 1 .. Len(out) : out'[i] = out[i]
        /\ out'[Len(out) + 1] = c
    BY <2>1, AppendIs DEF SpanInv
  <2>4. DOMAIN out = 1 .. Len(out) /\ Len(out) \in Nat
    BY DEF SpanInv, IsSeq
  <2>5. SaidErr(out') = (SaidErr(out) \/ c = Err)
    <3>1. Len(out) + 1 \in DOMAIN out' /\ \A i \in DOMAIN out' : i = Len(out) + 1 \/ i \in DOMAIN out
      BY <2>3, <2>4
    <3>2. \A i \in DOMAIN out : i \in DOMAIN out' /\ out'[i] = out[i]
      BY <2>3, <2>4
    <3> QED
      BY <2>3, <3>1, <3>2 DEF SaidErr
  <2>6. span.errored = SaidErr(out)
    BY <2>2, SpanFields DEF Running
  <2>7. span' = [span EXCEPT !.errored = SaidErr(out')]
    BY <2>1, <2>5, <2>6, Zenon
  <2>8. span' = Running(o, SaidErr(out'))
    <3>1. \A v : [span EXCEPT !.errored = v] = SpanOf(o, v, 0, 0)
      BY <2>2, SpanErrored DEF Running
    <3> QED
      BY <2>7, <3>1, Zenon DEF Running
  <2> QED
    BY <2>1, <2>3, <2>8 DEF SpanInv
<1>6. ASSUME StreamEnds
      PROVE  SpanInv'
  <2>1. phase = "streaming" /\ phase' = "ended" /\ UNCHANGED <<answer, out, span>>
    BY <1>6 DEF StreamEnds, Polled
  <2> QED
    BY <2>1 DEF SpanInv, SaidErr
<1>7. ASSUME DropStream
      PROVE  SpanInv'
  <2>1. phase \in {"streaming", "ended"} /\ phase' = "over" /\ span' = Emit(span) /\ UNCHANGED <<answer, out>>
    BY <1>7 DEF DropStream
  <2>2. SaidErr(out) \in BOOLEAN
    BY DEF SaidErr
  <2>3. PICK o : span = Running(o, SaidErr(out))
    BY <2>1 DEF SpanInv
  <2>4. span' = Ended(SaidErr(out))
    BY <2>1, <2>2, <2>3, Emits
  <2> QED
    BY <2>1, <2>4 DEF SpanInv, SaidErr
<1>8. CASE UNCHANGED vars
  BY <1>8 DEF vars, SpanInv, SaidErr
<1> QED
  BY <1>1, <1>2, <1>3, <1>4, <1>5, <1>6, <1>7, <1>8 DEF Next

(* Every model call leaves exactly one llm event, whatever it answers and   *)
(* wherever its stream is dropped, and the event says error exactly when    *)
(* the caller was given one (LlmSpan).                                      *)
THEOREM SpanEndsOnce == Spec => []SpanOnce
<1>1. SpanInv => SpanOnce
  <2> SUFFICES ASSUME SpanInv PROVE SpanOnce
    OBVIOUS
  <2>1. CASE phase = "over"
    <3>1. span = Ended(SaidErr(out))
      BY <2>1 DEF SpanInv
    <3>2. span.open = FALSE /\ span.ok = (IF SaidErr(out) THEN 0 ELSE 1) /\ span.error = IF SaidErr(out) THEN 1 ELSE 0
      <4> DEFINE k == IF SaidErr(out) THEN 0 ELSE 1
                 r == IF SaidErr(out) THEN 1 ELSE 0
                 open == FALSE
      <4>1. span = SpanOf(open, SaidErr(out), k, r)
        BY <3>1, Zenon DEF Ended
      <4> HIDE DEF k, r, open
      <4>2. span.open = open /\ span.ok = k /\ span.error = r
        BY <4>1, SpanFields
      <4> QED
        BY <4>2, Zenon DEF k, r, open
    <3>3. CASE SaidErr(out)
      <4>1. ~span.open /\ span.ok + span.error = 1 /\ span.error = 1
        BY <3>2, <3>3
      <4>2. \E i \in DOMAIN out : out[i] = Err
        BY <3>3 DEF SaidErr
      <4> QED
        BY <2>1, <4>1, <4>2, Zenon DEF SpanOnce
    <3>4. CASE ~SaidErr(out)
      <4>1. ~span.open /\ span.ok + span.error = 1 /\ span.error # 1
        BY <3>2, <3>4
      <4>2. ~ \E i \in DOMAIN out : out[i] = Err
        BY <3>4 DEF SaidErr
      <4> QED
        BY <2>1, <4>1, <4>2, Zenon DEF SpanOnce
    <3> QED
      BY <3>3, <3>4
  <2>2. CASE phase # "over"
    <3>1. PICK o : span = Running(o, SaidErr(out))
      BY <2>2 DEF SpanInv
    <3>2. span.errored = SaidErr(out) /\ span.ok = 0 /\ span.error = 0
      BY <3>1, SpanFields DEF Running
    <3> QED
      BY <2>2, <3>2 DEF SpanOnce, SaidErr
  <2> QED
    BY <2>1, <2>2
<1> QED
  BY <1>1, SpanInit, SpanNext, PTL DEF Spec
============================================================================
