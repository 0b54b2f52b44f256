----------------------------- MODULE TlvProofs -----------------------------
(***************************************************************************)
(* What parse_tlvs makes of a byte string, for every byte string: the      *)
(* recursion of its loop has a solution, its result is well formed, and    *)
(* the scanner that follows the bytes one by one keeps in step with it.    *)
(***************************************************************************)
EXTENDS TlvScanner, WellFoundedInduction, TLAPS

-----------------------------------------------------------------------------
(* Induction over the natural numbers, as a fact about sets of them: the form  *)
(* in which the loops of the models are reasoned about.                        *)

\* A set of natural numbers with an element has a least one.
LEMMA LeastElement ==
    ASSUME NEW T \in SUBSET Nat, T # {}
    PROVE  \E x \in T : \A y \in T : x <= y
<1> DEFINE R == {ss \in Nat \X Nat : ss[1] < ss[2]}
<1>1. OpToRel(<, Nat) = R
  BY Zenon DEF OpToRel
<1>2. \E x \in T : \A y \in T : ~(<<y, x>> \in R)
  BY Zenon, NatLessThanWellFounded, <1>1, WFMin
<1>3. \A x, y \in Nat : x < y => <<x, y>> \in R
  OBVIOUS
<1> HIDE DEF R
<1>4. PICK x \in T : \A y \in T : ~(<<y, x>> \in R)
  BY <1>2
<1>5. \A y \in T : ~(y < x)
  BY <1>3, <1>4
<1>6. QED
  BY <1>5

\* A set that holds 0 and with every number the next one holds all of them.
LEMMA SetInduction ==
    ASSUME NEW S, 0 \in S, \A k \in Nat : k \in S => k + 1 \in S
    PROVE  Nat \subseteq S
<1> SUFFICES ASSUME ~(Nat \subseteq S) PROVE FALSE
  OBVIOUS
<1>1. PICK x \in Nat \ S : \A y \in Nat \ S : x <= y
  BY LeastElement
<1>2. x - 1 \in Nat /\ x - 1 \in S
  BY <1>1
<1>3. QED
  BY <1>1, <1>2

\* What a loop over 1..n has computed after each round, from v on and with the given
\* function of the round and the value so far as its body.
Rounds(f, n, V, v, body) ==
    /\ f \in [0..n -> V]
    /\ f[0] = v
    /\ \A i \in 1..n : f[i] = body[<<i, f[i - 1]>>]

\* Such a loop computes something.
LEMMA PrimitiveRecursion ==
    ASSUME NEW V, NEW n \in Nat, NEW v \in V, NEW body, body \in [(1..n) \X V -> V]
    PROVE  \E f : Rounds(f, n, V, v, body)
<1> DEFINE Runs(f, k) == Rounds(f, k, V, v, body)
           S == {k \in Nat : k <= n => \E f : Runs(f, k)}
<1> USE DEF Rounds
<1>1. 0 \in S
  <2>1. Runs([i \in 0..0 |-> v], 0)
    OBVIOUS
  <2>2. QED
    BY <2>1
<1>2. ASSUME NEW k \in Nat, k \in S PROVE k + 1 \in S
  <2>1. SUFFICES ASSUME k + 1 <= n PROVE \E f : Runs(f, k + 1)
    BY <1>2
  <2>2. PICK f : Runs(f, k)
    BY <1>2, <2>1
  <2>3. body[<<k + 1, f[k]>>] \in V
    BY <2>1, <2>2
  <2> DEFINE g == [i \in 0..(k + 1) |-> IF i = k + 1 THEN body[<<k + 1, f[k]>>] ELSE f[i]]
  <2>4. g \in [0..(k + 1) -> V]
    BY <2>2, <2>3
  <2>5. g[k + 1] = body[<<k + 1, f[k]>>] /\ \A i \in 0..k : g[i] = f[i]
    OBVIOUS
  <2> HIDE DEF g
  <2>6. g[0] = v
    BY <2>2, <2>5
  <2>7. ASSUME NEW i \in 1..(k + 1) PROVE g[i] = body[<<i, g[i - 1]>>]
    <3>1. CASE i = k + 1
      <4>1. i - 1 = k /\ k \in 0..k
        BY <3>1
      <4>2. QED
        BY <2>5, <3>1, <4>1
    <3>2. CASE i # k + 1
      <4>1. i \in 1..k /\ i \in 0..k /\ i - 1 \in 0..k
        BY <3>2
      <4>2. QED
        BY <2>2, <2>5, <4>1
    <3>3. QED
      BY <3>1, <3>2
  <2>8. QED
    BY <2>4, <2>6, <2>7
<1>3. n \in S
  <2> HIDE DEF S
  <2>1. QED
    BY <1>1, <1>2, SetInduction
<1>4. PICK f : Runs(f, n)
  BY <1>3
<1>5. QED
  BY <1>4

\* A loop whose start and body stay within the set V of values does so throughout.
LEMMA RecursionType ==
    ASSUME NEW V, NEW n \in Nat, NEW g, g[0] \in V,
           \A i \in 1..n : g[i - 1] \in V => g[i] \in V
    PROVE  \A i \in 0..n : g[i] \in V
<1> DEFINE S == {k \in Nat : k <= n => g[k] \in V}
<1>1. 0 \in S
  OBVIOUS
<1>2. ASSUME NEW k \in Nat, k \in S PROVE k + 1 \in S
  <2>1. k + 1 <= n => k + 1 \in 1..n /\ (k + 1) - 1 = k
    OBVIOUS
  <2>2. QED
    BY <1>2, <2>1
<1>3. Nat \subseteq S
  <2> HIDE DEF S
  <2>1. QED
    BY <1>1, <1>2, SetInduction
<1>4. QED
  BY <1>3

-----------------------------------------------------------------------------
(* What parse_tlvs returns. *)

\* The blocks the loop can push.
TlvBlocks ==
    {Block(t, <<>>) : t \in {TLV_NULL, TLV_TERMINATOR}}
        \cup {Block(t, v) : t \in ValueTags, v \in Seq(Byte)}
        \cup {Block(TLV_LOCK_CONTROL, LockControlFromBytes(v)) :
                 v \in {w \in Seq(Byte) : Len(w) = 3 /\ LockControlFromBytes(w) # None}}
        \cup {Block(TLV_MEMORY_CONTROL, MemoryControlFromBytes(v)) :
                 v \in {w \in Seq(Byte) : Len(w) = 3 /\ MemoryControlFromBytes(w) # None}}

\* The errors of the loop (type2/tlv.rs:250-330).
ParseErrors == {"invalid_tlv", "buffer_full"}

\* What the loop does with one block that ends before offset n.
Outcomes(o, n) ==
    [status : {"ok"}, tlvs : {<<>>} \cup {<<b>> : b \in TlvBlocks}, next : (o + 1)..n]
        \cup [status : ParseErrors, tlvs : {<<>>}]

-----------------------------------------------------------------------------

\* The special tags are different bytes.
LEMMA TagsDiffer ==
    /\ TLV_NULL # TLV_TERMINATOR
    /\ TLV_TERMINATOR \notin ControlTags \cup ValueTags
    /\ TLV_NULL \notin ControlTags \cup ValueTags
    /\ ControlTags \cap ValueTags = {}
    /\ TLV_LOCK_CONTROL # TLV_MEMORY_CONTROL
    /\ TLV_NDEF_MESSAGE # TLV_PROPRIETARY
  BY TlvAssumption
  DEF TLV_NULL, TLV_TERMINATOR, ControlTags, ValueTags, TLV_LOCK_CONTROL,
      TLV_MEMORY_CONTROL, TLV_NDEF_MESSAGE, TLV_PROPRIETARY

\* A length field lies within the bytes (src/tlv.rs:34-51).
LEMMA LengthField ==
    ASSUME NEW d \in Seq(Byte), NEW o \in Nat,
           parse_tlv_length(d, o) # None
    PROVE  LET l == parse_tlv_length(d, o)
           IN /\ l \in [len : Nat, size : {1, 3}]
              /\ o + l.size <= Len(d)
              /\ l = IF d[o + 1] < LONG_LENGTH THEN [len |-> d[o + 1], size |-> 1]
                     ELSE [len |-> d[o + 2] * BYTE + d[o + 3], size |-> 3]
<1>1. BYTE \in Nat /\ \A i \in 1..Len(d) : d[i] \in Nat
  BY TlvAssumption DEF Byte
<1>2. \A i, j \in 1..Len(d) : d[i] * BYTE + d[j] \in Nat
  BY <1>1
<1>3. CASE d[o + 1] < LONG_LENGTH
  <2>1. o < Len(d) /\ parse_tlv_length(d, o) = [len |-> d[o + 1], size |-> 1]
    BY <1>1, <1>3 DEF parse_tlv_length
  <2>2. QED
    BY <1>1, <1>3, <2>1
<1>4. CASE ~(d[o + 1] < LONG_LENGTH)
  <2>1. /\ o + 3 <= Len(d)
        /\ parse_tlv_length(d, o) = [len |-> d[o + 2] * BYTE + d[o + 3], size |-> 3]
    BY <1>1, <1>4 DEF parse_tlv_length
  <2>2. QED
    BY <1>2, <1>4, <2>1
<1>5. QED
  BY <1>3, <1>4

\* The bytes of a value are bytes, and as many as asked for.
LEMMA SliceBytes ==
    ASSUME NEW d \in Seq(Byte), NEW o \in Nat, NEW n \in Nat, o + n <= Len(d)
    PROVE  Slice(d, o, n) \in Seq(Byte) /\ Len(Slice(d, o, n)) = n
  BY DEF Slice

\* Pushing a block, skipping one and giving up are the outcomes there are.
LEMMA OutcomesBuilt ==
    ASSUME NEW o \in Nat, NEW m \in Nat
    PROVE  /\ \A b \in TlvBlocks, n \in (o + 1)..m : Goes(<<b>>, n) \in Outcomes(o, m)
           /\ \A n \in (o + 1)..m : Goes(<<>>, n) \in Outcomes(o, m)
           /\ \A e \in ParseErrors : Fails(e) \in Outcomes(o, m)
  BY DEF Goes, Fails, Outcomes

\* A block is pushed, skipped or refused (type2/tlv.rs:257-326).
LEMMA TakeBlockShape ==
    ASSUME NEW t \in Byte, NEW v \in Seq(Byte), NEW o \in Nat, NEW m \in Nat,
           NEW n \in (o + 1)..m
    PROVE  TakeBlock(t, v, n) \in Outcomes(o, m)
<1>1. /\ \A b \in TlvBlocks : Goes(<<b>>, n) \in Outcomes(o, m)
      /\ Goes(<<>>, n) \in Outcomes(o, m)
      /\ \A e \in ParseErrors : Fails(e) \in Outcomes(o, m)
  BY OutcomesBuilt
<1>4. t \in ValueTags => Block(t, v) \in TlvBlocks
  BY DEF TlvBlocks
<1>5. Len(v) = 3 =>
         /\ LockControlFromBytes(v) # None
               => Block(TLV_LOCK_CONTROL, LockControlFromBytes(v)) \in TlvBlocks
         /\ MemoryControlFromBytes(v) # None
               => Block(TLV_MEMORY_CONTROL, MemoryControlFromBytes(v)) \in TlvBlocks
  BY DEF TlvBlocks
<1>6. QED
  BY <1>1, <1>4, <1>5
  DEF TakeBlock, ControlBlock, ControlTags, ParseErrors

\* The loop advances, and never past the end (type2/tlv.rs:253-327).
LEMMA TlvAtShape ==
    ASSUME NEW d \in Seq(Byte), NEW o \in 0..(Len(d) - 1)
    PROVE  TlvAt(d, o) \in Outcomes(o, Len(d))
<1>0. d[o + 1] \in Byte /\ Len(d) \in Nat /\ o + 1 \in (o + 1)..Len(d)
  OBVIOUS
<1>1. Block(TLV_NULL, <<>>) \in TlvBlocks /\ Block(TLV_TERMINATOR, <<>>) \in TlvBlocks
  BY DEF TlvBlocks
<1>2. CASE d[o + 1] = TLV_NULL
  <2>1. TlvAt(d, o) = Goes(<<Block(TLV_NULL, <<>>)>>, o + 1)
    BY <1>2, TagsDiffer DEF TlvAt
  <2>2. QED
    BY <1>0, <1>1, <2>1, OutcomesBuilt
<1>3. CASE d[o + 1] # TLV_NULL /\ d[o + 1] = TLV_TERMINATOR
  <2>1. TlvAt(d, o) = Goes(<<Block(TLV_TERMINATOR, <<>>)>>, Len(d))
    BY <1>3 DEF TlvAt, AfterTerminator
  <2>2. QED
    BY <1>0, <1>1, <2>1, OutcomesBuilt
<1>4. CASE d[o + 1] # TLV_NULL /\ d[o + 1] # TLV_TERMINATOR
  <2> DEFINE l == parse_tlv_length(d, o + 1)
  <2>1. TlvAt(d, o) = IF l = None THEN Fails("invalid_tlv")
                      ELSE BlockAt(d, d[o + 1], o + 1 + l.size, l.len)
    BY <1>4 DEF TlvAt
  <2>2. Fails("invalid_tlv") \in Outcomes(o, Len(d))
    BY <1>0, OutcomesBuilt DEF ParseErrors
  <2>3. CASE l # None
    <3>1. l.len \in Nat /\ l.size \in {1, 3}
      BY <1>0, <2>3, LengthField
    <3> HIDE DEF l
    <3>2. o + 1 + l.size \in Nat
      BY <3>1
    <3>3. CASE o + 1 + l.size + l.len <= Len(d)
      <4>1. Slice(d, o + 1 + l.size, l.len) \in Seq(Byte)
        BY <3>1, <3>2, <3>3, SliceBytes
      <4>2. o + 1 + l.size + l.len \in (o + 1)..Len(d)
        BY <3>1, <3>3
      <4>3. TakeBlock(d[o + 1], Slice(d, o + 1 + l.size, l.len), o + 1 + l.size + l.len)
               \in Outcomes(o, Len(d))
        BY <1>0, <4>1, <4>2, TakeBlockShape
      <4>4. QED
        BY <2>1, <2>3, <3>1, <3>3, <4>3 DEF BlockAt
    <3>4. CASE ~(o + 1 + l.size + l.len <= Len(d))
      BY <2>1, <2>2, <2>3, <3>1, <3>4 DEF BlockAt
    <3>5. QED
      BY <3>3, <3>4
  <2>4. QED
    BY <2>1, <2>2, <2>3
<1>5. QED
  BY <1>2, <1>3, <1>4

-----------------------------------------------------------------------------

\* What is made of no bytes.
Nothing == [status |-> "ok", tlvs |-> <<>>]

\* f is what the loop makes of the bytes of d from offset m on.
Solves(f, d, m) ==
    \A o \in m..Len(d) : f[o] = IF o = Len(d) THEN Nothing ELSE Then(TlvAt(d, o), f)

\* The loop at an offset asks only for what comes behind it.
LEMMA ThenLooksAhead ==
    ASSUME NEW d \in Seq(Byte), NEW o \in 0..(Len(d) - 1), NEW f, NEW g,
           \A p \in (o + 1)..Len(d) : f[p] = g[p]
    PROVE  Then(TlvAt(d, o), f) = Then(TlvAt(d, o), g)
<1>1. TlvAt(d, o) \in Outcomes(o, Len(d))
  BY TlvAtShape
<1>2. TlvAt(d, o).status = "ok" => TlvAt(d, o).next \in (o + 1)..Len(d)
  BY <1>1 DEF Outcomes, ParseErrors
<1>3. TlvAt(d, o).status = "ok" => f[TlvAt(d, o).next] = g[TlvAt(d, o).next]
  BY <1>2
<1>4. QED
  BY <1>3 DEF Then

\* So the recursion has a solution, found from the end of the bytes backwards.
LEMMA RestSolvable ==
    ASSUME NEW d \in Seq(Byte)
    PROVE  \E f : Solves(f, d, 0)
<1> DEFINE S == {k \in Nat : k <= Len(d) => \E f : Solves(f, d, Len(d) - k)}
<1>0. Len(d) \in Nat
  OBVIOUS
<1>1. 0 \in S
  <2> DEFINE f == [o \in {Len(d)} |-> Nothing]
  <2>1. f[Len(d)] = Nothing
    OBVIOUS
  <2> HIDE DEF f
  <2>2. Solves(f, d, Len(d) - 0)
    BY <1>0, <2>1 DEF Solves
  <2>3. QED
    BY <2>2
<1>2. ASSUME NEW k \in Nat, k \in S
      PROVE  k + 1 \in S
  <2>1. SUFFICES ASSUME k + 1 <= Len(d)
                 PROVE  \E f : Solves(f, d, Len(d) - (k + 1))
    BY <1>2
  <2>2. PICK f : Solves(f, d, Len(d) - k)
    BY <1>0, <1>2, <2>1
  <2> DEFINE m == Len(d) - (k + 1)
             g == [o \in m..Len(d) |-> IF o = m THEN Then(TlvAt(d, m), f) ELSE f[o]]
  <2>3. m \in 0..(Len(d) - 1) /\ m + 1 = Len(d) - k
    BY <1>0, <2>1
  <2> HIDE DEF m
  <2>4. g[m] = Then(TlvAt(d, m), f) /\ \A p \in (m + 1)..Len(d) : g[p] = f[p]
    BY <2>3
  <2> HIDE DEF g
  <2>5. g[m] = Then(TlvAt(d, m), g)
    BY <2>3, <2>4, ThenLooksAhead
  <2>6. ASSUME NEW o \in (m + 1)..Len(d)
        PROVE  g[o] = IF o = Len(d) THEN Nothing ELSE Then(TlvAt(d, o), g)
    <3>1. f[o] = IF o = Len(d) THEN Nothing ELSE Then(TlvAt(d, o), f)
      BY <2>2, <2>3, <2>6 DEF Solves
    <3>2. o # Len(d) => Then(TlvAt(d, o), f) = Then(TlvAt(d, o), g)
      <4>1. SUFFICES ASSUME o # Len(d) PROVE Then(TlvAt(d, o), f) = Then(TlvAt(d, o), g)
        OBVIOUS
      <4>2. o \in 0..(Len(d) - 1) /\ \A p \in (o + 1)..Len(d) : f[p] = g[p]
        BY <1>0, <2>3, <2>4, <2>6, <4>1
      <4>3. QED
        BY <4>2, ThenLooksAhead
    <3>3. QED
      BY <2>4, <3>1, <3>2
  <2>7. Solves(g, d, m)
    BY <2>3, <2>5, <2>6 DEF Solves
  <2>8. QED
    BY <2>7 DEF m
<1>3. Len(d) \in S
  <2> HIDE DEF S
  <2>1. Nat \subseteq S
    BY <1>1, <1>2, SetInduction
  <2>2. QED
    BY <1>0, <2>1
<1>4. QED
  BY <1>0, <1>3

\* What the loop makes of the bytes from offset o on.
LEMMA RestUnfold ==
    ASSUME NEW d \in Seq(Byte)
    PROVE  RestOf(d) = [o \in 0..Len(d) |->
               IF o = Len(d) THEN Nothing ELSE Then(TlvAt(d, o), RestOf(d))]
<1>1. PICK f : Solves(f, d, 0)
  BY RestSolvable
<1> DEFINE g == [o \in 0..Len(d) |-> f[o]]
<1>2. \A o \in 0..Len(d) : g[o] = f[o]
  OBVIOUS
<1> HIDE DEF g
<1>3. ASSUME NEW o \in 0..Len(d)
      PROVE  g[o] = IF o = Len(d) THEN Nothing ELSE Then(TlvAt(d, o), g)
  <2>1. f[o] = IF o = Len(d) THEN Nothing ELSE Then(TlvAt(d, o), f)
    BY <1>1 DEF Solves
  <2>2. o # Len(d) => Then(TlvAt(d, o), f) = Then(TlvAt(d, o), g)
    BY <1>2, ThenLooksAhead
  <2>3. QED
    BY <1>2, <2>1, <2>2
<1>4. g = [o \in 0..Len(d) |-> IF o = Len(d) THEN Nothing ELSE Then(TlvAt(d, o), g)]
  BY <1>3 DEF g
<1>5. QED
  BY <1>4 DEF RestOf, Nothing

\* parse_tlvs from offset o: nothing at the end of the bytes, and one block and then
\* what follows it before (type2/tlv.rs:250-330).
LEMMA ParseUnfold ==
    ASSUME NEW d \in Seq(Byte), NEW o \in 0..Len(d)
    PROVE  /\ o = Len(d) => ParseFrom(d, o) = Nothing
           /\ o # Len(d) => ParseFrom(d, o) = Then(TlvAt(d, o), RestOf(d))
<1> HIDE DEF RestOf
<1>1. RestOf(d)[o] = IF o = Len(d) THEN Nothing ELSE Then(TlvAt(d, o), RestOf(d))
  BY RestUnfold
<1>2. QED
  BY <1>1 DEF ParseFrom

\* The outcome r of the bytes behind them, behind the outcome t of one block.
LEMMA ThenForm ==
    ASSUME NEW d \in Seq(Byte), NEW o \in 0..(Len(d) - 1),
           TlvAt(d, o).status = "ok",
           ParseFrom(d, TlvAt(d, o).next) \in [status : {"ok"} \cup ParseErrors,
                                               tlvs : Seq(TlvBlocks)]
    PROVE  ParseFrom(d, o) =
               [status |-> ParseFrom(d, TlvAt(d, o).next).status,
                tlvs   |-> TlvAt(d, o).tlvs \o ParseFrom(d, TlvAt(d, o).next).tlvs]
<1>1. ParseFrom(d, o) = Then(TlvAt(d, o), RestOf(d))
  BY ParseUnfold
<1>2. QED
  BY <1>1 DEF Then, ParseFrom

\* What parse_tlvs returns is well formed, whatever the bytes.
LEMMA ParseType ==
    ASSUME NEW d \in Seq(Byte), NEW o \in 0..Len(d)
    PROVE  ParseFrom(d, o) \in [status : {"ok"} \cup ParseErrors, tlvs : Seq(TlvBlocks)]
<1> DEFINE T == [status : {"ok"} \cup ParseErrors, tlvs : Seq(TlvBlocks)]
           S == {k \in Nat : \A p \in 0..Len(d) : Len(d) - p <= k => ParseFrom(d, p) \in T}
<1>0. Len(d) \in Nat
  OBVIOUS
<1>5. <<>> \in Seq(TlvBlocks) /\ \A b \in TlvBlocks : <<b>> \in Seq(TlvBlocks)
  OBVIOUS
<1>6. Nothing \in T /\ [status : ParseErrors, tlvs : {<<>>}] \subseteq T
  BY <1>5 DEF Nothing
<1>1. 0 \in S
  <2>1. ASSUME NEW p \in 0..Len(d), Len(d) - p <= 0 PROVE ParseFrom(d, p) \in T
    <3>1. p = Len(d)
      BY <1>0, <2>1
    <3>2. QED
      BY <1>6, <3>1, ParseUnfold
  <2>2. QED
    BY <2>1
<1>2. ASSUME NEW k \in Nat, k \in S PROVE k + 1 \in S
  <2>1. ASSUME NEW p \in 0..Len(d), Len(d) - p <= k + 1 PROVE ParseFrom(d, p) \in T
    <3>1. CASE p = Len(d)
      BY <1>6, <3>1, ParseUnfold
    <3>2. CASE p # Len(d)
      <4>1. p \in 0..(Len(d) - 1) /\ TlvAt(d, p) \in Outcomes(p, Len(d))
        BY <3>2, TlvAtShape
      <4>2. CASE TlvAt(d, p).status = "ok"
        <5>1. /\ TlvAt(d, p).next \in (p + 1)..Len(d)
              /\ TlvAt(d, p).tlvs \in Seq(TlvBlocks)
          BY <1>5, <4>1, <4>2 DEF Outcomes, ParseErrors
        <5>2. /\ TlvAt(d, p).next \in 0..Len(d)
              /\ Len(d) - TlvAt(d, p).next <= k
          BY <1>0, <2>1, <5>1
        <5>3. ParseFrom(d, TlvAt(d, p).next) \in T
          BY <1>2, <5>2
        <5>4. ParseFrom(d, p) =
                  [status |-> ParseFrom(d, TlvAt(d, p).next).status,
                   tlvs   |-> TlvAt(d, p).tlvs \o ParseFrom(d, TlvAt(d, p).next).tlvs]
          BY <4>1, <4>2, <5>3, ThenForm
        <5>5. QED
          BY <5>1, <5>3, <5>4
      <4>3. CASE TlvAt(d, p).status # "ok"
        <5>1. ParseFrom(d, p) = TlvAt(d, p)
          BY <3>2, <4>3, ParseUnfold DEF Then
        <5>2. TlvAt(d, p) \in [status : ParseErrors, tlvs : {<<>>}]
          BY <4>1, <4>3 DEF Outcomes
        <5>3. QED
          BY <1>6, <5>1, <5>2
      <4>4. QED
        BY <4>2, <4>3
    <3>3. QED
      BY <3>1, <3>2
  <2>2. QED
    BY <2>1
<1>3. Len(d) \in S
  <2> HIDE DEF S
  <2>1. QED
    BY <1>0, <1>1, <1>2, SetInduction
<1>4. QED
  BY <1>0, <1>3

\* So is what its caller gets, the capacity of the list included.
LEMMA ParseTlvsType ==
    ASSUME NEW d \in Seq(Byte)
    PROVE  parse_tlvs(d) \in [status : {"ok"} \cup ParseErrors, tlvs : Seq(TlvBlocks)]
<1>1. 0 \in 0..Len(d)
  OBVIOUS
<1>2. ParseFrom(d, 0) \in [status : {"ok"} \cup ParseErrors, tlvs : Seq(TlvBlocks)]
  BY <1>1, ParseType
<1>3. QED
  BY <1>2 DEF parse_tlvs, WithinCapacity, ParseErrors

-----------------------------------------------------------------------------
(* The scanner and the parser. *)

\* The block at which both stop, and the blocks in front of it.
Terminator == Block(TLV_TERMINATOR, <<>>)

\* What the parser has made of the bytes in front of a block: the blocks p, or the
\* error s, and r is what it makes of the rest.
After(s, p, r) ==
    IF s = "ok" THEN [status |-> r.status, tlvs |-> p \o r.tlvs]
                ELSE [status |-> s, tlvs |-> p]

NoTerminator(p) == \A i \in 1..Len(p) : p[i].tag # TLV_TERMINATOR

\* Offset o of d is the beginning of a block, and stays one however d goes on.
Boundary(d, o) ==
    \E p \in Seq(TlvBlocks), s \in {"ok"} \cup ParseErrors :
        /\ NoTerminator(p)
        /\ \A x \in Seq(Byte) : ParseFrom(d \o x, 0) = After(s, p, ParseFrom(d \o x, o))

\* Where the block at offset o ends.
ValueEnd(d, o) ==
    o + 1 + parse_tlv_length(d, o + 1).size + parse_tlv_length(d, o + 1).len

\* The scanner in state st has read the bytes of d, the last block of which begins
\* at o and is incomplete.
Within(d, o, st) ==
    /\ o < Len(d)
    /\ d[o + 1] \notin {TLV_NULL, TLV_TERMINATOR}
    /\ \/ o + 1 = Len(d) /\ st = ScanState("length", 0)
       \/ o + 2 = Len(d) /\ d[o + 2] = LONG_LENGTH /\ st = ScanState("length_msb", 0)
       \/ o + 3 = Len(d) /\ d[o + 2] = LONG_LENGTH /\ st = ScanState("length_lsb", d[o + 3])
       \/ /\ parse_tlv_length(d, o + 1) # None
          /\ ValueEnd(d, o) > Len(d)
          /\ st = ScanState("value", ValueEnd(d, o) - Len(d))

\* A byte more keeps what is known of the blocks in front.
LEMMA BoundaryGrows ==
    ASSUME NEW d \in Seq(Byte), NEW o \in 0..Len(d), NEW b \in Byte, Boundary(d, o)
    PROVE  Boundary(d \o <<b>>, o)
<1>1. PICK p \in Seq(TlvBlocks), s \in {"ok"} \cup ParseErrors :
         /\ NoTerminator(p)
         /\ \A x \in Seq(Byte) : ParseFrom(d \o x, 0) = After(s, p, ParseFrom(d \o x, o))
  BY DEF Boundary
<1>2. ASSUME NEW x \in Seq(Byte)
      PROVE  ParseFrom((d \o <<b>>) \o x, 0) = After(s, p, ParseFrom((d \o <<b>>) \o x, o))
  <2>1. (d \o <<b>>) \o x = d \o (<<b>> \o x) /\ <<b>> \o x \in Seq(Byte)
    OBVIOUS
  <2>2. QED
    BY <1>1, <2>1
<1>3. QED
  BY <1>1, <1>2 DEF Boundary

\* Concatenation is associative.
LEMMA ConcatTwice ==
    \A p, q, r \in Seq(TlvBlocks) : p \o (q \o r) = (p \o q) \o r
  OBVIOUS

\* A block that reads the same however the bytes go on, and is no Terminator, moves
\* the boundary behind it.
LEMMA BoundaryMoves ==
    ASSUME NEW d \in Seq(Byte), NEW o \in 0..(Len(d) - 1), Boundary(d, o),
           NEW t,
           t.status = "ok" => t.next = Len(d) /\ NoTerminator(t.tlvs),
           \A x \in Seq(Byte) : TlvAt(d \o x, o) = t
    PROVE  Boundary(d, Len(d))
<1>0. Len(d) \in Nat /\ <<>> \in Seq(Byte) /\ d \o <<>> = d
  OBVIOUS
<1>1. PICK p \in Seq(TlvBlocks), s \in {"ok"} \cup ParseErrors :
         /\ NoTerminator(p)
         /\ \A x \in Seq(Byte) : ParseFrom(d \o x, 0) = After(s, p, ParseFrom(d \o x, o))
  BY DEF Boundary
<1>2. t \in Outcomes(o, Len(d))
  BY <1>0, TlvAtShape
<1>3. <<>> \in Seq(TlvBlocks) /\ \A b \in TlvBlocks : <<b>> \in Seq(TlvBlocks)
  OBVIOUS
<1>4. \A x \in Seq(Byte) :
         /\ d \o x \in Seq(Byte) /\ Len(d) \in 0..Len(d \o x)
         /\ o \in 0..(Len(d \o x) - 1) /\ o \in 0..Len(d \o x) /\ o # Len(d \o x)
  OBVIOUS
<1>5. CASE s # "ok"
  BY <1>1, <1>5 DEF Boundary, After
<1>6. CASE s = "ok" /\ t.status # "ok"
  <2>1. t.status \in ParseErrors /\ t.tlvs = <<>>
    BY <1>2, <1>6 DEF Outcomes
  <2>2. ASSUME NEW x \in Seq(Byte)
        PROVE  ParseFrom(d \o x, 0) = After(t.status, p, ParseFrom(d \o x, Len(d)))
    <3>1. ParseFrom(d \o x, o) = Then(t, RestOf(d \o x))
      BY <1>4, ParseUnfold
    <3>2. ParseFrom(d \o x, o) = t
      BY <1>6, <3>1 DEF Then
    <3>3. p \o t.tlvs = p
      BY <2>1
    <3>4. QED
      BY <1>1, <1>6, <3>2, <3>3 DEF After
  <2>3. QED
    BY <1>1, <2>1, <2>2 DEF Boundary
<1>7. CASE s = "ok" /\ t.status = "ok"
  <2>1. t.tlvs \in Seq(TlvBlocks) /\ t.next = Len(d)
    BY <1>2, <1>3, <1>7 DEF Outcomes, ParseErrors
  <2>2. p \o t.tlvs \in Seq(TlvBlocks) /\ NoTerminator(p \o t.tlvs)
    BY <1>1, <1>7, <2>1 DEF NoTerminator
  <2>3. ASSUME NEW x \in Seq(Byte)
        PROVE  ParseFrom(d \o x, 0) = After("ok", p \o t.tlvs, ParseFrom(d \o x, Len(d)))
    <3> DEFINE r == ParseFrom(d \o x, Len(d))
    <3>1. r \in [status : {"ok"} \cup ParseErrors, tlvs : Seq(TlvBlocks)]
      BY <1>4, ParseType
    <3>2. TlvAt(d \o x, o) = t
      OBVIOUS
    <3>3. ParseFrom(d \o x, o) = [status |-> r.status, tlvs |-> t.tlvs \o r.tlvs]
      BY <1>4, <1>7, <2>1, <3>1, <3>2, ThenForm
    <3> HIDE DEF r
    <3>4. r.tlvs \in Seq(TlvBlocks)
      BY <3>1
    <3>5. p \o (t.tlvs \o r.tlvs) = (p \o t.tlvs) \o r.tlvs
      BY <1>1, <2>1, <3>4, ConcatTwice
    <3>6. ParseFrom(d \o x, 0) = [status |-> r.status, tlvs |-> p \o (t.tlvs \o r.tlvs)]
      <4>1. ParseFrom(d \o x, 0) = After(s, p, ParseFrom(d \o x, o))
        BY <1>1
      <4>2. After(s, p, [status |-> r.status, tlvs |-> t.tlvs \o r.tlvs])
               = [status |-> r.status, tlvs |-> p \o (t.tlvs \o r.tlvs)]
        BY <1>7 DEF After
      <4>3. QED
        BY <3>3, <4>1, <4>2
    <3>7. QED
      BY <3>5, <3>6 DEF After, r
  <2>4. QED
    BY <2>2, <2>3 DEF Boundary
<1>8. QED
  BY <1>5, <1>6, <1>7

-----------------------------------------------------------------------------
(* One byte more. *)

\* The block at o ends with d, and is the same however the bytes go on.
Complete(d, o) ==
    /\ o < Len(d)
    /\ \E t : /\ t.status = "ok" => t.next = Len(d) /\ NoTerminator(t.tlvs)
              /\ \A x \in Seq(Byte) : TlvAt(d \o x, o) = t

\* What comes behind a length field does not change it.
LEMMA SameLength ==
    ASSUME NEW d \in Seq(Byte), NEW o \in Nat, NEW x \in Seq(Byte),
           parse_tlv_length(d, o) # None
    PROVE  parse_tlv_length(d \o x, o) = parse_tlv_length(d, o)
<1>1. /\ o < Len(d) /\ (d \o x)[o + 1] = d[o + 1] /\ Len(d \o x) = Len(d) + Len(x)
      /\ Len(d) \in Nat /\ Len(x) \in Nat
  BY DEF parse_tlv_length
<1>2. CASE d[o + 1] < LONG_LENGTH
  BY <1>1, <1>2 DEF parse_tlv_length
<1>3. CASE ~(d[o + 1] < LONG_LENGTH)
  <2>1. o + 3 <= Len(d)
    BY <1>1, <1>3 DEF parse_tlv_length
  <2>2. (d \o x)[o + 2] = d[o + 2] /\ (d \o x)[o + 3] = d[o + 3]
    BY <2>1
  <2>3. QED
    BY <1>1, <1>3, <2>1, <2>2 DEF parse_tlv_length
<1>4. QED
  BY <1>2, <1>3

\* A block other than NULL and Terminator pushes no Terminator and goes on behind
\* its value.
LEMMA TakeBlockGoes ==
    ASSUME NEW t \in Byte \ {TLV_TERMINATOR}, NEW v \in Seq(Byte), NEW n,
           TakeBlock(t, v, n).status = "ok"
    PROVE  TakeBlock(t, v, n).next = n /\ NoTerminator(TakeBlock(t, v, n).tlvs)
<1>1. \A e \in ParseErrors : Fails(e).status # "ok"
  BY DEF Fails, ParseErrors
<1>2. \A w : /\ Goes(<<Block(t, w)>>, n).next = n
             /\ NoTerminator(Goes(<<Block(t, w)>>, n).tlvs)
  BY DEF Goes, NoTerminator, Block
<1>3. Goes(<<>>, n).next = n /\ NoTerminator(Goes(<<>>, n).tlvs)
  BY DEF Goes, NoTerminator
<1>4. "invalid_tlv" \in ParseErrors /\ "buffer_full" \in ParseErrors
  BY DEF ParseErrors
<1>5. \/ \E e \in ParseErrors : TakeBlock(t, v, n) = Fails(e)
      \/ \E w : TakeBlock(t, v, n) = Goes(<<Block(t, w)>>, n)
      \/ TakeBlock(t, v, n) = Goes(<<>>, n)
  BY <1>4 DEF TakeBlock, ControlBlock, ControlTags
<1>6. QED
  BY <1>1, <1>2, <1>3, <1>5

\* Neither does what comes behind a value change it.
LEMMA SameSlice ==
    ASSUME NEW d \in Seq(Byte), NEW x \in Seq(Byte), NEW o \in Nat, NEW n \in Nat,
           o + n <= Len(d)
    PROVE  Slice(d \o x, o, n) = Slice(d, o, n)
  BY DEF Slice

\* The last byte of a value completes its block.
LEMMA ValueComplete ==
    ASSUME NEW d \in Seq(Byte), NEW o \in 0..(Len(d) - 1),
           d[o + 1] \notin {TLV_NULL, TLV_TERMINATOR},
           parse_tlv_length(d, o + 1) # None,
           ValueEnd(d, o) = Len(d)
    PROVE  Complete(d, o)
<1> DEFINE l == parse_tlv_length(d, o + 1)
           v == Slice(d, o + 1 + l.size, l.len)
           t == TakeBlock(d[o + 1], v, Len(d))
<1>1. l.len \in Nat /\ l.size \in {1, 3}
  BY LengthField
<1>2. /\ o + 1 + l.size \in Nat /\ o + 1 + l.size + l.len = Len(d)
      /\ (o + 1 + l.size) + l.len <= Len(d)
  BY <1>1 DEF ValueEnd
<1>3. ASSUME NEW x \in Seq(Byte)
      PROVE  TlvAt(d \o x, o) = t
  <2>1. (d \o x)[o + 1] = d[o + 1]
    OBVIOUS
  <2>2. parse_tlv_length(d \o x, o + 1) = l
    BY SameLength
  <2> HIDE DEF l
  <2>3. TlvAt(d \o x, o) = BlockAt(d \o x, d[o + 1], o + 1 + l.size, l.len)
    BY <2>1, <2>2 DEF TlvAt, l
  <2>4. Len(d \o x) = Len(d) + Len(x) /\ Len(d) \in Nat /\ Len(x) \in Nat
    OBVIOUS
  <2>5. Slice(d \o x, o + 1 + l.size, l.len) = v
    BY <1>1, <1>2, SameSlice
  <2>6. ~(o + 1 + l.size + l.len > Len(d \o x))
    BY <1>2, <2>4
  <2>7. QED
    BY <1>2, <2>3, <2>5, <2>6 DEF BlockAt
<1>4. v \in Seq(Byte) /\ d[o + 1] \in Byte
  <2> HIDE DEF l
  <2>1. v \in Seq(Byte)
    BY <1>1, <1>2, SliceBytes
  <2>2. QED
    BY <2>1
<1>5. t.status = "ok" => t.next = Len(d) /\ NoTerminator(t.tlvs)
  BY <1>4, TakeBlockGoes
<1>6. QED
  BY <1>3, <1>5 DEF Complete

\* So does a NULL byte.
LEMMA NullComplete ==
    ASSUME NEW d \in Seq(Byte), NEW o \in Nat, o + 1 = Len(d), d[o + 1] = TLV_NULL
    PROVE  Complete(d, o)
<1> DEFINE t == Goes(<<Block(TLV_NULL, <<>>)>>, o + 1)
<1>1. t.next = Len(d) /\ NoTerminator(t.tlvs)
  BY TagsDiffer DEF Goes, NoTerminator, Block
<1>2. ASSUME NEW x \in Seq(Byte)
      PROVE  TlvAt(d \o x, o) = t
  <2>1. (d \o x)[o + 1] = TLV_NULL
    OBVIOUS
  <2>2. QED
    BY <2>1, TagsDiffer DEF TlvAt
<1>3. QED
  BY <1>1, <1>2 DEF Complete

\* The scanner by its states.
LEMMA FeedBy ==
    ASSUME NEW b, NEW n
    PROVE  /\ feed(ScanState("tag", n), b)
                  = IF b = TLV_NULL THEN TlvScanner ELSE ScanState("length", 0)
           /\ feed(ScanState("length", n), b)
                  = IF b = LONG_LENGTH THEN ScanState("length_msb", 0) ELSE SkipValue(b)
           /\ feed(ScanState("length_msb", n), b) = ScanState("length_lsb", b)
           /\ feed(ScanState("length_lsb", n), b) = SkipValue(n * BYTE + b)
           /\ feed(ScanState("value", n), b) = SkipByte(n)
  BY DEF feed, ScanState

\* Behind a length field the scanner skips the value, or has nothing to skip.
LEMMA SkipStep ==
    ASSUME NEW d \in Seq(Byte), NEW o \in 0..(Len(d) - 1),
           d[o + 1] \notin {TLV_NULL, TLV_TERMINATOR},
           parse_tlv_length(d, o + 1) # None,
           NEW n \in Nat, n = ValueEnd(d, o) - Len(d)
    PROVE  IF n = 0 THEN Complete(d, o) ELSE Within(d, o, ScanState("value", n))
<1>1. ValueEnd(d, o) \in Nat
  <2>1. o + 1 \in Nat
    OBVIOUS
  <2>2. parse_tlv_length(d, o + 1) \in [len : Nat, size : {1, 3}]
    BY <2>1, LengthField, Zenon
  <2>3. /\ parse_tlv_length(d, o + 1).len \in Nat
        /\ parse_tlv_length(d, o + 1).size \in Nat
    BY <2>2
  <2>4. QED
    BY <2>1, <2>3 DEF ValueEnd
<1>2. CASE n = 0
  <2>1. ValueEnd(d, o) = Len(d)
    BY <1>1, <1>2
  <2>2. QED
    BY <1>2, <2>1, ValueComplete
<1>3. CASE n # 0
  BY <1>1, <1>3 DEF Within
<1>4. QED
  BY <1>2, <1>3

\* A byte that is no Terminator where a tag is expected takes the scanner further
\* into the block, or to its end (reader.rs:676-713).
LEMMA FeedStep ==
    ASSUME NEW d \in Seq(Byte), NEW o \in 0..Len(d), NEW st, NEW b \in Byte,
           (o = Len(d) /\ st = TlvScanner) \/ Within(d, o, st),
           ~Terminates(st, b)
    PROVE  LET e == d \o <<b>>
           IN \/ Within(e, o, feed(st, b))
              \/ feed(st, b) = TlvScanner /\ Complete(e, o)
<1> DEFINE e == d \o <<b>>
<1>0. /\ e \in Seq(Byte) /\ Len(e) = Len(d) + 1 /\ Len(d) \in Nat
      /\ e[Len(d) + 1] = b /\ \A i \in 1..Len(d) : e[i] = d[i]
      /\ o \in 0..(Len(e) - 1) /\ o + 1 \in Nat
  OBVIOUS
<1>1. BYTE \in Nat /\ b \in Nat /\ b <= LONG_LENGTH /\ BYTE > 6
  BY TlvAssumption DEF Byte, LONG_LENGTH
<1> HIDE DEF e
<1>2. CASE o = Len(d) /\ st = TlvScanner
  <2>1. b # TLV_TERMINATOR
    BY <1>2 DEF Terminates, TlvScanner, ScanState
  <2>2. feed(st, b) = IF b = TLV_NULL THEN TlvScanner ELSE ScanState("length", 0)
    BY <1>2, FeedBy DEF TlvScanner
  <2>3. CASE b = TLV_NULL
    BY <1>0, <1>2, <2>2, <2>3, NullComplete DEF e
  <2>4. CASE b # TLV_NULL
    BY <1>0, <1>2, <2>1, <2>2, <2>4 DEF Within, e
  <2>5. QED
    BY <2>3, <2>4
<1>3. CASE Within(d, o, st)
  <2>0. o < Len(d) /\ e[o + 1] \notin {TLV_NULL, TLV_TERMINATOR} /\ e[o + 1] = d[o + 1]
    BY <1>0, <1>3 DEF Within
  <2>1. CASE o + 1 = Len(d) /\ st = ScanState("length", 0)
    <3>1. feed(st, b) = IF b = LONG_LENGTH THEN ScanState("length_msb", 0) ELSE SkipValue(b)
      BY <2>1, FeedBy
    <3>2. e[o + 2] = b
      BY <1>0, <2>1
    <3>3. CASE b = LONG_LENGTH
      BY <1>0, <2>0, <2>1, <3>1, <3>2, <3>3 DEF Within, e
    <3>4. CASE b # LONG_LENGTH
      <4>1. parse_tlv_length(e, o + 1) = [len |-> b, size |-> 1]
        BY <1>0, <1>1, <2>1, <3>2, <3>4 DEF parse_tlv_length, LONG_LENGTH
      <4>2. parse_tlv_length(e, o + 1) # None
        BY <1>1, <4>1, TlvAssumption
      <4>3. b = ValueEnd(e, o) - Len(e)
        BY <1>0, <1>1, <2>1, <4>1 DEF ValueEnd
      <4>4. IF b = 0 THEN Complete(e, o) ELSE Within(e, o, ScanState("value", b))
        BY <1>0, <1>1, <2>0, <4>2, <4>3, SkipStep
      <4>5. QED
        BY <3>1, <3>4, <4>4 DEF SkipValue, e
    <3>5. QED
      BY <3>3, <3>4
  <2>2. CASE o + 2 = Len(d) /\ d[o + 2] = LONG_LENGTH /\ st = ScanState("length_msb", 0)
    <3>1. feed(st, b) = ScanState("length_lsb", b)
      BY <2>2, FeedBy
    <3>2. e[o + 3] = b /\ e[o + 2] = LONG_LENGTH
      BY <1>0, <2>2
    <3>3. QED
      BY <1>0, <2>0, <2>2, <3>1, <3>2 DEF Within, e
  <2>3. CASE /\ o + 3 = Len(d) /\ d[o + 2] = LONG_LENGTH
             /\ st = ScanState("length_lsb", d[o + 3])
    <3> DEFINE n == d[o + 3] * BYTE + b
    <3>1. feed(st, b) = SkipValue(n)
      BY <2>3, FeedBy
    <3>2. e[o + 4] = b /\ e[o + 3] = d[o + 3] /\ e[o + 2] = LONG_LENGTH /\ d[o + 3] \in Nat
      <4>1. d[o + 3] \in Byte
        BY <1>0, <2>3
      <4>2. d[o + 3] \in Nat
        BY <1>1, <4>1 DEF Byte
      <4>3. QED
        BY <1>0, <2>3, <4>2
    <3>3. n \in Nat
      BY <1>1, <3>2
    <3>4. ~(LONG_LENGTH < LONG_LENGTH)
      BY <1>1 DEF LONG_LENGTH
    <3>5. parse_tlv_length(e, o + 1) = [len |-> n, size |-> 3]
      BY <1>0, <2>3, <3>2, <3>4 DEF parse_tlv_length
    <3> HIDE DEF n
    <3>6. parse_tlv_length(e, o + 1) # None
      BY <3>3, <3>5, TlvAssumption
    <3>7. n = ValueEnd(e, o) - Len(e)
      BY <1>0, <2>3, <3>3, <3>5 DEF ValueEnd
    <3>8. IF n = 0 THEN Complete(e, o) ELSE Within(e, o, ScanState("value", n))
      BY <1>0, <2>0, <3>3, <3>6, <3>7, SkipStep
    <3>9. QED
      BY <3>1, <3>8 DEF SkipValue, e
  <2>4. CASE /\ parse_tlv_length(d, o + 1) # None /\ ValueEnd(d, o) > Len(d)
             /\ st = ScanState("value", ValueEnd(d, o) - Len(d))
    <3> DEFINE n == ValueEnd(d, o) - Len(d)
    <3>1. ValueEnd(d, o) \in Nat
      <4>1. /\ parse_tlv_length(d, o + 1).len \in Nat
            /\ parse_tlv_length(d, o + 1).size \in {1, 3}
        BY <1>0, <2>4, LengthField
      <4>2. QED
        BY <1>0, <4>1 DEF ValueEnd
    <3>2. n \in Nat /\ n > 0
      BY <1>0, <2>4, <3>1
    <3>3. parse_tlv_length(e, o + 1) = parse_tlv_length(d, o + 1)
      <4>1. <<b>> \in Seq(Byte)
        OBVIOUS
      <4>2. QED
        BY <1>0, <2>4, <4>1, SameLength DEF e
    <3>4. feed(st, b) = SkipByte(n)
      BY <2>4, FeedBy
    <3>5. n - 1 \in Nat /\ n - 1 = ValueEnd(e, o) - Len(e)
      <4>1. ValueEnd(e, o) = ValueEnd(d, o)
        BY <3>3 DEF ValueEnd
      <4>2. QED
        BY <1>0, <3>1, <3>2, <4>1
    <3>6. IF n - 1 = 0 THEN Complete(e, o) ELSE Within(e, o, ScanState("value", n - 1))
      BY <1>0, <2>0, <2>4, <3>3, <3>5, SkipStep
    <3>7. n <= 1 <=> n - 1 = 0
      BY <3>2
    <3>8. QED
      BY <3>4, <3>6, <3>7 DEF SkipByte, e
  <2>5. QED
    BY <1>3, <2>1, <2>2, <2>3, <2>4 DEF Within
<1>4. QED
  BY <1>2, <1>3

\* The bytes still to skip, and the byte of a long length, fit their types.
LEMMA WithinType ==
    ASSUME NEW d \in Seq(Byte), NEW o \in Nat, NEW st, Within(d, o, st)
    PROVE  /\ st.state \in {"tag", "length", "length_msb", "length_lsb", "value"}
           /\ st.left \in 0..(BYTE * BYTE - 1)
<1>0. BYTE \in Nat /\ BYTE > 6 /\ o + 1 \in Nat
  BY TlvAssumption
<1>1. \A x, y \in 0..(BYTE - 1) : /\ x \in 0..(BYTE * BYTE - 1)
                                  /\ x * BYTE + y \in 0..(BYTE * BYTE - 1)
  <2>1. SUFFICES ASSUME NEW x \in 0..(BYTE - 1), NEW y \in 0..(BYTE - 1)
                 PROVE  /\ x \in 0..(BYTE * BYTE - 1)
                        /\ x * BYTE + y \in 0..(BYTE * BYTE - 1)
    OBVIOUS
  <2>2. x * BYTE >= x /\ x * BYTE <= (BYTE - 1) * BYTE /\ x * BYTE \in Nat
    BY <1>0
  <2>3. (BYTE - 1) * BYTE = BYTE * BYTE - BYTE /\ BYTE * BYTE \in Nat
    BY <1>0
  <2>4. QED
    BY <1>0, <2>2, <2>3
<1>2. CASE o + 3 = Len(d) /\ st = ScanState("length_lsb", d[o + 3])
  <2>1. d[o + 3] \in Byte
    BY <1>2
  <2>2. QED
    BY <1>1, <1>2, <2>1 DEF Byte, ScanState
<1>3. CASE /\ parse_tlv_length(d, o + 1) # None /\ ValueEnd(d, o) > Len(d)
           /\ st = ScanState("value", ValueEnd(d, o) - Len(d))
  <2> DEFINE l == parse_tlv_length(d, o + 1)
  <2>1. /\ l.len \in Nat /\ l.size \in {1, 3} /\ o + 1 + l.size <= Len(d)
        /\ l = IF d[o + 2] < LONG_LENGTH THEN [len |-> d[o + 2], size |-> 1]
               ELSE [len |-> d[o + 3] * BYTE + d[o + 4], size |-> 3]
    BY <1>0, <1>3, LengthField
  <2>2. l.len \in 0..(BYTE * BYTE - 1)
    <3> HIDE DEF l
    <3>1. CASE d[o + 2] < LONG_LENGTH
      <4>1. d[o + 2] \in Byte /\ l.len = d[o + 2]
        BY <2>1, <3>1
      <4>2. QED
        BY <1>1, <4>1 DEF Byte
    <3>2. CASE ~(d[o + 2] < LONG_LENGTH)
      <4>1. l.len = d[o + 3] * BYTE + d[o + 4] /\ l.size = 3
        BY <2>1, <3>2
      <4>2. d[o + 3] \in Byte /\ d[o + 4] \in Byte
        BY <2>1, <4>1
      <4>3. QED
        BY <1>1, <4>1, <4>2 DEF Byte
    <3>3. QED
      BY <3>1, <3>2
  <2>3. ValueEnd(d, o) = o + 1 + l.size + l.len
    BY DEF ValueEnd
  <2> HIDE DEF l
  <2>4. ValueEnd(d, o) - Len(d) \in 0..l.len
    BY <1>3, <2>1, <2>3
  <2>5. ValueEnd(d, o) - Len(d) \in 0..(BYTE * BYTE - 1)
    BY <1>0, <2>2, <2>4
  <2>6. QED
    BY <1>3, <2>5 DEF ScanState
<1>4. CASE st = ScanState("length", 0) \/ st = ScanState("length_msb", 0)
  BY <1>0, <1>1, <1>4 DEF ScanState
<1>5. QED
  BY <1>2, <1>3, <1>4 DEF Within

-----------------------------------------------------------------------------

\* What the parser makes of a Terminator: nothing behind it counts
\* (type2/tlv.rs:261-264).
LEMMA ParseTerminator ==
    ASSUME NEW d \in Seq(Byte), NEW o \in 0..(Len(d) - 1), d[o + 1] = TLV_TERMINATOR
    PROVE  ParseFrom(d, o) = [status |-> "ok", tlvs |-> <<Terminator>>]
<1>1. TlvAt(d, o) = Goes(<<Terminator>>, Len(d))
  BY TagsDiffer DEF TlvAt, AfterTerminator, Terminator
<1>2. ParseFrom(d, Len(d)) = Nothing /\ Len(d) \in 0..Len(d)
  BY ParseUnfold
<1>3. TlvAt(d, o).status = "ok" /\ TlvAt(d, o).next = Len(d)
         /\ TlvAt(d, o).tlvs = <<Terminator>>
  BY <1>1 DEF Goes
<1>4. ParseFrom(d, Len(d)) \in [status : {"ok"} \cup ParseErrors, tlvs : Seq(TlvBlocks)]
  BY <1>2, ParseType
<1>5. ParseFrom(d, o) = [status |-> "ok", tlvs |-> <<Terminator>> \o <<>>]
  <2>1. ParseFrom(d, o) =
            [status |-> ParseFrom(d, TlvAt(d, o).next).status,
             tlvs   |-> TlvAt(d, o).tlvs \o ParseFrom(d, TlvAt(d, o).next).tlvs]
    BY <1>3, <1>4, ThenForm
  <2>2. ParseFrom(d, Len(d)).status = "ok" /\ ParseFrom(d, Len(d)).tlvs = <<>>
    BY <1>2 DEF Nothing
  <2>3. QED
    BY <1>3, <2>1, <2>2
<1>6. <<Terminator>> \o <<>> = <<Terminator>>
  OBVIOUS
<1>7. QED
  BY <1>5, <1>6

\* An incomplete block is an error to the parser (type2/tlv.rs:293-324).
LEMMA IncompleteFails ==
    ASSUME NEW d \in Seq(Byte), NEW o \in 0..Len(d), NEW st, Within(d, o, st)
    PROVE  ParseFrom(d, o).status # "ok"
<1>0. o \in 0..(Len(d) - 1) /\ o # Len(d) /\ Len(d) \in Nat /\ o + 1 \in Nat
  BY DEF Within
<1>1. d[o + 1] # TLV_NULL /\ d[o + 1] # TLV_TERMINATOR
  BY DEF Within
<1> DEFINE l == parse_tlv_length(d, o + 1)
<1>2. l = None \/ ValueEnd(d, o) > Len(d)
  <2>1. CASE o + 1 = Len(d)
    BY <1>0, <2>1 DEF parse_tlv_length
  <2>2. CASE (o + 2 = Len(d) \/ o + 3 = Len(d)) /\ d[o + 2] = LONG_LENGTH
    <3>1. LONG_LENGTH \in Nat
      BY TlvAssumption DEF LONG_LENGTH
    <3>2. QED
      BY <1>0, <2>2, <3>1 DEF parse_tlv_length
  <2>3. QED
    BY <2>1, <2>2 DEF Within
<1>3. TlvAt(d, o) = IF l = None THEN Fails("invalid_tlv")
                    ELSE BlockAt(d, d[o + 1], o + 1 + l.size, l.len)
  BY <1>1 DEF TlvAt
<1>4. TlvAt(d, o) = Fails("invalid_tlv")
  <2>1. CASE l = None
    BY <1>3, <2>1
  <2>2. CASE l # None
    <3>1. ValueEnd(d, o) > Len(d)
      BY <1>2, <2>2
    <3>2. QED
      BY <1>3, <2>2, <3>1 DEF BlockAt, ValueEnd
  <2>3. QED
    BY <2>1, <2>2
<1>5. ParseFrom(d, o) = Then(TlvAt(d, o), RestOf(d))
  BY <1>0, ParseUnfold
<1>6. QED
  BY <1>4, <1>5 DEF Then, Fails

\* The scanner in state st has followed the bytes of d: it is behind a block, or
\* within the last one.
Following(d, st) ==
    \E o \in 0..Len(d) :
        /\ Boundary(d, o)
        /\ (o = Len(d) /\ st = TlvScanner) \/ Within(d, o, st)

\* What the parser makes of d is r, however d goes on.
Settled(d, r) == \A x \in Seq(Byte) : ParseFrom(d \o x, 0) = r

\* The results of the parser that end with a Terminator, or with an error before it.
Stopped(r) ==
    \E s \in {"ok"} \cup ParseErrors, p \in Seq(TlvBlocks) :
        r = After(s, p, [status |-> "ok", tlvs |-> <<Terminator>>])

\* A scanner that has read nothing is in front of the first block.
LEMMA FollowingStarts == Following(<<>>, TlvScanner)
<1>1. <<>> \in Seq(TlvBlocks) /\ NoTerminator(<<>>)
  BY DEF NoTerminator
<1>2. ASSUME NEW x \in Seq(Byte)
      PROVE  ParseFrom(<<>> \o x, 0) = After("ok", <<>>, ParseFrom(<<>> \o x, 0))
  <2>1. <<>> \o x \in Seq(Byte) /\ 0 \in 0..Len(<<>> \o x)
    OBVIOUS
  <2>2. ParseFrom(<<>> \o x, 0)
           \in [status : {"ok"} \cup ParseErrors, tlvs : Seq(TlvBlocks)]
    BY <2>1, ParseType
  <2>3. \A q \in Seq(TlvBlocks) : <<>> \o q = q
    OBVIOUS
  <2>4. QED
    BY <2>2, <2>3 DEF After
<1>3. Boundary(<<>>, 0)
  BY <1>1, <1>2 DEF Boundary
<1>4. QED
  BY <1>3 DEF Following

\* Every byte that is no Terminator keeps the scanner in step with the blocks.
LEMMA FollowingGoesOn ==
    ASSUME NEW d \in Seq(Byte), NEW st, NEW b \in Byte, Following(d, st),
           ~Terminates(st, b)
    PROVE  Following(d \o <<b>>, feed(st, b))
<1> DEFINE e == d \o <<b>>
<1>0. e \in Seq(Byte) /\ Len(e) = Len(d) + 1 /\ Len(d) \in Nat
  OBVIOUS
<1>1. PICK o \in 0..Len(d) :
         /\ Boundary(d, o)
         /\ (o = Len(d) /\ st = TlvScanner) \/ Within(d, o, st)
  BY DEF Following
<1>2. Boundary(e, o)
  BY <1>1, BoundaryGrows
<1>3. Within(e, o, feed(st, b)) \/ (feed(st, b) = TlvScanner /\ Complete(e, o))
  BY <1>1, FeedStep
<1> HIDE DEF e
<1>4. CASE Within(e, o, feed(st, b))
  BY <1>0, <1>1, <1>2, <1>4 DEF Following, e
<1>5. CASE feed(st, b) = TlvScanner /\ Complete(e, o)
  <2>1. o \in 0..(Len(e) - 1)
    BY <1>0, <1>1
  <2>2. Boundary(e, Len(e))
    BY <1>0, <1>2, <1>5, <2>1, BoundaryMoves DEF Complete
  <2>3. QED
    BY <1>0, <1>5, <2>2 DEF Following, e
<1>6. QED
  BY <1>3, <1>4, <1>5

\* At the byte where the scanner says stop, what the parser makes of the bytes is
\* settled (reader.rs:351-353).
LEMMA StopSettles ==
    ASSUME NEW d \in Seq(Byte), NEW st, NEW b \in Byte, Following(d, st),
           Terminates(st, b)
    PROVE  \E r : Stopped(r) /\ Settled(d \o <<b>>, r)
<1> DEFINE e == d \o <<b>>
<1>0. e \in Seq(Byte) /\ Len(e) = Len(d) + 1 /\ Len(d) \in Nat /\ e[Len(d) + 1] = b
  OBVIOUS
<1>1. b = TLV_TERMINATOR /\ st.state = "tag"
  BY DEF Terminates
<1>2. PICK o \in 0..Len(d) :
         /\ Boundary(d, o)
         /\ (o = Len(d) /\ st = TlvScanner) \/ Within(d, o, st)
  BY DEF Following
<1>3. o = Len(d)
  BY <1>1, <1>2 DEF Within, ScanState
<1>4. Boundary(e, o)
  BY <1>0, <1>2, BoundaryGrows
<1>5. PICK p \in Seq(TlvBlocks), s \in {"ok"} \cup ParseErrors :
         \A x \in Seq(Byte) : ParseFrom(e \o x, 0) = After(s, p, ParseFrom(e \o x, o))
  BY <1>4 DEF Boundary
<1> HIDE DEF e
<1> DEFINE r == After(s, p, [status |-> "ok", tlvs |-> <<Terminator>>])
<1>6. ASSUME NEW x \in Seq(Byte)
      PROVE  ParseFrom(e \o x, 0) = r
  <2>1. /\ e \o x \in Seq(Byte) /\ o \in 0..(Len(e \o x) - 1)
        /\ (e \o x)[o + 1] = TLV_TERMINATOR
    BY <1>0, <1>1, <1>3
  <2>2. QED
    BY <1>5, <2>1, ParseTerminator
<1>7. Stopped(r)
  BY <1>5 DEF Stopped
<1>8. QED
  BY <1>6, <1>7 DEF Settled, e

=============================================================================
