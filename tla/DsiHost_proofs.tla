---------------------------- MODULE DsiHost_proofs ---------------------------
(***************************************************************************)
(* Proofs about DsiHost, for FIFOs of any depth, payloads and buffers of   *)
(* any size and any number of reads: the panel gets every packet whole and *)
(* in order, and a read tells the truth.                                   *)
(***************************************************************************)
EXTENDS DsiHost, SequenceTheorems, WellFoundedInduction, TLAPS

Word == [1..4 -> Nat]
Headers == [dt : {"long"}, data : Nat] \cup [dt : {"short"}, data : Seq(Nat)]
             \cup [dt : {"read"}, data : {<<r>> : r \in Reads}]

\* TypeOK says nothing of what the FIFOs hold.
DataOK ==
  /\ temp \in Seq(Nat) /\ rest \in Seq(Nat) /\ header \in Headers /\ header.dt # "read"
  /\ pc = "word" => temp \in Word
  /\ size \in Nat /\ buffer \in Seq(Nat)
  /\ payload \in Seq(Word) /\ commands \in Seq(Headers) /\ answers \in Seq(Word)
  /\ asked \in Seq(Reads) /\ expected \in Seq(Seq(Nat))

\* A packet has been begun, and its header is still to come.
Open == pc \in {"word", "header"}
Current == expected[Len(expected)]

\* Word w of the payload that carries some bytes, counted from 0.
WordOf(bytes, w) == [i \in 1..4 |-> IF 4 * w + i <= Len(bytes) THEN bytes[4 * w + i] ELSE 0]

\* How many words of the payload FIFO belong to a header.
Need(h) == IF h.dt = "long" THEN Words(h.data) ELSE 0

\* A header speaks of the bytes it is meant for.
Fits(h, bytes) == h.data = IF h.dt = "long" THEN Len(bytes) ELSE bytes

\* The payload FIFO is cut by the headers: the words of header j start after off[j], and
\* behind the last of them stand the first k words of the packet that is open.
Cut(off, k) ==
  LET last == off[Len(commands) + 1]
  IN  /\ off[1] = 0 /\ \A i, j \in 1..Len(commands) + 1 : i <= j => off[i] <= off[j]
      /\ \A j \in 1..Len(commands) :
           /\ off[j + 1] = off[j] + Need(commands[j])
           /\ \A w \in 0..Need(commands[j]) - 1 : payload[off[j] + w + 1] = WordOf(expected[j], w)
      /\ Len(payload) = last + k
      /\ \A w \in 0..k - 1 : payload[last + w + 1] = WordOf(Current, w)
      /\ pc = "word" => /\ 4 * k < Len(Current) /\ temp = WordOf(Current, k)
                        /\ rest = After(Current, 4 * k + 4) /\ header.dt = "long"
      /\ pc # "word" => k = IF pc = "header" THEN Need(header) ELSE 0

\* Every header in the FIFO, and the one to come, has its words in their place.
PacketInv ==
  /\ ~garbled
  /\ Len(expected) = Len(commands) + (IF Open THEN 1 ELSE 0)
  /\ \A j \in 1..Len(commands) : Fits(commands[j], expected[j])
  /\ Open => Fits(header, Current)
  /\ \E off \in [1..Len(commands) + 1 -> 0..PayloadWords], k \in 0..PayloadWords : Cut(off, k)

\* What a word of the answer to the read r looks like.
WordFrom(word, r) == word[1] = r /\ Range(word) \subseteq {r, 0}

\* Only this read's answer is under way or has come.
OnlyOwn ==
  /\ \A i \in 1..Len(commands) : commands[i].dt = "read" => commands[i].data = <<id>>
  /\ \A i \in 1..Len(asked) : asked[i] = id
  /\ \A i \in 1..Len(answers) : WordFrom(answers[i], id)

\* No read is under way, and nothing has come.
Silent ==
  /\ \A i \in 1..Len(commands) : commands[i].dt # "read"
  /\ asked = <<>> /\ answers = <<>>

Told ==
  /\ s_gen_read_timed_out => buffer = Repeat(0, size)
  /\ ~s_gen_read_timed_out /\ clean /\ size > 0 => buffer # <<>> /\ WordFrom(buffer, id)

ReadInv ==
  /\ pc \in {"idle", "word", "header"} => Told /\ (~tainted => Silent)
  /\ pc \in {"max", "ask", "busy", "data", "drain"} => ~s_gen_read_timed_out
  /\ pc \in {"max", "ask"} /\ clean => Silent
  /\ pc \in {"busy", "data", "drain"} /\ clean => OnlyOwn
  /\ pc \in {"max", "ask", "busy", "data"} => buffer = <<>>
  /\ pc = "drain" /\ clean =>
       /\ buffer # <<>> => WordFrom(buffer, id)
       /\ size > 0 => buffer # <<>> \/ answers # <<>>

IInv == TypeOK /\ DataOK /\ PacketInv /\ ReadInv

-----------------------------------------------------------------------------
(* Words and bytes *)

\* A word is a sequence of four bytes.
LEMMA WordIsSeq == \A w \in Word : w \in Seq(Nat) /\ Len(w) = 4 /\ DOMAIN w = 1..4
<1> TAKE w \in Word
<1>1. w = [i \in 1..4 |-> w[i]]
  BY DEF Word
<1>2. [i \in 1..4 |-> w[i]] \in Seq(Nat)
  BY IsASeq DEF Word
<1> QED BY <1>1, <1>2 DEF Word

\* Any set that holds 0 and with every number its successor holds all numbers.
LEMMA NatInSet ==
  ASSUME NEW T, 0 \in T, \A n \in Nat : n \in T => n + 1 \in T
  PROVE  Nat \subseteq T
<1> DEFINE R == OpToRel(<, Nat)
           C == Nat \ T
<1>1. IsWellFoundedOn(R, Nat)
  BY NatLessThanWellFounded
<1>2. \A a, b \in Nat : a < b => <<a, b>> \in R
  BY DEF OpToRel
<1> SUFFICES ASSUME C # {} PROVE FALSE
  OBVIOUS
<1>3. C \subseteq Nat
  OBVIOUS
<1>4. PICK m \in C : \A k \in C : <<k, m>> \notin R
  <2> HIDE DEF R, C
  <2> QED BY <1>1, <1>3, WFMin
<1>5. m \in Nat /\ m # 0 /\ m - 1 \in Nat
  OBVIOUS
<1>6. m - 1 \notin C
  <2> HIDE DEF R, C
  <2>1. <<m - 1, m>> \in R
    BY <1>2, <1>5
  <2> QED BY <1>4, <2>1
<1>7. (m - 1) + 1 \in T
  BY <1>5, <1>6
<1> QED BY <1>5, <1>7

\* The bytes of the first i words of s.
Prefix(s, i) == [x \in 1..4 * i |-> s[(x - 1) \div 4 + 1][((x - 1) % 4) + 1]]

\* Each word of a sequence adds four bytes.
LEMMA PrefixIsSeq == ASSUME NEW s \in Seq(Word), NEW i \in 0..Len(s)
  PROVE Prefix(s, i) \in Seq(Nat) /\ Len(Prefix(s, i)) = 4 * i
<1>1. \A x \in 1..4 * i : /\ (x - 1) \div 4 + 1 \in 1..Len(s)
                          /\ ((x - 1) % 4) + 1 \in 1..4
   OBVIOUS
<1>2. \A x \in 1..4 * i : s[(x - 1) \div 4 + 1][((x - 1) % 4) + 1] \in Nat
   <2> TAKE x \in 1..4*i
   <2>1. s[(x - 1) \div 4 + 1] \in Word
      BY <1>1
   <2> QED BY <1>1, <2>1 DEF Word
<1>3. 4 * i \in Nat
  OBVIOUS
<1>4. Prefix(s, i) \in Seq(Nat)
  BY <1>2, <1>3, IsASeq DEF Prefix
<1> QED BY <1>4, <1>3 DEF Prefix

\* The bytes of i words are those of the first i - 1 and the last word.
LEMMA PrefixStep == ASSUME NEW s \in Seq(Word), NEW i \in 2..Len(s)
  PROVE Prefix(s, i) = Prefix(s, i - 1) \o s[i]
<1> DEFINE p == Prefix(s, i - 1)
           q == Prefix(s, i)
           w == s[i]
<1>0. i \in Nat /\ i - 1 \in 0..Len(s) /\ i \in 0..Len(s) /\ i \in 1..Len(s)
  OBVIOUS
<1>1. q \in Seq(Nat) /\ Len(q) = 4 * i /\ p \in Seq(Nat) /\ Len(p) = 4 * (i - 1)
  BY <1>0, PrefixIsSeq
<1>2. w \in Seq(Nat) /\ Len(w) = 4
  BY <1>0, WordIsSeq
<1>3. /\ \A x \in 1..4 * (i - 1) : q[x] = p[x]
      /\ \A x \in 1..4 * i : x > 4 * (i - 1) => q[x] = w[x - 4 * (i - 1)]
  <2>1. \A x \in 1..4 * (i - 1) : q[x] = p[x]
    BY <1>0 DEF Prefix
  <2>2. ASSUME NEW x \in 1..4 * i, x > 4 * (i - 1) PROVE q[x] = w[x - 4 * (i - 1)]
    <3>2. (x - 1) \div 4 + 1 = i /\ ((x - 1) % 4) + 1 = x - 4 * (i - 1)
      BY <2>2, <1>0
    <3> QED BY <3>2 DEF Prefix
  <2> QED BY <2>1, <2>2
<1> HIDE DEF p, q, w
<1>4. /\ p \o w \in Seq(Nat) /\ Len(p \o w) = Len(p) + Len(w)
      /\ \A x \in 1..Len(p) + Len(w) : (p \o w)[x] = IF x <= Len(p) THEN p[x] ELSE w[x - Len(p)]
  BY <1>1, <1>2, ConcatProperties, Zenon
<1>7. Len(p) + Len(w) = 4 * i
  BY <1>0, <1>1, <1>2
<1>5. \A x \in 1..4 * i : q[x] = (p \o w)[x]
  <2> TAKE x \in 1..4 * i
  <2>1. x \in 1..Len(p) + Len(w) /\ (x <= Len(p) => x \in 1..4 * (i - 1)) /\ (~(x <= Len(p)) => x > 4 * (i - 1))
    BY <1>0, <1>1, <1>7
  <2> QED BY <1>1, <1>3, <1>4, <2>1, Zenon
<1>6. q = p \o w
  BY <1>1, <1>4, <1>5, <1>7, SeqEqual
<1> QED BY <1>6 DEF p, q, w

\* Flattening a sequence of words gives its bytes: the recursive function that
\* FlattenSeq chooses is determined word by word, and Prefix is one.
LEMMA FlattenWords == ASSUME NEW s \in Seq(Word), s # <<>>
  PROVE FlattenSeq(s) = Prefix(s, Len(s))
<1>0. Len(s) \in Nat \ {0}
  OBVIOUS
<1> DEFINE h == [i \in 1..Len(s) |-> Prefix(s, i)]
<1>1. h = [i \in 1..Len(s) |-> IF i = 1 THEN s[i] ELSE h[i - 1] \o s[i]]
  <2>1. \A i \in 2..Len(s) : h[i] = h[i - 1] \o s[i]
    <3> TAKE i \in 2..Len(s)
    <3>1. h[i] = Prefix(s, i) /\ h[i - 1] = Prefix(s, i - 1)
      OBVIOUS
    <3> QED BY <3>1, PrefixStep, Zenon
  <2>2. h[1] = s[1]
    <3>1. Prefix(s, 1) \in Seq(Nat) /\ Len(Prefix(s,1)) = 4 /\ s[1] \in Seq(Nat) /\ Len(s[1]) = 4
      BY PrefixIsSeq, WordIsSeq
    <3>2. \A x \in 1..4 : (x - 1) \div 4 + 1 = 1 /\ ((x - 1) % 4) + 1 = x
       OBVIOUS
    <3>3. \A x \in 1..4 : Prefix(s,1)[x] = s[1][x]
      BY <3>2 DEF Prefix
    <3>4. Prefix(s,1) = s[1]
      BY <3>1, <3>3, SeqEqual
    <3> QED BY <3>4
  <2>3. DOMAIN h = 1..Len(s)
    OBVIOUS
  <2> HIDE DEF h
  <2>4. \A i \in 1..Len(s) : h[i] = IF i = 1 THEN s[i] ELSE h[i - 1] \o s[i]
    <3> TAKE i \in 1..Len(s)
    <3>1. i = 1 \/ (i \in 2..Len(s) /\ i # 1)
      OBVIOUS
    <3> QED BY <2>1, <2>2, <3>1, Zenon
  <2>5. h = [i \in 1..Len(s) |-> h[i]]
    BY DEF h
  <2> QED BY <2>4, <2>5
<1> DEFINE g == CHOOSE f : f = [i \in 1..Len(s) |-> IF i = 1 THEN s[i] ELSE f[i - 1] \o s[i]]
<1>2. g = [i \in 1..Len(s) |-> IF i = 1 THEN s[i] ELSE g[i - 1] \o s[i]]
  <2> HIDE DEF h
  <2> QED BY <1>1, Zenon
<1>3. FlattenSeq(s) = g[Len(s)]
  BY <1>0 DEF FlattenSeq
<1> HIDE DEF g
<1>4. \A i \in 1..Len(s) : g[i] = Prefix(s, i)
  <2> DEFINE T == {i \in Nat : i + 1 \in 1..Len(s) => g[i + 1] = Prefix(s, i + 1)}
  <2>1. 0 \in T
    <3>1. g[1] = s[1]
      BY <1>2, <1>0
    <3>2. h[1] = s[1]
      <4>1. h[1] = IF 1 = 1 THEN s[1] ELSE h[1 - 1] \o s[1]
        <5> HIDE DEF h
        <5> QED BY <1>1, <1>0
      <4> QED BY <4>1
    <3> QED BY <3>1, <3>2, <1>0
  <2>2. ASSUME NEW i \in Nat, i \in T PROVE i + 1 \in T
    <3> SUFFICES ASSUME i + 2 \in 1..Len(s) PROVE g[i + 2] = Prefix(s, i + 2)
      OBVIOUS
    <3>1. g[i + 2] = g[i + 1] \o s[i + 2]
      <4>1. i + 2 # 1 /\ (i + 2) - 1 = i + 1
        OBVIOUS
      <4>2. g[i + 2] = IF i + 2 = 1 THEN s[i + 2] ELSE g[(i + 2) - 1] \o s[i + 2]
        BY <1>2, Zenon
      <4> QED BY <4>1, <4>2, Zenon
    <3>2. g[i + 1] = Prefix(s, i + 1)
      BY <2>2
    <3>3. Prefix(s, i + 2) = Prefix(s, i + 1) \o s[i + 2]
      <4>1. i + 2 \in 2..Len(s) /\ (i + 2) - 1 = i + 1
        OBVIOUS
      <4>2. Prefix(s, i + 2) = Prefix(s, (i + 2) - 1) \o s[i + 2]
        BY <4>1, PrefixStep, Zenon
      <4> QED BY <4>1, <4>2, Zenon
    <3> QED BY <3>1, <3>2, <3>3
  <2>3. Nat \subseteq T
    <3> HIDE DEF T
    <3> QED BY <2>1, <2>2, NatInSet
  <2>4. \A i \in 1..Len(s) : i - 1 \in Nat /\ (i - 1) + 1 = i
    OBVIOUS
  <2> QED BY <2>3, <2>4
<1> QED BY <1>0, <1>3, <1>4

-----------------------------------------------------------------------------
\* What First, After, Padded, Repeat and Bytes make of a sequence.
LEMMA FirstProps ==
  ASSUME NEW S, NEW b \in Seq(S), NEW n \in Nat
  PROVE  /\ First(b, n) \in Seq(S)
         /\ Len(First(b, n)) = (IF n < Len(b) THEN n ELSE Len(b)) /\ Len(First(b, n)) \in Nat
         /\ \A x \in 1..Len(First(b, n)) : First(b, n)[x] = b[x]
<1> DEFINE m == IF n < Len(b) THEN n ELSE Len(b)
<1>1. m \in Int /\ m >= 0 /\ m <= Len(b) /\ Len(b) \in Nat
  OBVIOUS
<1> HIDE DEF m
<1>2. \A x \in 1..m : b[x] \in S
  BY <1>1
<1>3. /\ SubSeq(b, 1, m) \in Seq(S)
      /\ Len(SubSeq(b, 1, m)) = m
      /\ \A x \in 1..m : SubSeq(b, 1, m)[x] = b[x]
  BY <1>1, <1>2, SubSeqProperties
<1> QED BY <1>3 DEF First, m

LEMMA AfterProps ==
  ASSUME NEW S, NEW b \in Seq(S), NEW n \in Nat
  PROVE  /\ After(b, n) \in Seq(S)
         /\ Len(After(b, n)) = (IF n < Len(b) THEN Len(b) - n ELSE 0) /\ Len(After(b, n)) \in Nat
         /\ \A x \in 1..Len(After(b, n)) : After(b, n)[x] = b[n + x]
<1>1. Len(b) \in Nat /\ \A x \in n + 1..Len(b) : b[x] \in S
  OBVIOUS
<1>2. /\ SubSeq(b, n + 1, Len(b)) \in Seq(S)
      /\ Len(SubSeq(b, n + 1, Len(b))) = IF n + 1 <= Len(b) THEN Len(b) - (n + 1) + 1 ELSE 0
      /\ \A x \in 1..Len(b) - (n + 1) + 1 : SubSeq(b, n + 1, Len(b))[x] = b[n + 1 + x - 1]
  BY <1>1, SubSeqProperties
<1> QED BY <1>1, <1>2 DEF After

LEMMA PaddedProps ==
  ASSUME NEW b \in Seq(Nat)
  PROVE  /\ Padded(b) \in Word /\ Padded(b) \in Seq(Nat)
         /\ \A x \in 1..4 : Padded(b)[x] = IF x <= Len(b) THEN b[x] ELSE 0
<1>1. Padded(b) \in Word
  BY DEF Padded, Word
<1> QED BY <1>1, WordIsSeq DEF Padded

LEMMA RepeatProps ==
  ASSUME NEW r \in Nat, NEW n \in Nat
  PROVE  Repeat(r, n) \in Seq(Nat) /\ Len(Repeat(r, n)) = n /\ \A x \in 1..n : Repeat(r, n)[x] = r
BY IsASeq DEF Repeat

LEMMA BytesProps ==
  ASSUME NEW n \in Nat
  PROVE  Bytes(n) \in Seq(Nat) /\ Len(Bytes(n)) = n
<1>1. \A i \in 1..n : i \in Nat
  OBVIOUS
<1> QED BY <1>1, IsASeq DEF Bytes

-----------------------------------------------------------------------------
(* Types *)

TInv == TypeOK /\ DataOK

\* The parameters and the header of a packet that the host begins to write.
NewPacket(bytes, first, last) ==
  /\ bytes \in Seq(Nat) /\ first \in Word /\ last \in Headers
  /\ Fits(last, bytes) /\ last.dt # "read"
  /\ last.dt = "long" => first = WordOf(bytes, 0)

\* Up to four bytes from the place of word w on, padded, are word w.
LEMMA PaddedIsWord ==
  ASSUME NEW bytes \in Seq(Nat), NEW front \in Seq(Nat), NEW w \in Nat,
         \A x \in 1..4 : x <= Len(front) <=> 4 * w + x <= Len(bytes),
         \A x \in 1..Len(front) : x <= 4 => front[x] = bytes[4 * w + x]
  PROVE  Padded(front) = WordOf(bytes, w)
<1>1. \A x \in 1..4 : Padded(front)[x] = WordOf(bytes, w)[x]
  <2> TAKE x \in 1..4
  <2>0. x <= Len(front) => x \in 1..Len(front) /\ x <= 4
    OBVIOUS
  <2>1. Padded(front)[x] = (IF x <= Len(front) THEN front[x] ELSE 0)
    BY DEF Padded
  <2>2. WordOf(bytes, w)[x] = (IF 4 * w + x <= Len(bytes) THEN bytes[4 * w + x] ELSE 0)
    BY DEF WordOf
  <2> QED BY <2>0, <2>1, <2>2, Zenon
<1> QED BY <1>1 DEF Padded, WordOf

\* Merging the command with the first parameters puts the bytes where they would be
\* had the command been the first parameter.
LEMMA DcsIsPacket ==
  ASSUME NEW params \in Seq(Nat), NEW c \in 1..3, WriteDcs(Command(c), params)
  PROVE  \E bytes, first, last : NewPacket(bytes, first, last) /\ Begin(bytes, first, After(bytes, 4), last)
<1> DEFINE m == 4 - Len(Command(c))
           bytes == Command(c) \o params
           front == Command(c) \o First(params, m)
           word == Padded(front)
           last == IF Len(bytes) > 2 THEN Header("long", Len(bytes))
                   ELSE Header("short", First(word, Len(bytes)))
<1>0. Command(c) \in Seq(Nat) /\ Len(Command(c)) = c
  BY DEF Command
<1>1. Command(c) \in Seq(Nat) /\ Len(Command(c)) = c /\ Len(params) \in Nat /\ c \in Nat /\ m \in Nat /\ m + c = 4
  BY <1>0
<1> HIDE DEF m
<1>2. /\ bytes \in Seq(Nat) /\ Len(bytes) = c + Len(params)
      /\ \A x \in 1..c + Len(params) : bytes[x] = IF x <= c THEN Command(c)[x] ELSE params[x - c]
  BY <1>1, ConcatProperties
<1>3. /\ First(params, m) \in Seq(Nat) /\ Len(First(params, m)) \in Nat
      /\ Len(First(params, m)) = IF m < Len(params) THEN m ELSE Len(params)
      /\ \A x \in 1..Len(First(params, m)) : First(params, m)[x] = params[x]
  BY <1>1, FirstProps
<1>4. /\ front \in Seq(Nat) /\ Len(front) = c + Len(First(params, m))
      /\ \A x \in 1..c + Len(First(params, m)) :
           front[x] = IF x <= c THEN Command(c)[x] ELSE First(params, m)[x - c]
  <2>1. Command(c) \in Seq(Nat) /\ Len(Command(c)) = c /\ First(params, m) \in Seq(Nat)
    BY <1>1, <1>3
  <2> QED BY ONLY <2>1, ConcatProperties
<1>5. /\ After(params, m) \in Seq(Nat) /\ Len(After(params, m)) \in Nat
      /\ Len(After(params, m)) = IF m < Len(params) THEN Len(params) - m ELSE 0
      /\ \A x \in 1..Len(After(params, m)) : After(params, m)[x] = params[m + x]
  <2>1. params \in Seq(Nat) /\ m \in Nat
    BY <1>1
  <2> QED BY ONLY <2>1, AfterProps, SMT
<1> HIDE DEF bytes, front
<1>6. /\ After(bytes, 4) \in Seq(Nat) /\ Len(After(bytes, 4)) \in Nat
      /\ Len(After(bytes, 4)) = IF 4 < Len(bytes) THEN Len(bytes) - 4 ELSE 0
      /\ \A x \in 1..Len(After(bytes, 4)) : After(bytes, 4)[x] = bytes[4 + x]
  <2>1. bytes \in Seq(Nat) /\ 4 \in Nat
    BY <1>2
  <2> QED BY ONLY <2>1, AfterProps, SMT
<1>7. AfterMerge(Command(c), params) = After(bytes, 4)
  <2>1. Len(After(params, m)) = Len(After(bytes, 4))
    <3> DEFINE l == Len(After(params, m))
               r == Len(After(bytes, 4))
               p == Len(params)
    <3>1. p \in Nat /\ Len(bytes) = c + p
      BY <1>1, <1>2, Zenon
    <3>2. l = (IF m < p THEN p - m ELSE 0) /\ r = (IF 4 < Len(bytes) THEN Len(bytes) - 4 ELSE 0)
      BY <1>5, <1>6, Zenon
    <3> HIDE DEF l, r, p
    <3>3. l = r
      BY <1>1, <3>1, <3>2
    <3> QED BY <3>3 DEF l, r
  <2>2. \A x \in 1..Len(After(params, m)) : After(params, m)[x] = After(bytes, 4)[x]
    <3> TAKE x \in 1..Len(After(params, m))
    <3>1. 4 + x \in 1..c + Len(params) /\ ~(4 + x <= c) /\ (4 + x) - c = m + x
      BY <1>1, <1>5
    <3>2. bytes[4 + x] = params[(4 + x) - c]
      BY <1>2, <3>1, Zenon
    <3>3. After(bytes, 4)[x] = bytes[4 + x] /\ After(params, m)[x] = params[m + x]
      BY <1>5, <1>6, <2>1, Zenon
    <3> QED BY <3>1, <3>2, <3>3, Zenon
  <2> QED BY <1>5, <1>6, <2>1, <2>2, SeqEqual DEF AfterMerge, m
<1>8. \A x \in 1..Len(front) : x \in 1..Len(bytes) /\ front[x] = bytes[x]
  <2> TAKE x \in 1..Len(front)
  <2>1. x \in 1..c + Len(params) /\ x \in 1..c + Len(First(params, m))
    <3> DEFINE f == Len(First(params, m))
    <3>1. f \in Nat /\ Len(front) = c + f /\ f = (IF m < Len(params) THEN m ELSE Len(params))
      BY <1>3, <1>4, Zenon
    <3> HIDE DEF f
    <3>2. x \in 1..c + Len(params) /\ x \in 1..c + f
      BY <1>1, <3>1
    <3> QED BY <3>2 DEF f
  <2>2. front[x] = bytes[x]
    <3>1. CASE x <= c
      BY <3>1, <2>1, <1>2, <1>4
    <3>2. CASE ~(x <= c)
      <4>1. ~(x <= c) /\ x - c \in 1..Len(First(params, m))
        BY <1>1, <2>1, <3>2, <1>3
      <4> QED BY <1>1, <4>1, <2>1, <1>2, <1>3, <1>4
    <3> QED BY <3>1, <3>2
  <2> QED BY <2>1, <2>2, <1>2
<1>9. /\ word \in Word /\ word \in Seq(Nat)
      /\ \A x \in 1..4 : word[x] = IF x <= Len(front) THEN front[x] ELSE 0
  BY <1>4, PaddedProps
<1>10. Len(front) = IF 4 < Len(bytes) THEN 4 ELSE Len(bytes)
  <2> DEFINE f == Len(First(params, m))
  <2>1. /\ f \in Nat /\ Len(front) = c + f /\ f = (IF m < Len(params) THEN m ELSE Len(params))
        /\ Len(bytes) = c + Len(params)
    BY <1>2, <1>3, <1>4, Zenon
  <2> HIDE DEF f
  <2> QED BY <1>1, <2>1
<1>11. word = WordOf(bytes, 0)
  <2>1. Len(front) \in Nat /\ Len(bytes) \in Nat
    BY <1>2, <1>4
  <2>2. \A x \in 1..4 : x <= Len(front) <=> 4 * 0 + x <= Len(bytes)
    BY <1>10, <2>1
  <2>3. \A x \in 1..Len(front) : x <= 4 => front[x] = bytes[4 * 0 + x]
    <3> TAKE x \in 1..Len(front)
    <3>1. 4 * 0 + x = x
      OBVIOUS
    <3> QED BY <1>8, <3>1, Zenon
  <2>4. 0 \in Nat
    OBVIOUS
  <2> QED BY <1>2, <1>4, <2>2, <2>3, <2>4, PaddedIsWord, Zenon
<1> HIDE DEF word
<1>12. last \in Headers /\ Fits(last, bytes) /\ last.dt # "read"
  <2>1. CASE Len(bytes) > 2
    <3>1. last = [dt |-> "long", data |-> Len(bytes)]
      BY <2>1 DEF Header
    <3> QED BY <3>1, <1>2 DEF Headers, Fits
  <2>2. CASE ~(Len(bytes) > 2)
    <3>1. last = [dt |-> "short", data |-> First(word, Len(bytes))]
      BY <2>2 DEF Header
    <3>2. Len(bytes) \in Nat /\ Len(word) = 4
      BY <1>2, <1>9, WordIsSeq
    <3>3. /\ First(word, Len(bytes)) \in Seq(Nat) /\ Len(First(word, Len(bytes))) = Len(bytes)
          /\ \A x \in 1..Len(bytes) : First(word, Len(bytes))[x] = word[x]
      <4>1. /\ First(word, Len(bytes)) \in Seq(Nat)
            /\ Len(First(word, Len(bytes))) = IF Len(bytes) < Len(word) THEN Len(bytes) ELSE Len(word)
            /\ \A x \in 1..Len(First(word, Len(bytes))) : First(word, Len(bytes))[x] = word[x]
        BY <3>2, <1>9, FirstProps
      <4> QED BY <4>1, <3>2, <2>2
    <3>4. \A x \in 1..Len(bytes) : First(word, Len(bytes))[x] = bytes[x]
      BY <3>2, <3>3, <2>2, <1>8, <1>9, <1>10
    <3>5. First(word, Len(bytes)) = bytes
      BY <3>2, <3>3, <3>4, <1>2, SeqEqual
    <3> QED BY <3>1, <3>5, <1>2 DEF Headers, Fits
  <2> QED BY <2>1, <2>2
<1>13. Begin(bytes, word, After(bytes, 4), last)
  BY <1>7 DEF WriteDcs, bytes, word, front, m
<1>14. NewPacket(bytes, word, last)
  BY <1>2, <1>9, <1>11, <1>12 DEF NewPacket
<1> QED BY <1>13, <1>14

\* A long packet, and any packet the caller may begin, is one in the sense of NewPacket.
LEMMA LongIsPacket ==
  ASSUME NEW params \in Seq(Nat), WriteLong(params)
  PROVE  \E bytes, first, last : NewPacket(bytes, first, last) /\ Begin(bytes, first, After(bytes, 4), last)
<1> DEFINE front == First(params, 4)
           word == Padded(front)
           last == Header("long", Len(params))
<1>1. /\ front \in Seq(Nat) /\ Len(front) = IF 4 < Len(params) THEN 4 ELSE Len(params)
      /\ \A x \in 1..Len(front) : front[x] = params[x]
  BY FirstProps
<1> HIDE DEF front
<1>2. word \in Word /\ \A x \in 1..4 : word[x] = IF x <= Len(front) THEN front[x] ELSE 0
  BY <1>1, PaddedProps
<1>3. word = WordOf(params, 0)
  <2>1. Len(front) \in Nat /\ Len(params) \in Nat
    BY <1>1
  <2>2. \A x \in 1..4 : x <= Len(front) <=> 4 * 0 + x <= Len(params)
    BY <1>1, <2>1
  <2>3. \A x \in 1..Len(front) : x <= 4 => front[x] = params[4 * 0 + x]
    <3> TAKE x \in 1..Len(front)
    <3>1. 4 * 0 + x = x
      OBVIOUS
    <3> QED BY <1>1, <3>1, Zenon
  <2>4. 0 \in Nat
    OBVIOUS
  <2> QED BY <1>1, <2>2, <2>3, <2>4, PaddedIsWord, Zenon
<1> HIDE DEF word
<1>4. last \in Headers /\ Fits(last, params) /\ last.dt # "read"
  BY DEF Header, Headers, Fits
<1>5. NewPacket(params, word, last)
  BY <1>2, <1>3, <1>4 DEF NewPacket
<1>6. Begin(params, word, After(params, 4), last)
  BY DEF WriteLong, word, front
<1> QED BY <1>5, <1>6

LEMMA StartIsPacket ==
  ASSUME NEW n \in Sizes, WriteLong(Bytes(n)) \/ \E c \in CommandSizes : WriteDcs(Command(c), Bytes(n))
  PROVE  \E bytes, first, last : NewPacket(bytes, first, last) /\ Begin(bytes, first, After(bytes, 4), last)
<1>1. n \in Nat /\ CommandSizes \subseteq 1..3
  BY DsiAssumption
<1>2. Bytes(n) \in Seq(Nat)
  BY <1>1, BytesProps
<1> QED BY <1>1, <1>2, DcsIsPacket, LongIsPacket

\* The data of a header, by its kind.
LEMMA HeaderTypes ==
  ASSUME NEW h \in Headers
  PROVE  /\ h.dt = "long" => h.data \in Nat /\ Words(h.data) \in Nat
         /\ h.dt = "short" => h.data \in Seq(Nat)
         /\ h.dt = "read" => \E r \in Reads : h.data = <<r>>
         /\ h.dt \in {"long", "short", "read"} /\ Need(h) \in Nat
BY DEF Headers, Words, Need

LEMMA NoHeaderType == NoHeader \in Headers /\ NoHeader.dt = "short"
<1>1. <<>> \in Seq(Nat)
  OBVIOUS
<1> QED BY <1>1 DEF NoHeader, Header, Headers

\* Each action keeps the types.
LEMMA BeginTypes ==
  ASSUME TInv, NEW bytes, NEW first, NEW last, NewPacket(bytes, first, last),
         Begin(bytes, first, After(bytes, 4), last)
  PROVE  TInv'
<1> USE DEF TInv, TypeOK, DataOK, Begin, readVars, panelVars
<1>1. After(bytes, 4) \in Seq(Nat)
  BY AfterProps DEF NewPacket
<1>2. first \in Seq(Nat) /\ first \in Word /\ bytes \in Seq(Nat) /\ last \in Headers /\ last.dt # "read"
  BY WordIsSeq DEF NewPacket
<1>3. expected' \in Seq(Seq(Nat))
  BY <1>2, AppendProperties
<1>4. TypeOK'
  OBVIOUS
<1>5. DataOK'
  BY <1>1, <1>2, <1>3
<1> QED BY <1>4, <1>5

LEMMA BeginReadTypes ==
  ASSUME TInv, NEW n \in BufferSizes, BeginRead(n)
  PROVE  TInv'
<1>1. n \in Nat
  BY DsiAssumption
<1>2. <<>> \in Seq(Nat) /\ Len(<<>>) = 0
  OBVIOUS
<1>3. /\ pc' = "max" /\ size' = n /\ buffer' = <<>> /\ s_gen_read_timed_out' = FALSE
      /\ clean' \in BOOLEAN /\ tainted' = tainted /\ id' \in Reads
      /\ UNCHANGED <<wordVars, payload, commands, busy, expected, panelVars>>
  <2>1. clean' = ~tainted /\ id' \in Reads
    BY DEF BeginRead
  <2>2. clean' \in BOOLEAN
    BY <2>1, Zenon
  <2> QED BY <2>1, <2>2, Zenon DEF BeginRead
<1>4. TypeOK'
  <2>1. Len(buffer') <= size'
    BY <1>1, <1>2, <1>3
  <2>2. UNCHANGED <<garbled, payload, commands, busy, tainted>>
    BY <1>3 DEF panelVars
  <2>3. TypeOK
    BY DEF TInv
  <2> QED BY <1>3, <2>1, <2>2, <2>3 DEF TypeOK
<1>5. DataOK'
  BY <1>1, <1>2, <1>3 DEF TInv, DataOK, wordVars, panelVars
<1> QED BY <1>4, <1>5 DEF TInv

LEMMA PushWordTypes ==
  ASSUME TInv, PushWord
  PROVE  TInv'
<1> USE DEF TInv, PushWord, readVars, panelVars
<1>1. payload' \in Seq(Word) /\ Len(payload') = Len(payload) + 1
  BY AppendProperties DEF DataOK
<1>2. Len(payload') <= PayloadWords
  BY <1>1, DsiAssumption DEF TypeOK, DataOK, PayloadFull
<1>3. \A i \in DOMAIN payload' : Len(payload'[i]) = 4
  BY <1>1, WordIsSeq
<1>4. temp' \in Seq(Nat) /\ rest' \in Seq(Nat) /\ (pc' = "word" => temp' \in Word)
  <2>1. CASE rest = <<>>
    BY <2>1 DEF DataOK
  <2>2. CASE rest # <<>>
    <3>1. First(rest, 4) \in Seq(Nat) /\ After(rest, 4) \in Seq(Nat)
      BY FirstProps, AfterProps DEF DataOK
    <3> QED BY <2>2, <3>1, PaddedProps
  <2> QED BY <2>1, <2>2
<1>5. TypeOK'
  BY <1>2, <1>3 DEF TypeOK
<1>6. DataOK'
  BY <1>1, <1>4 DEF DataOK
<1> QED BY <1>5, <1>6

LEMMA PushHeaderTypes ==
  ASSUME TInv, NEW from, NEW to \in {"idle", "ask", "busy"}, NEW h \in Headers, PushHeader(from, to, h),
         busy' \in BOOLEAN, expected' \in Seq(Seq(Nat))
  PROVE  TInv'
<1> USE DEF TInv, PushHeader, readVars, panelVars
<1>1. commands' \in Seq(Headers) /\ Len(commands') = Len(commands) + 1
  BY AppendProperties DEF DataOK
<1>2. Len(commands') <= CmdDepth
  BY <1>1, DsiAssumption DEF DataOK
<1>3. <<>> \in Seq(Nat) /\ NoHeader \in Headers /\ NoHeader.dt # "read"
  BY NoHeaderType
<1>4. TypeOK'
  BY <1>2 DEF TypeOK
<1>5. DataOK'
  BY <1>1, <1>3 DEF DataOK
<1> QED BY <1>4, <1>5

LEMMA SetMaximumTypes ==
  ASSUME TInv, SetMaximum
  PROVE  TInv' /\ Header("short", <<size>>) \in Headers
<1>1. size \in Nat /\ <<size>> \in Seq(Nat)
  BY DEF TInv, DataOK
<1>2. Header("short", <<size>>) \in Headers
  BY <1>1 DEF Header, Headers
<1>3. expected' \in Seq(Seq(Nat)) /\ busy' \in BOOLEAN
  BY <1>1, AppendProperties DEF TInv, TypeOK, DataOK, SetMaximum
<1>4. PushHeader("max", "ask", Header("short", <<size>>)) /\ "ask" \in {"idle", "ask", "busy"}
  BY DEF SetMaximum
<1> QED BY <1>2, <1>3, <1>4, PushHeaderTypes

LEMMA AskTypes ==
  ASSUME TInv, Ask
  PROVE  TInv' /\ Header("read", <<id>>) \in Headers
<1>1. id \in Reads /\ <<id>> \in Seq(Nat)
  BY DsiAssumption DEF TInv, TypeOK
<1>2. Header("read", <<id>>) \in Headers
  BY <1>1 DEF Header, Headers
<1>3. expected' \in Seq(Seq(Nat)) /\ busy' \in BOOLEAN
  BY <1>1, AppendProperties DEF TInv, DataOK, Ask
<1>4. PushHeader("ask", "busy", Header("read", <<id>>)) /\ "busy" \in {"idle", "ask", "busy"}
  BY DEF Ask
<1> QED BY <1>2, <1>3, <1>4, PushHeaderTypes

LEMMA CloseTypes ==
  ASSUME TInv, PushHeader("header", "idle", header), UNCHANGED <<expected, busy>>
  PROVE  TInv'
<1>1. header \in Headers /\ "idle" \in {"idle", "ask", "busy"} /\ expected' \in Seq(Seq(Nat)) /\ busy' \in BOOLEAN
  BY DEF TInv, TypeOK, DataOK
<1> QED BY <1>1, PushHeaderTypes

LEMMA TimedOutTypes ==
  ASSUME TInv, TimedOut
  PROVE  TInv'
<1>1. size \in Nat /\ 0 \in Nat
  BY DEF TInv, DataOK
<1>2. Repeat(0, size) \in Seq(Nat) /\ Len(Repeat(0, size)) = size
  BY <1>1, RepeatProps
<1>3. TypeOK'
  BY <1>1, <1>2 DEF TInv, TypeOK, TimedOut, wordVars, panelVars
<1>4. DataOK'
  BY <1>2 DEF TInv, DataOK, TimedOut, wordVars, panelVars
<1> QED BY <1>3, <1>4 DEF TInv

\* What the caller takes from the FIFO, and what it leaves there.
LEMMA DrainProps ==
  ASSUME TInv, answers # <<>>
  PROVE  /\ Head(answers) \in Word /\ Head(answers) = answers[1] /\ 1 \in 1..Len(answers)
         /\ Tail(answers) \in Seq(Word) /\ Len(Tail(answers)) = Len(answers) - 1
         /\ \A i \in 1..Len(Tail(answers)) : Tail(answers)[i] = answers[i + 1]
         /\ buffer \o Head(answers) \in Seq(Nat)
         /\ Len(buffer \o Head(answers)) = Len(buffer) + 4
         /\ \A x \in 1..Len(buffer) + 4 :
              (buffer \o Head(answers))[x] = IF x <= Len(buffer) THEN buffer[x] ELSE Head(answers)[x - Len(buffer)]
<1>1. answers \in Seq(Word) /\ buffer \in Seq(Nat)
  BY DEF TInv, DataOK
<1>2. /\ Head(answers) \in Word /\ Head(answers) = answers[1] /\ 1 \in 1..Len(answers)
      /\ Tail(answers) \in Seq(Word) /\ Len(Tail(answers)) = Len(answers) - 1
      /\ \A i \in 1..Len(Tail(answers)) : Tail(answers)[i] = answers[i + 1]
  BY <1>1, HeadTailProperties
<1>3. Head(answers) \in Seq(Nat) /\ Len(Head(answers)) = 4
  BY <1>2, WordIsSeq
<1> DEFINE w == Head(answers)
<1> HIDE DEF w
<1>4. /\ buffer \o w \in Seq(Nat) /\ Len(buffer \o w) = Len(buffer) + Len(w)
      /\ \A x \in 1..Len(buffer) + Len(w) :
           (buffer \o w)[x] = IF x <= Len(buffer) THEN buffer[x] ELSE w[x - Len(buffer)]
  BY <1>1, <1>3, ConcatProperties DEF w
<1>5. Len(w) = 4
  BY <1>3 DEF w
<1> QED BY <1>2, <1>4, <1>5 DEF w

LEMMA DrainTypes ==
  ASSUME TInv, Drain
  PROVE  TInv'
<1> USE DEF TInv, Drain, wordVars
<1>1. CASE answers = <<>>
  <2>1. buffer' = buffer /\ answers' = answers /\ pc' = "idle" /\ tainted' \in BOOLEAN
    BY <1>1 DEF ReadFifoEmpty
  <2>2. TypeOK'
    BY <2>1 DEF TypeOK
  <2>3. DataOK'
    BY <2>1 DEF DataOK
  <2> QED BY <2>2, <2>3
<1>2. CASE answers # <<>>
  <2> DEFINE b == buffer \o Head(answers)
  <2>1. b \in Seq(Nat) /\ size \in Nat
    BY <1>2, DrainProps DEF DataOK
  <2>2. buffer' = First(b, size) /\ answers' = Tail(answers) /\ pc' = pc /\ tainted' = tainted
    BY <1>2 DEF ReadFifoEmpty
  <2> HIDE DEF b
  <2>3. buffer' \in Seq(Nat) /\ Len(buffer') = IF size < Len(b) THEN size ELSE Len(b)
    BY <2>1, <2>2, FirstProps
  <2>4. Len(buffer') <= size
    BY <2>1, <2>3
  <2>5. answers' \in Seq(Word)
    BY <1>2, <2>2, DrainProps
  <2>6. TypeOK'
    BY <2>2, <2>4 DEF TypeOK
  <2>7. DataOK'
    BY <2>2, <2>3, <2>5 DEF DataOK
  <2> QED BY <2>6, <2>7
<1> QED BY <1>1, <1>2

\* What the controller sends, and what it leaves in the FIFOs.
LEMMA DeliverProps ==
  ASSUME TInv, commands # <<>>
  PROVE  /\ Head(commands) \in Headers /\ Head(commands) = commands[1] /\ 1 \in 1..Len(commands)
         /\ Tail(commands) \in Seq(Headers) /\ Len(Tail(commands)) = Len(commands) - 1
         /\ \A i \in 1..Len(Tail(commands)) : Tail(commands)[i] = commands[i + 1]
BY HeadTailProperties DEF TInv, DataOK

LEMMA DeliverTypes ==
  ASSUME TInv, Deliver, expected # <<>>
  PROVE  TInv'
<1> DEFINE h == Head(commands)
           n == Need(h)
<1>1. /\ commands # <<>> /\ commands' = Tail(commands) /\ payload' = After(payload, n)
      /\ expected' = Tail(expected) /\ garbled' \in BOOLEAN
      /\ asked' = IF h.dt = "read" THEN asked \o h.data ELSE asked
      /\ UNCHANGED <<pc, wordVars, readVars, busy, answers>>
  BY DEF Deliver, Need
<1>2. h \in Headers /\ commands' \in Seq(Headers) /\ Len(commands') = Len(commands) - 1
  BY <1>1, DeliverProps
<1> HIDE DEF h
<1>3. n \in Nat
  BY <1>2, HeaderTypes
<1>4. payload \in Seq(Word) /\ expected \in Seq(Seq(Nat)) /\ asked \in Seq(Reads) /\ commands \in Seq(Headers)
  BY DEF TInv, DataOK
<1> HIDE DEF n
<1>5. payload' \in Seq(Word) /\ Len(payload') = (IF n < Len(payload) THEN Len(payload) - n ELSE 0)
  BY <1>1, <1>3, <1>4, AfterProps
<1>6. Len(payload') <= PayloadWords /\ Len(commands') <= CmdDepth
  BY <1>2, <1>3, <1>4, <1>5, DsiAssumption DEF TInv, TypeOK
<1>7. asked' \in Seq(Reads)
  <2>1. CASE h.dt = "read"
    <3>1. PICK r \in Reads : h.data = <<r>>
      BY <1>2, <2>1, HeaderTypes
    <3>2. h.data \in Seq(Reads)
      BY <3>1
    <3> QED BY <1>1, <1>4, <2>1, <3>2, ConcatProperties
  <2> QED BY <1>1, <1>4, <2>1
<1>8. expected' \in Seq(Seq(Nat))
  BY <1>1, <1>4, HeadTailProperties
<1>9. \A i \in DOMAIN payload' : Len(payload'[i]) = 4
  BY <1>5, WordIsSeq
<1>10. TypeOK'
  BY <1>1, <1>6, <1>9 DEF TInv, TypeOK, readVars
<1>11. DataOK'
  BY <1>1, <1>2, <1>5, <1>7, <1>8 DEF TInv, DataOK, readVars, wordVars
<1> QED BY <1>10, <1>11 DEF TInv

\* The words of an answer of n bytes from the panel.
AnswerWords(n) ==
  [k \in 1..Words(n) |-> Padded(Repeat(Head(asked), IF n - 4 * (k - 1) < 4 THEN n - 4 * (k - 1) ELSE 4))]

\* The panel answers with words that name the read, padded with zeros.
LEMMA AnswerProps ==
  ASSUME TInv, asked # <<>>, NEW n \in AnswerSizes
  PROVE  /\ Head(asked) \in Reads /\ Head(asked) \in Nat /\ Head(asked) = asked[1] /\ 1 \in 1..Len(asked)
         /\ Tail(asked) \in Seq(Reads) /\ Len(Tail(asked)) = Len(asked) - 1
         /\ \A i \in 1..Len(Tail(asked)) : Tail(asked)[i] = asked[i + 1]
         /\ AnswerWords(n) \in Seq(Word) /\ Len(AnswerWords(n)) = Words(n) /\ Words(n) \in Nat \ {0}
         /\ \A k \in 1..Words(n) : WordFrom(AnswerWords(n)[k], Head(asked))
<1>1. /\ Head(asked) \in Reads /\ Head(asked) = asked[1] /\ 1 \in 1..Len(asked)
      /\ Tail(asked) \in Seq(Reads) /\ Len(Tail(asked)) = Len(asked) - 1
      /\ \A i \in 1..Len(Tail(asked)) : Tail(asked)[i] = asked[i + 1]
  BY HeadTailProperties DEF TInv, DataOK
<1> DEFINE r == Head(asked)
           m(k) == IF n - 4 * (k - 1) < 4 THEN n - 4 * (k - 1) ELSE 4
<1>2. r \in Nat
  BY <1>1, DsiAssumption
<1> HIDE DEF r
<1>3. n \in Nat \ {0} /\ Words(n) \in Nat \ {0}
  BY DsiAssumption DEF Words
<1>4. \A k \in 1..Words(n) : m(k) \in Nat \ {0}
  BY <1>3 DEF Words
<1> HIDE DEF m
<1>5. \A k \in 1..Words(n) : Padded(Repeat(r, m(k))) \in Word /\ WordFrom(Padded(Repeat(r, m(k))), r)
  <2> TAKE k \in 1..Words(n)
  <2>1. m(k) \in Nat \ {0}
    BY <1>4
  <2>2. Repeat(r, m(k)) \in Seq(Nat) /\ Len(Repeat(r, m(k))) = m(k) /\ \A x \in 1..m(k) : Repeat(r, m(k))[x] = r
    BY <1>2, <2>1, RepeatProps
  <2>3. /\ Padded(Repeat(r, m(k))) \in Word
        /\ \A x \in 1..4 : Padded(Repeat(r, m(k)))[x] = IF x <= Len(Repeat(r, m(k))) THEN Repeat(r, m(k))[x] ELSE 0
    BY <2>2, PaddedProps
  <2>4. \A x \in 1..4 : Padded(Repeat(r, m(k)))[x] \in {r, 0}
    BY <2>1, <2>2, <2>3
  <2>5. Padded(Repeat(r, m(k)))[1] = r
    BY <2>1, <2>2, <2>3
  <2>6. DOMAIN Padded(Repeat(r, m(k))) = 1..4
    BY DEF Padded
  <2> QED BY <2>3, <2>4, <2>5, <2>6 DEF WordFrom, Range
<1>6. AnswerWords(n) = [k \in 1..Words(n) |-> Padded(Repeat(r, m(k)))]
  BY DEF AnswerWords, r, m
<1>7. /\ AnswerWords(n) \in Seq(Word) /\ Len(AnswerWords(n)) = Words(n)
      /\ \A k \in 1..Words(n) : AnswerWords(n)[k] = Padded(Repeat(r, m(k)))
  BY <1>3, <1>5, <1>6, IsASeq
<1>8. \A k \in 1..Words(n) : WordFrom(AnswerWords(n)[k], r)
  BY <1>5, <1>7
<1> QED BY <1>1, <1>2, <1>3, <1>7, <1>8 DEF r

LEMMA AnswerTypes ==
  ASSUME TInv, NEW n \in AnswerSizes, Answer(n)
  PROVE  TInv' /\ answers' = answers \o AnswerWords(n) /\ asked # <<>>
<1>1. asked # <<>> /\ asked' = Tail(asked) /\ answers' = answers \o AnswerWords(n)
  BY DEF Answer, AnswerWords
<1>2. asked' \in Seq(Reads) /\ AnswerWords(n) \in Seq(Word)
  BY <1>1, AnswerProps
<1>3. answers' \in Seq(Word)
  BY <1>1, <1>2, ConcatProperties DEF TInv, DataOK
<1>4. busy' \in BOOLEAN /\ UNCHANGED <<pc, wordVars, readVars, payload, commands, expected, garbled>>
  <2>1. busy' \in {FALSE, Len(asked) > 1}
    BY DEF Answer
  <2>2. busy' = FALSE \/ busy' = (Len(asked) > 1)
    BY <2>1
  <2>3. (Len(asked) > 1) \in BOOLEAN
    OBVIOUS
  <2>4. busy' \in BOOLEAN
    BY <2>2, <2>3, Zenon
  <2> QED BY <2>4, Zenon DEF Answer
<1>5. TypeOK'
  BY <1>4 DEF TInv, TypeOK, readVars
<1>6. DataOK'
  BY <1>2, <1>3, <1>4 DEF TInv, DataOK, readVars, wordVars
<1> QED BY <1>1, <1>5, <1>6 DEF TInv

-----------------------------------------------------------------------------
(* Packets *)

\* What the lemmas about packets keep using of the state.
LEMMA CutFacts ==
  ASSUME TInv, PacketInv
  PROVE  /\ commands \in Seq(Headers) /\ Len(commands) \in Nat /\ payload \in Seq(Word) /\ Len(payload) \in Nat
         /\ expected \in Seq(Seq(Nat)) /\ Len(expected) \in Nat /\ PayloadWords \in Nat
         /\ Len(payload) <= PayloadWords
         /\ Len(expected) = Len(commands) + (IF Open THEN 1 ELSE 0)
         /\ \A j \in 1..Len(commands) : commands[j] \in Headers /\ Need(commands[j]) \in Nat
<1>1. /\ commands \in Seq(Headers) /\ payload \in Seq(Word) /\ expected \in Seq(Seq(Nat))
      /\ Len(payload) <= PayloadWords
  BY DEF TInv, TypeOK, DataOK
<1>2. Len(commands) \in Nat /\ Len(payload) \in Nat /\ Len(expected) \in Nat /\ PayloadWords \in Nat
  BY <1>1, DsiAssumption
<1>3. Len(expected) = Len(commands) + (IF Open THEN 1 ELSE 0)
  BY DEF PacketInv
<1>4. \A j \in 1..Len(commands) : commands[j] \in Headers /\ Need(commands[j]) \in Nat
  BY <1>1, HeaderTypes
<1> QED BY <1>1, <1>2, <1>3, <1>4

\* Offsets are numbers, and those of neighbours exist.
LEMMA CutRange ==
  ASSUME NEW n \in Nat, NEW m \in Nat, NEW off \in [1..n + 1 -> 0..m]
  PROVE  /\ \A j \in 1..n + 1 : off[j] \in 0..m /\ off[j] \in Nat
         /\ 1 \in 1..n + 1 /\ n + 1 \in 1..n + 1 /\ off[n + 1] \in 0..m /\ off[n + 1] \in Nat
         /\ \A j \in 1..n : j \in 1..n + 1 /\ j + 1 \in 1..n + 1 /\ j <= n + 1 /\ j + 1 <= n + 1
OBVIOUS

\* A payload that ends in its word k has k words and this one.
LEMMA LastWord ==
  ASSUME NEW l \in Nat, NEW k \in Nat, 4 * k < l, l <= 4 * k + 4
  PROVE  Words(l) = k + 1
BY DEF Words

\* A step that neither writes nor sends.
LEMMA QuietPackets ==
  ASSUME PacketInv, UNCHANGED <<wordVars, payload, commands, expected, garbled>>,
         pc' = pc \/ (~Open /\ ~Open')
  PROVE  PacketInv'
<1> USE DEF wordVars
<1>1. PICK off \in [1..Len(commands) + 1 -> 0..PayloadWords], k \in 0..PayloadWords : Cut(off, k)
  BY DEF PacketInv
<1>2. Cut(off, k)'
  <2>1. CASE pc' = pc
    BY <1>1, <2>1 DEF Cut, Current
  <2>2. CASE ~Open /\ ~Open'
    BY <1>1, <2>2 DEF Cut, Current, Open
  <2> QED BY <2>1, <2>2
<1>3. Open' = Open
  BY DEF Open
<1>4. \A j \in 1..Len(commands) : Fits(commands[j], expected[j])
  BY DEF PacketInv
<1>5. Open' => Fits(header, Current)'
  BY <1>3 DEF PacketInv, Current
<1> QED BY <1>1, <1>2, <1>3, <1>4, <1>5 DEF PacketInv

\* A new packet has no words in the FIFO yet, and its first word, if any, is at hand.
LEMMA BeginPackets ==
  ASSUME TInv, PacketInv, NEW bytes, NEW first, NEW last, NewPacket(bytes, first, last),
         Begin(bytes, first, After(bytes, 4), last)
  PROVE  PacketInv'
<1> USE DEF Begin, panelVars
<1>1. PICK off \in [1..Len(commands) + 1 -> 0..PayloadWords], k \in 0..PayloadWords : Cut(off, k)
  BY DEF PacketInv
<1>2. k = 0 /\ ~Open /\ Len(expected) = Len(commands)
  BY <1>1 DEF Cut, Open, PacketInv
<1>3. bytes \in Seq(Nat) /\ Len(bytes) \in Nat
  BY DEF NewPacket
<1>4. /\ Len(expected') = Len(expected) + 1 /\ expected'[Len(expected) + 1] = bytes
      /\ \A j \in 1..Len(expected) : expected'[j] = expected[j]
  BY <1>3, CutFacts, AppendProperties
<1>5. Current' = bytes
  BY <1>4 DEF Current
<1>6. Open' /\ Fits(last, bytes)
  BY DEF Open, NewPacket
<1>7. pc' = "word" => /\ 4 * 0 < Len(bytes) /\ temp' = WordOf(bytes, 0)
                      /\ rest' = After(bytes, 4 * 0 + 4) /\ header'.dt = "long"
  BY <1>3 DEF NewPacket
<1>8. pc' # "word" => pc' = "header" /\ Need(last) = 0
  <2> SUFFICES ASSUME pc' # "word" PROVE Need(last) = 0
    OBVIOUS
  <2>1. CASE last.dt # "long"
    BY <2>1 DEF Need
  <2>2. CASE last.dt = "long" /\ bytes = <<>>
    BY <2>2 DEF Need, Words, Fits, NewPacket
  <2> QED BY <2>1, <2>2
<1>9. Cut(off, 0)'
  <2> DEFINE last0 == off[Len(commands) + 1]
  <2>1. off[1] = 0 /\ \A i, j \in 1..Len(commands) + 1 : i <= j => off[i] <= off[j]
    BY <1>1 DEF Cut
  <2>2. \A j \in 1..Len(commands) :
          /\ off[j + 1] = off[j] + Need(commands[j])
          /\ \A w \in 0..Need(commands[j]) - 1 : payload[off[j] + w + 1] = WordOf(expected'[j], w)
    BY <1>1, <1>2, <1>4 DEF Cut
  <2>3. Len(payload) = off[Len(commands) + 1] + 0
    BY <1>1, <1>2 DEF Cut
  <2>4. \A w \in 0..0 - 1 : payload[off[Len(commands) + 1] + w + 1] = WordOf(Current', w)
    OBVIOUS
  <2>5. pc' # "word" => 0 = (IF pc' = "header" THEN Need(header)' ELSE 0)
    BY <1>8 DEF Need
  <2> QED BY <2>1, <2>2, <2>3, <2>4, <2>5, <1>5, <1>7, Zenon DEF Cut
<1>10. \A j \in 1..Len(commands) : Fits(commands[j], expected'[j])
  BY <1>2, <1>4 DEF PacketInv
<1>11. 0 \in 0..PayloadWords
  BY <1>2
<1>12. PacketInv'
  BY <1>2, <1>4, <1>5, <1>6, <1>9, <1>10, <1>11, CutFacts DEF PacketInv
<1> QED BY <1>12

\* The word at hand is the next one of the packet; the one after it, or the header, follows.
LEMMA PushWordPackets ==
  ASSUME TInv, PacketInv, PushWord
  PROVE  PacketInv'
<1> USE DEF PushWord, panelVars
<1>1. PICK off \in [1..Len(commands) + 1 -> 0..PayloadWords], k \in 0..PayloadWords : Cut(off, k)
  BY DEF PacketInv
<1> DEFINE last == off[Len(commands) + 1]
           cur == Current
<1>2. Open /\ Open' /\ Current' = cur /\ Fits(header, cur)
  BY DEF Open, Current, PacketInv
<1>3. /\ Len(commands) \in Nat /\ Len(payload) \in Nat /\ PayloadWords \in Nat /\ last \in Nat /\ k \in Nat
      /\ \A j \in 1..Len(commands) : Need(commands[j]) \in Nat
  <2>1. Len(commands) \in Nat /\ Len(payload) \in Nat /\ PayloadWords \in Nat
    BY CutFacts
  <2>2. last \in Nat
    BY <1>1, <2>1, CutRange
  <2>3. k \in Nat
    BY <2>1
  <2> QED BY <2>1, <2>2, <2>3, CutFacts
<1>4. cur \in Seq(Nat) /\ Len(cur) \in Nat
  BY <1>2, CutFacts DEF Current
<1>5. /\ off[1] = 0 /\ \A i, j \in 1..Len(commands) + 1 : i <= j => off[i] <= off[j]
      /\ \A j \in 1..Len(commands) :
           /\ off[j + 1] = off[j] + Need(commands[j])
           /\ \A w \in 0..Need(commands[j]) - 1 : payload[off[j] + w + 1] = WordOf(expected[j], w)
      /\ Len(payload) = last + k
      /\ \A w \in 0..k - 1 : payload[last + w + 1] = WordOf(cur, w)
      /\ 4 * k < Len(cur) /\ temp = WordOf(cur, k) /\ rest = After(cur, 4 * k + 4) /\ header.dt = "long"
  BY <1>1 DEF Cut
<1>6. /\ Len(payload') = Len(payload) + 1 /\ payload'[Len(payload) + 1] = temp
      /\ \A x \in 1..Len(payload) : payload'[x] = payload[x]
  <2>1. payload \in Seq(Word) /\ temp \in Word
    BY DEF TInv, DataOK
  <2> QED BY <2>1, AppendProperties
<1>7. Len(payload') <= PayloadWords
  BY <1>3, <1>6, CutFacts DEF PayloadFull
<1> HIDE DEF last, cur
<1>8. k + 1 \in 0..PayloadWords
  BY <1>3, <1>5, <1>6, <1>7
<1>9. \A j \in 1..Len(commands) : \A w \in 0..Need(commands[j]) - 1 :
        payload'[off[j] + w + 1] = WordOf(expected[j], w)
  <2> TAKE j \in 1..Len(commands)
  <2> TAKE w \in 0..Need(commands[j]) - 1
  <2>1. off[j] \in Nat /\ off[j + 1] \in Nat /\ off[j + 1] <= last
    <3>1. /\ off[j] \in Nat /\ off[j + 1] \in Nat /\ Len(commands) + 1 \in 1..Len(commands) + 1
          /\ j + 1 \in 1..Len(commands) + 1 /\ j + 1 <= Len(commands) + 1
      BY <1>1, <1>3, CutRange
    <3> QED BY <3>1, <1>5, Zenon DEF last
  <2>2. off[j] + w + 1 \in 1..Len(payload)
    <3>1. off[j + 1] = off[j] + Need(commands[j]) /\ Need(commands[j]) \in Nat
      BY <1>3, <1>5
    <3> DEFINE n == Need(commands[j])
               o == off[j]
               p == off[j + 1]
               l == Len(payload)
    <3>2. p = o + n /\ n \in Nat /\ o \in Nat /\ p \in Nat /\ p <= last /\ l = last + k /\ w \in 0..n - 1 /\ l \in Nat
      BY <3>1, <2>1, <1>3, <1>5, Zenon
    <3> HIDE DEF n, o, p, l
    <3>3. o + w + 1 \in 1..l
      BY <3>2, <1>3
    <3> QED BY <3>3 DEF o, l
  <2> QED BY <2>2, <1>5, <1>6
<1>10. \A w \in 0..(k + 1) - 1 : payload'[last + w + 1] = WordOf(cur, w)
  <2> TAKE w \in 0..(k + 1) - 1
  <2>1. CASE w = k
    BY <2>1, <1>3, <1>5, <1>6
  <2>2. CASE w # k
    <3>1. w \in 0..k - 1 /\ last + w + 1 \in 1..Len(payload)
      BY <2>2, <1>3, <1>5
    <3> QED BY <3>1, <1>5, <1>6
  <2> QED BY <2>1, <2>2
<1>11. /\ rest \in Seq(Nat) /\ Len(rest) \in Nat /\ Len(rest) = (IF 4 * k + 4 < Len(cur) THEN Len(cur) - (4 * k + 4) ELSE 0)
       /\ \A x \in 1..Len(rest) : rest[x] = cur[4 * k + 4 + x]
  <2>1. 4 * k + 4 \in Nat
    BY <1>3
  <2> QED BY <2>1, <1>4, <1>5, AfterProps
<1>12. CASE rest = <<>>
  <2>1. Len(cur) <= 4 * k + 4
    BY <1>3, <1>4, <1>11, <1>12
  <2>2. Need(header) = k + 1
    <3>1. Need(header) = Words(Len(cur))
      BY <1>2, <1>5 DEF Need, Fits
    <3> QED BY <3>1, <2>1, <1>3, <1>4, <1>5, LastWord, Zenon
  <2>3. pc' = "header"
    BY <1>12
  <2>4. Len(payload') = last + (k + 1)
    BY <1>3, <1>5, <1>6
  <2>5. Cut(off, k + 1)'
    BY <1>2, <1>5, <1>9, <1>10, <2>2, <2>3, <2>4 DEF Cut, last
  <2> QED BY <1>2, <1>8, <2>5 DEF PacketInv
<1>13. CASE rest # <<>>
  <2>1. 4 * k + 4 < Len(cur) /\ 4 * (k + 1) < Len(cur)
    BY <1>3, <1>4, <1>11, <1>13
  <2>2. temp' = WordOf(cur, k + 1)
    <3> DEFINE f == First(rest, 4)
    <3>1. /\ f \in Seq(Nat) /\ Len(f) \in Nat /\ Len(f) = (IF 4 < Len(rest) THEN 4 ELSE Len(rest))
          /\ \A x \in 1..Len(f) : f[x] = rest[x]
      <4>1. 4 \in Nat
        OBVIOUS
      <4> QED BY <4>1, <1>11, FirstProps
    <3>2. temp' = Padded(f)
      BY <1>13
    <3> HIDE DEF f
    <3>3. \A x \in 1..4 : x <= Len(f) <=> 4 * (k + 1) + x <= Len(cur)
      <4> DEFINE l == Len(f)
                 r == Len(rest)
                 c == Len(cur)
      <4>1. /\ l = (IF 4 < r THEN 4 ELSE r) /\ r = (IF 4 * k + 4 < c THEN c - (4 * k + 4) ELSE 0)
            /\ l \in Nat /\ r \in Nat /\ c \in Nat /\ k \in Nat /\ 4 * k + 4 < c
        BY <3>1, <2>1, <1>3, <1>4, <1>11
      <4> HIDE DEF l, r, c
      <4>2. \A x \in 1..4 : x <= l <=> 4 * (k + 1) + x <= c
        BY ONLY <4>1, SMT
      <4> QED BY <4>2 DEF l, c
    <3>4. \A x \in 1..Len(f) : x <= 4 => f[x] = cur[4 * (k + 1) + x]
      <4> TAKE x \in 1..Len(f)
      <4>1. x \in 1..Len(rest) /\ 4 * (k + 1) + x = 4 * k + 4 + x
        BY <3>1, <1>3, <1>11
      <4> QED BY <4>1, <3>1, <1>11
    <3>5. k + 1 \in Nat
      BY <1>3
    <3> QED BY <1>4, <3>1, <3>2, <3>3, <3>4, <3>5, PaddedIsWord, Zenon
  <2>3. rest' = After(cur, 4 * (k + 1) + 4)
    <3> DEFINE a == After(rest, 4)
               b == After(cur, 4 * (k + 1) + 4)
    <3>1. 4 \in Nat /\ 4 * (k + 1) + 4 \in Nat
      BY <1>3
    <3>2. /\ a \in Seq(Nat) /\ Len(a) \in Nat /\ Len(a) = (IF 4 < Len(rest) THEN Len(rest) - 4 ELSE 0)
          /\ \A x \in 1..Len(a) : a[x] = rest[4 + x]
      <4>1. rest \in Seq(Nat) /\ 4 \in Nat
        BY <1>11, <3>1
      <4> QED BY ONLY <4>1, AfterProps, Zenon
    <3>3. /\ b \in Seq(Nat) /\ Len(b) \in Nat
          /\ Len(b) = (IF 4 * (k + 1) + 4 < Len(cur) THEN Len(cur) - (4 * (k + 1) + 4) ELSE 0)
          /\ \A x \in 1..Len(b) : b[x] = cur[4 * (k + 1) + 4 + x]
      BY <1>4, <3>1, AfterProps
    <3>4. rest' = a
      BY <1>13
    <3> HIDE DEF a, b
    <3>5. Len(a) = Len(b)
      <4> DEFINE r == Len(rest)
                 la == Len(a)
                 lb == Len(b)
                 c == Len(cur)
      <4>1. /\ la = (IF 4 < r THEN r - 4 ELSE 0) /\ lb = (IF 4 * (k + 1) + 4 < c THEN c - (4 * (k + 1) + 4) ELSE 0)
            /\ r = (IF 4 * k + 4 < c THEN c - (4 * k + 4) ELSE 0) /\ r \in Nat /\ c \in Nat
        BY <3>2, <3>3, <1>4, <1>11, Zenon
      <4> HIDE DEF r, la, lb, c
      <4>2. la = lb
        BY <4>1, <1>3
      <4> QED BY <4>2 DEF la, lb
    <3>6. \A x \in 1..Len(a) : a[x] = b[x]
      <4> TAKE x \in 1..Len(a)
      <4>1. 4 + x \in 1..Len(rest) /\ 4 * (k + 1) + 4 + x = 4 * k + 4 + (4 + x)
        BY <3>2, <1>3, <1>11
      <4>2. a[x] = rest[4 + x] /\ b[x] = cur[4 * (k + 1) + 4 + x]
        BY <3>2, <3>3, <3>5, Zenon
      <4>3. rest[4 + x] = cur[4 * k + 4 + (4 + x)]
        BY <4>1, <1>11, Zenon
      <4> QED BY <4>1, <4>2, <4>3, Zenon
    <3>7. a = b
      BY <3>2, <3>3, <3>5, <3>6, SeqEqual
    <3> QED BY <3>4, <3>7 DEF b
  <2>4. pc' = "word"
    BY <1>13
  <2>5. Len(payload') = last + (k + 1)
    BY <1>3, <1>5, <1>6
  <2>6. Cut(off, k + 1)'
    BY <1>2, <1>5, <1>9, <1>10, <2>1, <2>2, <2>3, <2>4, <2>5 DEF Cut, last
  <2> QED BY <1>2, <1>8, <2>6 DEF PacketInv
<1> QED BY <1>12, <1>13

\* A step that puts the header of a packet behind its words.
LEMMA ClosePacket ==
  ASSUME TInv, PacketInv, NEW h \in Headers,
         commands' = Append(commands, h), UNCHANGED <<payload, garbled>>,
         ~Open', Len(expected') = Len(commands) + 1,
         \A j \in 1..Len(commands) : expected'[j] = expected[j],
         Fits(h, expected'[Len(commands) + 1]),
         Open => h = header /\ pc = "header" /\ expected'[Len(commands) + 1] = Current,
         ~Open => Need(h) = 0
  PROVE  PacketInv'
<1>1. PICK off \in [1..Len(commands) + 1 -> 0..PayloadWords], k \in 0..PayloadWords : Cut(off, k)
  BY DEF PacketInv
<1> DEFINE c == Len(commands)
           last == off[c + 1]
           fresh == expected'[c + 1]
<1>0. PICK new : new = [j \in 1..c + 2 |-> IF j <= c + 1 THEN off[j] ELSE last + k]
  OBVIOUS
<1>2. c \in Nat /\ Len(payload) \in Nat /\ PayloadWords \in Nat /\ Len(payload) <= PayloadWords /\ k \in Nat
  BY CutFacts
<1>3. /\ Len(commands') = c + 1 /\ commands'[c + 1] = h
      /\ \A j \in 1..c : commands'[j] = commands[j]
  BY CutFacts, AppendProperties
<1>4. /\ \A j \in 1..c + 1 : off[j] \in Nat /\ off[j] \in 0..PayloadWords
      /\ last \in Nat /\ 1 \in 1..c + 1 /\ c + 1 \in 1..c + 1
  BY <1>1, <1>2, CutRange
<1>5. /\ off[1] = 0 /\ \A i, j \in 1..c + 1 : i <= j => off[i] <= off[j]
      /\ \A j \in 1..c :
           /\ off[j + 1] = off[j] + Need(commands[j])
           /\ \A w \in 0..Need(commands[j]) - 1 : payload[off[j] + w + 1] = WordOf(expected[j], w)
      /\ Len(payload) = last + k
      /\ \A w \in 0..k - 1 : payload[last + w + 1] = WordOf(Current, w)
      /\ pc # "word" => k = IF pc = "header" THEN Need(header) ELSE 0
  BY <1>1 DEF Cut
<1>6. k = Need(h) /\ pc # "word"
  BY <1>5 DEF Open
<1>7. \A w \in 0..k - 1 : payload[last + w + 1] = WordOf(fresh, w)
  <2>1. CASE Open
    BY <1>5, <2>1
  <2>2. CASE ~Open
    BY <1>6, <2>2
  <2> QED BY <2>1, <2>2
<1> HIDE DEF last, fresh
<1>8. new \in [1..Len(commands') + 1 -> 0..PayloadWords]
  BY <1>0, <1>2, <1>3, <1>4, <1>5
<1>9. /\ \A j \in 1..c + 1 : new[j] = off[j]
      /\ new[c + 2] = last + k /\ new[c + 1] = last /\ 1 \in 1..c + 1
  BY <1>0, <1>2, <1>4 DEF last
<1>10. new[1] = 0
  BY <1>5, <1>9
<1>11. \A i, j \in 1..c + 2 : i <= j => new[i] <= new[j]
  <2> TAKE i, j \in 1..c + 2
  <2> HAVE i <= j
  <2>1. CASE j <= c + 1
    <3>1. i \in 1..c + 1 /\ j \in 1..c + 1
      BY <2>1, <1>2
    <3> QED BY <3>1, <1>5, <1>9
  <2>2. CASE j = c + 2 /\ i <= c + 1
    <3>1. i \in 1..c + 1 /\ i <= c + 1
      BY <2>2, <1>2
    <3>2. off[i] <= last
      BY <3>1, <1>4, <1>5, Zenon DEF last
    <3>3. new[i] = off[i] /\ new[j] = last + k /\ off[i] \in Nat
      BY <3>1, <2>2, <1>4, <1>9
    <3> QED BY <3>2, <3>3, <1>2, <1>4
  <2>3. CASE j = c + 2 /\ i = c + 2
    <3>1. new[i] = last + k /\ new[j] = last + k
      BY <2>3, <1>9
    <3> QED BY <3>1, <1>2, <1>4
  <2> QED BY <2>1, <2>2, <2>3, <1>2
<1>12. \A j \in 1..c + 1 :
         /\ new[j + 1] = new[j] + Need(commands'[j])
         /\ \A w \in 0..Need(commands'[j]) - 1 : payload[new[j] + w + 1] = WordOf(expected'[j], w)
  <2> TAKE j \in 1..c + 1
  <2>1. CASE j = c + 1
    <3>1. j + 1 = c + 2
      BY <2>1, <1>2
    <3> QED BY <2>1, <3>1, <1>3, <1>6, <1>7, <1>9, Zenon DEF fresh
  <2>2. CASE j # c + 1
    <3>1. j \in 1..c /\ j + 1 \in 1..c + 1
      BY <2>2, <1>2
    <3>2. new[j] = off[j] /\ new[j + 1] = off[j + 1] /\ commands'[j] = commands[j] /\ expected'[j] = expected[j]
      BY <3>1, <1>3, <1>9, Zenon
    <3>3. /\ off[j + 1] = off[j] + Need(commands[j])
          /\ \A w \in 0..Need(commands[j]) - 1 : payload[off[j] + w + 1] = WordOf(expected[j], w)
      BY <3>1, <1>5, Zenon
    <3> QED BY <3>2, <3>3, Zenon
  <2> QED BY <2>1, <2>2
<1>13. Cut(new, 0)'
  <2>1. (c + 1) + 1 = c + 2 /\ Len(payload') = new[c + 2] + 0
    BY <1>2, <1>4, <1>5, <1>9
  <2>2. \A w \in 0..0 - 1 : payload'[new[c + 2] + w + 1] = WordOf(Current', w)
    OBVIOUS
  <2>3. pc' # "word" /\ pc' # "header"
    BY DEF Open
  <2>4. /\ new[1] = 0 /\ \A i, j \in 1..Len(commands') + 1 : i <= j => new[i] <= new[j]
        /\ \A j \in 1..Len(commands') :
             /\ new[j + 1] = new[j] + Need(commands'[j])
             /\ \A w \in 0..Need(commands'[j]) - 1 : payload'[new[j] + w + 1] = WordOf(expected'[j], w)
        /\ Len(payload') = new[Len(commands') + 1] + 0
        /\ \A w \in 0..0 - 1 : payload'[new[Len(commands') + 1] + w + 1] = WordOf(Current', w)
    BY <1>3, <1>10, <1>11, <1>12, <2>1, <2>2, Zenon
  <2> QED BY <2>3, <2>4 DEF Cut
<1>14. \A j \in 1..Len(commands') : Fits(commands'[j], expected'[j])
  <2> TAKE j \in 1..Len(commands')
  <2>1. CASE j = c + 1
    BY <2>1, <1>3, Zenon
  <2>2. CASE j # c + 1
    <3>1. j \in 1..c
      BY <2>2, <1>2, <1>3
    <3> QED BY <3>1, <1>3 DEF PacketInv
  <2> QED BY <2>1, <2>2
<1>15. Len(expected') = Len(commands') + (IF Open' THEN 1 ELSE 0)
  BY <1>2, <1>3
<1>16. 0 \in 0..PayloadWords /\ ~garbled'
  BY <1>2 DEF PacketInv
<1>17. \E o \in [1..Len(commands') + 1 -> 0..PayloadWords], i \in 0..PayloadWords : Cut(o, i)'
  BY <1>8, <1>13, <1>16, Zenon
<1> QED BY <1>14, <1>15, <1>16, <1>17 DEF PacketInv

\* A long packet closes with its words behind those of the packets before it.
LEMMA EndOfPacket ==
  ASSUME TInv, PacketInv, PushHeader("header", "idle", header), UNCHANGED <<expected, busy>>
  PROVE  PacketInv'
<1>1. /\ commands' = Append(commands, header) /\ UNCHANGED <<payload, garbled>> /\ ~Open'
      /\ Open /\ pc = "header" /\ header \in Headers
  BY DEF PushHeader, Open, panelVars, TInv, DataOK
<1>2. Len(expected) = Len(commands) + 1 /\ Fits(header, Current)
  BY <1>1 DEF PacketInv
<1>3. expected'[Len(commands) + 1] = Current
  BY <1>2 DEF Current
<1> QED BY <1>1, <1>2, <1>3, ClosePacket

\* A packet that is a header and no more.
LEMMA ShortPacket ==
  ASSUME TInv, PacketInv, NEW from \in {"max", "ask"}, NEW to \in {"ask", "busy"},
         NEW dt \in {"short", "read"}, NEW data \in Seq(Nat), Header(dt, data) \in Headers,
         PushHeader(from, to, Header(dt, data)), expected' = Append(expected, data)
  PROVE  PacketInv'
<1> DEFINE h == Header(dt, data)
<1>1. /\ commands' = Append(commands, h) /\ UNCHANGED <<payload, garbled>> /\ ~Open' /\ ~Open
  BY DEF PushHeader, Open, panelVars
<1>2. Need(h) = 0 /\ Fits(h, data)
  BY DEF Header, Need, Fits
<1>3. Len(expected) = Len(commands)
  BY <1>1, CutFacts
<1>4. /\ Len(expected') = Len(commands) + 1 /\ expected'[Len(commands) + 1] = data
      /\ \A j \in 1..Len(commands) : expected'[j] = expected[j]
  BY <1>3, CutFacts, AppendProperties
<1> HIDE DEF h
<1> QED BY <1>1, <1>2, <1>4, ClosePacket DEF h

LEMMA SetMaximumPackets ==
  ASSUME TInv, PacketInv, SetMaximum
  PROVE  PacketInv'
<1>1. <<size>> \in Seq(Nat)
  BY DEF TInv, DataOK
<1> QED BY <1>1, SetMaximumTypes, ShortPacket DEF SetMaximum

LEMMA AskPackets ==
  ASSUME TInv, PacketInv, Ask
  PROVE  PacketInv'
<1>1. <<id>> \in Seq(Nat)
  BY DsiAssumption DEF TInv, TypeOK
<1> QED BY <1>1, AskTypes, ShortPacket DEF Ask

\* Words that hold the bytes of a payload, taken up to its length, are the payload.
LEMMA WholePayload ==
  ASSUME NEW bytes \in Seq(Nat), NEW s \in Seq(Word), Len(s) = Words(Len(bytes)),
         \A w \in 0..Len(s) - 1 : s[w + 1] = WordOf(bytes, w)
  PROVE  First(FlattenSeq(s), Len(bytes)) = bytes
<1> DEFINE l == Len(bytes)
           n == Len(s)
<1>1. l \in Nat /\ n \in Nat /\ n = (l + 3) \div 4
  BY DEF Words
<1>2. CASE s = <<>>
  <2>1. n = 0
    BY <1>2
  <2>2. l = 0
    <3> HIDE DEF l, n
    <3> QED BY <1>1, <2>1
  <2>3. bytes = <<>>
    BY <2>2
  <2>4. FlattenSeq(s) = <<>>
    BY <1>2 DEF FlattenSeq
  <2>5. <<>> \in Seq(Nat) /\ 0 \in Nat /\ Len(<<>>) = 0
    OBVIOUS
  <2>6. First(<<>>, 0) \in Seq(Nat) /\ Len(First(<<>>, 0)) = 0
    BY <2>5, FirstProps
  <2>7. First(<<>>, 0) = <<>>
    BY <2>6
  <2> QED BY <2>2, <2>3, <2>4, <2>7
<1>3. CASE s # <<>>
  <2> DEFINE p == Prefix(s, n)
  <2>1. FlattenSeq(s) = p
    BY <1>3, FlattenWords
  <2>2. n \in 0..Len(s)
    BY <1>1
  <2>3. p \in Seq(Nat) /\ Len(p) = 4 * n
    BY <2>2, PrefixIsSeq
  <2>4. \A x \in 1..4 * n : p[x] = s[(x - 1) \div 4 + 1][((x - 1) % 4) + 1]
    BY DEF Prefix
  <2> HIDE DEF p
  <2>5. /\ First(p, l) \in Seq(Nat) /\ Len(First(p, l)) = (IF l < Len(p) THEN l ELSE Len(p))
        /\ \A x \in 1..Len(First(p, l)) : First(p, l)[x] = p[x]
    BY <1>1, <2>3, FirstProps
  <2> HIDE DEF l, n
  <2>6. l <= 4 * n
    BY <1>1
  <2>7. Len(First(p, l)) = l
    BY <1>1, <2>3, <2>5, <2>6
  <2>8. \A x \in 1..l : First(p, l)[x] = bytes[x]
    <3> TAKE x \in 1..l
    <3> DEFINE w == (x - 1) \div 4
               i == ((x - 1) % 4) + 1
    <3>1. w \in 0..n - 1 /\ i \in 1..4 /\ 4 * w + i = x /\ 4 * w + i <= l /\ x \in 1..4 * n
      BY <1>1, <2>6
    <3>2. First(p, l)[x] = p[x] /\ p[x] = s[w + 1][i]
      BY <2>4, <2>5, <2>7, <3>1
    <3> HIDE DEF w, i
    <3>3. s[w + 1] = WordOf(bytes, w)
      BY <3>1 DEF n
    <3>4. WordOf(bytes, w)[i] = bytes[4 * w + i]
      BY <3>1 DEF WordOf, l
    <3> QED BY <3>1, <3>2, <3>3, <3>4
  <2>9. First(p, l) = bytes
    BY <1>1, <2>5, <2>7, <2>8, SeqEqual DEF l
  <2> QED BY <2>1, <2>9 DEF l
<1> QED BY <1>2, <1>3

\* The controller takes the words that the first header counts, which are its own, and every
\* other packet moves up by as many.
LEMMA DeliverPackets ==
  ASSUME TInv, PacketInv, Deliver
  PROVE  PacketInv' /\ expected # <<>>
<1>1. PICK off \in [1..Len(commands) + 1 -> 0..PayloadWords], k \in 0..PayloadWords : Cut(off, k)
  BY DEF PacketInv
<1> DEFINE c == Len(commands)
           h == Head(commands)
           n == Need(h)
           last == off[c + 1]
           bytes == expected[1]
<1>2. /\ commands # <<>> /\ Len(payload) >= n
      /\ commands' = Tail(commands) /\ payload' = After(payload, n) /\ expected' = Tail(expected)
      /\ UNCHANGED <<pc, temp, rest, header>>
      /\ garbled' = (garbled \/ Head(expected) #
           IF h.dt = "long" THEN First(FlattenSeq(First(payload, n)), h.data) ELSE h.data)
  BY DEF Deliver, Need, wordVars
<1>3. /\ h \in Headers /\ h = commands[1] /\ 1 \in 1..c
      /\ Len(commands') = c - 1 /\ \A j \in 1..c - 1 : commands'[j] = commands[j + 1]
  BY <1>2, DeliverProps
<1>4. /\ c \in Nat \ {0} /\ n \in Nat /\ Len(payload) \in Nat /\ PayloadWords \in Nat /\ Len(payload) <= PayloadWords
      /\ k \in Nat /\ payload \in Seq(Word) /\ expected \in Seq(Seq(Nat))
      /\ Len(expected) = c + (IF Open THEN 1 ELSE 0) /\ Len(expected) \in Nat
      /\ \A j \in 1..c : Need(commands[j]) \in Nat
  <2>1. c # 0
    BY <1>3
  <2>2. n \in Nat
    BY <1>3, HeaderTypes
  <2>3. k \in Nat
    BY CutFacts
  <2> QED BY <2>1, <2>2, <2>3, CutFacts
<1>0. PICK new : new = [j \in 1..c |-> off[j + 1] - n]
  OBVIOUS
<1>5. expected # <<>>
  BY <1>4
<1>6. /\ Head(expected) = bytes /\ bytes \in Seq(Nat)
      /\ Len(expected') = Len(expected) - 1 /\ \A j \in 1..Len(expected) - 1 : expected'[j] = expected[j + 1]
  BY <1>2, <1>4, <1>5, HeadTailProperties
<1>7. /\ \A j \in 1..c + 1 : off[j] \in Nat /\ off[j] \in 0..PayloadWords
      /\ last \in Nat /\ 1 \in 1..c + 1 /\ c + 1 \in 1..c + 1
      /\ \A j \in 1..c : j \in 1..c + 1 /\ j + 1 \in 1..c + 1 /\ j <= c + 1 /\ j + 1 <= c + 1
  BY <1>1, <1>4, CutRange
<1>8. /\ off[1] = 0 /\ \A i, j \in 1..c + 1 : i <= j => off[i] <= off[j]
      /\ \A j \in 1..c :
           /\ off[j + 1] = off[j] + Need(commands[j])
           /\ \A w \in 0..Need(commands[j]) - 1 : payload[off[j] + w + 1] = WordOf(expected[j], w)
      /\ Len(payload) = last + k
      /\ \A w \in 0..k - 1 : payload[last + w + 1] = WordOf(Current, w)
      /\ pc = "word" => /\ 4 * k < Len(Current) /\ temp = WordOf(Current, k)
                        /\ rest = After(Current, 4 * k + 4) /\ header.dt = "long"
      /\ pc # "word" => k = IF pc = "header" THEN Need(header) ELSE 0
  BY <1>1 DEF Cut
<1>9. off[2] = n /\ \A w \in 0..n - 1 : payload[w + 1] = WordOf(bytes, w)
  <2>1. off[1 + 1] = off[1] + n /\ \A w \in 0..n - 1 : payload[off[1] + w + 1] = WordOf(bytes, w)
    BY <1>3, <1>8, Zenon
  <2> HIDE DEF n
  <2>2. 1 + 1 = 2 /\ 0 + n = n /\ \A w \in 0..n - 1 : 0 + w + 1 = w + 1
    BY <1>4
  <2> QED BY <1>8, <2>1, <2>2, Zenon
<1>10. Fits(h, bytes)
  BY <1>3 DEF PacketInv
<1> HIDE DEF n, h, last, bytes
<1>11. /\ payload' \in Seq(Word) /\ Len(payload') = Len(payload) - n
       /\ \A x \in 1..Len(payload) - n : payload'[x] = payload[n + x]
  <2>1. /\ payload' \in Seq(Word) /\ Len(payload') = (IF n < Len(payload) THEN Len(payload) - n ELSE 0)
        /\ \A x \in 1..Len(payload') : payload'[x] = payload[n + x]
    BY <1>2, <1>4, AfterProps
  <2>2. Len(payload') = Len(payload) - n
    BY <1>2, <1>4, <2>1
  <2> QED BY <2>1, <2>2
<1>12. ~garbled'
  <2>1. CASE h.dt = "long"
    <3> DEFINE s == First(payload, n)
    <3>1. n = Words(Len(bytes)) /\ h.data = Len(bytes)
      BY <2>1, <1>10 DEF Fits, Need, n
    <3>2. /\ s \in Seq(Word) /\ Len(s) = (IF n < Len(payload) THEN n ELSE Len(payload))
          /\ \A x \in 1..Len(s) : s[x] = payload[x]
      BY <1>4, FirstProps
    <3> HIDE DEF s
    <3>3. Len(s) = n
      BY <1>2, <1>4, <3>2
    <3>4. \A w \in 0..Len(s) - 1 : s[w + 1] = WordOf(bytes, w)
      <4> TAKE w \in 0..Len(s) - 1
      <4>1. w + 1 \in 1..Len(s) /\ w \in 0..n - 1
        BY <3>3, <1>4
      <4> QED BY <4>1, <3>2, <1>9
    <3>5. First(FlattenSeq(s), Len(bytes)) = bytes
      BY <1>6, <3>1, <3>2, <3>3, <3>4, WholePayload
    <3> QED BY <3>1, <3>5, <2>1, <1>2, <1>6 DEF PacketInv, s
  <2>2. CASE h.dt # "long"
    BY <2>2, <1>2, <1>6, <1>10 DEF Fits, PacketInv
  <2> QED BY <2>1, <2>2
<1>13. \A j \in 1..c : /\ off[j + 1] \in Nat /\ off[j + 1] - n \in 0..PayloadWords
                       /\ off[j + 1] <= last /\ n <= off[j + 1]
  <2> TAKE j \in 1..c
  <2>1. 2 \in 1..c + 1 /\ 2 <= j + 1 /\ j + 1 \in 1..c + 1 /\ j + 1 <= c + 1
    BY <1>4
  <2>2. off[j + 1] \in Nat /\ off[j + 1] \in 0..PayloadWords /\ n <= off[j + 1] /\ off[j + 1] <= last
    BY <2>1, <1>7, <1>8, <1>9, Zenon DEF last
  <2> DEFINE o == off[j + 1]
  <2>3. o \in Nat /\ o \in 0..PayloadWords /\ n <= o /\ o <= last /\ n \in Nat /\ PayloadWords \in Nat
    BY <2>2, <1>4
  <2> HIDE DEF o
  <2>4. o - n \in 0..PayloadWords
    BY ONLY <2>3, SMT
  <2> QED BY <2>3, <2>4, Zenon DEF o
<1>14. /\ new \in [1..Len(commands') + 1 -> 0..PayloadWords]
       /\ \A j \in 1..c : new[j] = off[j + 1] - n
  <2>1. Len(commands') + 1 = c
    BY <1>3, <1>4
  <2> QED BY <2>1, <1>0, <1>13
<1>15. new[1] = 0
  BY <1>3, <1>4, <1>9, <1>14
<1>16. \A i, j \in 1..c : i <= j => new[i] <= new[j]
  <2> TAKE i, j \in 1..c
  <2> HAVE i <= j
  <2>1. i + 1 \in 1..c + 1 /\ j + 1 \in 1..c + 1 /\ i + 1 <= j + 1
    BY <1>4
  <2>2. off[i + 1] <= off[j + 1]
    BY <2>1, <1>8, Zenon
  <2>3. /\ off[i + 1] \in Nat /\ off[j + 1] \in Nat
        /\ new[i] = off[i + 1] - n /\ new[j] = off[j + 1] - n
    BY <1>13, <1>14
  <2> QED BY <2>2, <2>3, <1>4
<1>17. \A j \in 1..c - 1 :
         /\ new[j + 1] = new[j] + Need(commands'[j])
         /\ \A w \in 0..Need(commands'[j]) - 1 : payload'[new[j] + w + 1] = WordOf(expected'[j], w)
  <2> TAKE j \in 1..c - 1
  <2> DEFINE m == Need(commands'[j])
             o == off[j + 1]
             p == off[j + 1 + 1]
  <2>1. j \in 1..c /\ j + 1 \in 1..c /\ j \in 1..Len(expected) - 1
    BY <1>4
  <2>2. commands'[j] = commands[j + 1] /\ expected'[j] = expected[j + 1] /\ m \in Nat
    BY <2>1, <1>3, <1>4, <1>6
  <2>3. p = o + m /\ \A w \in 0..m - 1 : payload[o + w + 1] = WordOf(expected[j + 1], w)
    BY <2>1, <2>2, <1>8, Zenon
  <2>4. o \in Nat /\ p \in Nat /\ p <= last /\ n <= o
    BY <2>1, <1>13
  <2>5. new[j] = o - n /\ new[j + 1] = p - n
    BY <2>1, <1>14
  <2> HIDE DEF m, o, p
  <2>6. new[j + 1] = new[j] + m
    BY <2>2, <2>3, <2>4, <2>5, <1>4
  <2>7. ASSUME NEW w \in 0..m - 1 PROVE payload'[new[j] + w + 1] = WordOf(expected'[j], w)
    <3>1. new[j] + w + 1 \in 1..Len(payload) - n /\ n + (new[j] + w + 1) = o + w + 1
      <4> DEFINE l == Len(payload)
                 z == new[j]
      <4>1. l = last + k /\ l \in Nat /\ last \in Nat /\ k \in Nat /\ n \in Nat /\ m \in Nat /\ p = o + m
            /\ z = o - n
        BY <2>2, <2>3, <2>5, <1>4, <1>7, <1>8, Zenon
      <4> HIDE DEF l, z
      <4>2. z + w + 1 \in 1..l - n /\ n + (z + w + 1) = o + w + 1
        BY <4>1, <2>4
      <4> QED BY <4>2 DEF l, z
    <3>2. payload'[new[j] + w + 1] = payload[n + (new[j] + w + 1)]
      BY <3>1, <1>11, Zenon
    <3> QED BY <3>1, <3>2, <2>2, <2>3, <2>7, Zenon
  <2> QED BY <2>6, <2>7 DEF m
<1>18. Len(payload') = new[c] + k
  <2>1. new[c] = last - n
    <3>1. c \in 1..c
      BY <1>4
    <3> QED BY <3>1, <1>14 DEF last
  <2> QED BY <2>1, <1>4, <1>7, <1>8, <1>11
<1>19. Open => Current' = Current
  <2> HAVE Open
  <2>1. Len(expected) - 1 \in 1..Len(expected) - 1 /\ (Len(expected) - 1) + 1 = Len(expected)
    BY <1>4
  <2> QED BY <2>1, <1>6 DEF Current
<1>20. \A w \in 0..k - 1 : payload'[new[c] + w + 1] = WordOf(Current', w)
  <2> TAKE w \in 0..k - 1
  <2>1. Open
    BY <1>4, <1>8 DEF Open
  <2>2. new[c] = last - n /\ n <= last
    <3>1. c \in 1..c
      BY <1>4
    <3> QED BY <3>1, <1>13, <1>14 DEF last
  <2>3. new[c] + w + 1 \in 1..Len(payload) - n /\ n + (new[c] + w + 1) = last + w + 1
    BY <2>2, <1>4, <1>7, <1>8
  <2>4. payload'[new[c] + w + 1] = payload[n + (new[c] + w + 1)]
    BY <2>3, <1>11, Zenon
  <2> QED BY <2>1, <2>3, <2>4, <1>8, <1>19, Zenon
<1>21. Cut(new, k)'
  <2>1. Len(commands') + 1 = c
    BY <1>3, <1>4
  <2>2. pc' = "word" => Open
    BY <1>2 DEF Open
  <2>3. pc' = "word" => /\ 4 * k < Len(Current') /\ temp' = WordOf(Current', k)
                        /\ rest' = After(Current', 4 * k + 4) /\ header'.dt = "long"
    BY <2>2, <1>2, <1>8, <1>19, Zenon
  <2>4. pc' # "word" => k = IF pc' = "header" THEN Need(header') ELSE 0
    BY <1>2, <1>8, Zenon
  <2>5. /\ new[1] = 0 /\ \A i, j \in 1..Len(commands') + 1 : i <= j => new[i] <= new[j]
        /\ \A j \in 1..Len(commands') :
             /\ new[j + 1] = new[j] + Need(commands'[j])
             /\ \A w \in 0..Need(commands'[j]) - 1 : payload'[new[j] + w + 1] = WordOf(expected'[j], w)
        /\ Len(payload') = new[Len(commands') + 1] + k
        /\ \A w \in 0..k - 1 : payload'[new[Len(commands') + 1] + w + 1] = WordOf(Current', w)
    BY <1>3, <1>15, <1>16, <1>17, <1>18, <1>20, <2>1, Zenon
  <2> QED BY <2>3, <2>4, <2>5 DEF Cut
<1>22. \A j \in 1..Len(commands') : Fits(commands'[j], expected'[j])
  <2> TAKE j \in 1..Len(commands')
  <2>1. j \in 1..c - 1 /\ j + 1 \in 1..c /\ j \in 1..Len(expected) - 1
    BY <1>3, <1>4
  <2>2. commands'[j] = commands[j + 1] /\ expected'[j] = expected[j + 1]
    BY <2>1, <1>3, <1>6
  <2> QED BY <2>1, <2>2 DEF PacketInv
<1>23. Open' = Open /\ (Open' => Fits(header', Current'))
  BY <1>2, <1>19 DEF Open, PacketInv
<1>24. Len(expected') = Len(commands') + (IF Open' THEN 1 ELSE 0)
  BY <1>3, <1>4, <1>6, <1>23
<1>25. PacketInv'
  <2>1. \E o \in [1..Len(commands') + 1 -> 0..PayloadWords], i \in 0..PayloadWords : Cut(o, i)'
    BY <1>14, <1>21, Zenon
  <2> QED BY <2>1, <1>12, <1>22, <1>23, <1>24 DEF PacketInv
<1> QED BY <1>5, <1>25

-----------------------------------------------------------------------------
(* Reads *)

\* What the panel has got, and has said, as far as Told, Silent and OnlyOwn speak of it.
seen == <<size, buffer, s_gen_read_timed_out, clean, id, asked, answers>>

\* The predicates depend on what was seen, and Silent and OnlyOwn on the headers too.
LEMMA QuietReads ==
  ASSUME UNCHANGED seen
  PROVE  /\ Told' = Told
         /\ commands' = commands => Silent' = Silent /\ OnlyOwn' = OnlyOwn
BY DEF seen, Told, Silent, OnlyOwn

\* Each action keeps what is known of the read.
LEMMA BeginReads ==
  ASSUME ReadInv, NEW bytes, NEW first, NEW last, Begin(bytes, first, After(bytes, 4), last)
  PROVE  ReadInv'
<1>1. pc = "idle" /\ pc' \in {"word", "header"} /\ UNCHANGED <<commands, tainted, seen>>
  BY DEF Begin, seen, readVars, panelVars
<1>2. Told' = Told /\ Silent' = Silent
  BY <1>1, QuietReads
<1> QED BY <1>1, <1>2 DEF ReadInv

LEMMA BeginReadReads ==
  ASSUME ReadInv, NEW n, BeginRead(n)
  PROVE  ReadInv'
<1>1. /\ pc = "idle" /\ pc' = "max" /\ buffer' = <<>> /\ s_gen_read_timed_out' = FALSE /\ clean' = ~tainted
      /\ UNCHANGED <<commands, asked, answers>>
  BY DEF BeginRead, panelVars
<1>2. Silent' = Silent
  BY <1>1 DEF Silent
<1> QED BY <1>1, <1>2 DEF ReadInv

LEMMA PushWordReads ==
  ASSUME ReadInv, PushWord
  PROVE  ReadInv'
<1>1. pc = "word" /\ pc' \in {"word", "header"} /\ UNCHANGED <<commands, tainted, seen>>
  BY DEF PushWord, seen, readVars, panelVars
<1>2. Told' = Told /\ Silent' = Silent
  BY <1>1, QuietReads
<1> QED BY <1>1, <1>2 DEF ReadInv

\* A header that asks for nothing leaves the panel silent.
LEMMA AppendReads ==
  ASSUME TInv, NEW h \in Headers, commands' = Append(commands, h), UNCHANGED seen, Silent
  PROVE  /\ h.dt # "read" => Silent'
         /\ h.data = <<id>> => OnlyOwn'
<1>1. /\ Len(commands') = Len(commands) + 1 /\ commands'[Len(commands) + 1] = h
      /\ \A i \in 1..Len(commands) : commands'[i] = commands[i]
      /\ Len(commands) \in Nat
  BY AppendProperties DEF TInv, DataOK
<1>2. \A i \in 1..Len(commands') : i \in 1..Len(commands) \/ i = Len(commands) + 1
  BY <1>1
<1>3. asked' = <<>> /\ answers' = <<>> /\ id' = id
  BY DEF seen, Silent
<1>4. \A i \in 1..Len(commands') : commands'[i].dt = "read" => commands'[i] = h
  BY <1>1, <1>2 DEF Silent
<1>5. h.dt # "read" => Silent'
  BY <1>3, <1>4 DEF Silent
<1>6. h.data = <<id>> => OnlyOwn'
  BY <1>3, <1>4 DEF OnlyOwn
<1> QED BY <1>5, <1>6

LEMMA CloseReads ==
  ASSUME TInv, ReadInv, PushHeader("header", "idle", header), UNCHANGED <<expected, busy>>
  PROVE  ReadInv'
<1>1. /\ pc = "header" /\ pc' = "idle" /\ commands' = Append(commands, header)
      /\ UNCHANGED <<tainted, seen>> /\ header \in Headers /\ header.dt # "read"
  BY DEF PushHeader, seen, readVars, panelVars, TInv, DataOK
<1>2. Told' = Told /\ (Silent => Silent')
  BY <1>1, QuietReads, AppendReads
<1> QED BY <1>1, <1>2 DEF ReadInv

LEMMA SetMaximumReads ==
  ASSUME TInv, ReadInv, SetMaximum
  PROVE  ReadInv'
<1>1. /\ pc = "max" /\ pc' = "ask" /\ commands' = Append(commands, Header("short", <<size>>))
      /\ UNCHANGED <<clean, buffer, s_gen_read_timed_out, seen>>
  BY DEF SetMaximum, PushHeader, seen, readVars, panelVars
<1>2. Header("short", <<size>>) \in Headers /\ Header("short", <<size>>).dt # "read"
  BY SetMaximumTypes DEF Header
<1>3. Silent => Silent'
  BY <1>1, <1>2, AppendReads
<1> QED BY <1>1, <1>3 DEF ReadInv

LEMMA AskReads ==
  ASSUME TInv, ReadInv, Ask
  PROVE  ReadInv'
<1>1. /\ pc = "ask" /\ pc' = "busy" /\ commands' = Append(commands, Header("read", <<id>>))
      /\ UNCHANGED <<clean, buffer, s_gen_read_timed_out, seen>>
  BY DEF Ask, PushHeader, seen, readVars, panelVars
<1>2. Header("read", <<id>>) \in Headers /\ Header("read", <<id>>).data = <<id>>
  BY AskTypes DEF Header
<1>3. Silent => OnlyOwn'
  BY <1>1, <1>2, AppendReads
<1> QED BY <1>1, <1>3 DEF ReadInv

LEMMA NotBusyReads ==
  ASSUME ReadInv, NotBusy
  PROVE  ReadInv'
<1>1. pc = "busy" /\ pc' = "data" /\ UNCHANGED <<commands, seen>>
  BY DEF NotBusy, Waited, seen, readVars, panelVars
<1>2. OnlyOwn' = OnlyOwn
  BY <1>1, QuietReads
<1> QED BY <1>1, <1>2 DEF ReadInv, seen

LEMMA HasDataReads ==
  ASSUME ReadInv, HasData
  PROVE  ReadInv'
<1>1. pc = "data" /\ pc' = "drain" /\ UNCHANGED <<commands, seen>> /\ answers # <<>>
  BY DEF HasData, Waited, seen, readVars, panelVars
<1>2. OnlyOwn' = OnlyOwn
  BY <1>1, QuietReads
<1> QED BY <1>1, <1>2 DEF ReadInv, seen

LEMMA TimedOutReads ==
  ASSUME ReadInv, TimedOut
  PROVE  ReadInv'
<1>1. pc' = "idle" /\ s_gen_read_timed_out' = TRUE /\ buffer' = Repeat(0, size) /\ size' = size /\ tainted' = TRUE
  BY DEF TimedOut
<1>2. Told'
  BY <1>1 DEF Told
<1> QED BY <1>1, <1>2 DEF ReadInv

\* With nothing outstanding and the FIFO empty, no answer can come.
LEMMA DrainedIsSilent ==
  ASSUME TInv, Outstanding = {}, answers = <<>>
  PROVE  Silent
<1>1. asked \in Seq(Reads) /\ commands \in Seq(Headers)
  BY DEF TInv, DataOK
<1>2. asked = <<>>
  <2> SUFFICES ASSUME asked # <<>> PROVE FALSE
    OBVIOUS
  <2>1. 1 \in DOMAIN asked
    BY <1>1
  <2>2. asked[1] \in Outstanding
    BY <2>1 DEF Outstanding, Range
  <2> QED BY <2>2
<1>3. \A i \in 1..Len(commands) : commands[i].dt # "read"
  <2> SUFFICES ASSUME NEW i \in 1..Len(commands), commands[i].dt = "read" PROVE FALSE
    OBVIOUS
  <2>1. i \in DOMAIN commands
    BY <1>1
  <2>2. commands[i].data[1] \in Outstanding
    BY <2>1 DEF Outstanding
  <2> QED BY <2>2
<1> QED BY <1>2, <1>3 DEF Silent

\* What is taken of a read's own answer is its own.
LEMMA OwnBuffer ==
  ASSUME TInv, answers # <<>>, buffer # <<>> => WordFrom(buffer, id), WordFrom(answers[1], id),
         buffer' = First(buffer \o Head(answers), size)
  PROVE  /\ buffer' # <<>> => WordFrom(buffer', id)
         /\ size > 0 => buffer' # <<>>
<1> DEFINE w == Head(answers)
           b == buffer \o w
           n == Len(buffer)
<1>1. /\ b \in Seq(Nat) /\ Len(b) = n + 4 /\ w = answers[1] /\ w \in Word
      /\ \A x \in 1..n + 4 : b[x] = IF x <= n THEN buffer[x] ELSE w[x - n]
  BY DrainProps
<1>2. n \in Nat /\ size \in Nat /\ buffer \in Seq(Nat)
  BY DEF TInv, DataOK
<1>3. DOMAIN w = 1..4
  BY <1>1, WordIsSeq
<1>4. w[1] = id /\ \A x \in 1..4 : w[x] \in {id, 0}
  BY <1>1, <1>3 DEF WordFrom, Range
<1>5. \A x \in 1..n : buffer[x] \in {id, 0} /\ (x = 1 => buffer[x] = id)
  <2> TAKE x \in 1..n
  <2>1. buffer # <<>> /\ x \in DOMAIN buffer
    BY <1>2
  <2> QED BY <2>1 DEF WordFrom, Range
<1>6. buffer' = First(b, size)
  OBVIOUS
<1> HIDE DEF b, w, n
<1>7. /\ buffer' \in Seq(Nat) /\ Len(buffer') = (IF size < Len(b) THEN size ELSE Len(b)) /\ Len(buffer') \in Nat
      /\ \A x \in 1..Len(buffer') : buffer'[x] = b[x]
  <2>1. b \in Seq(Nat) /\ size \in Nat
    BY <1>1, <1>2
  <2>2. /\ First(b, size) \in Seq(Nat) /\ Len(First(b, size)) = (IF size < Len(b) THEN size ELSE Len(b))
        /\ Len(First(b, size)) \in Nat /\ \A x \in 1..Len(First(b, size)) : First(b, size)[x] = b[x]
    BY ONLY <2>1, FirstProps, Zenon
  <2> QED BY ONLY <2>2, <1>6, Zenon
<1>8. \A x \in 1..n + 4 : b[x] \in {id, 0} /\ (x = 1 => b[x] = id)
  <2> TAKE x \in 1..n + 4
  <2>1. CASE x <= n
    <3>1. x \in 1..n
      BY <2>1, <1>2
    <3> QED BY <3>1, <2>1, <1>1, <1>5
  <2>2. CASE ~(x <= n)
    <3>1. x - n \in 1..4 /\ (x = 1 => x - n = 1)
      BY <2>2, <1>2
    <3> QED BY <3>1, <2>2, <1>1, <1>4
  <2> QED BY <2>1, <2>2
<1>9. \A x \in 1..Len(buffer') : x \in 1..n + 4
  BY <1>1, <1>2, <1>7
<1>10. buffer' # <<>> => WordFrom(buffer', id)
  <2> HAVE buffer' # <<>>
  <2>1. 1 \in 1..Len(buffer') /\ DOMAIN buffer' = 1..Len(buffer')
    BY <1>7
  <2>2. \A x \in DOMAIN buffer' : buffer'[x] \in {id, 0}
    BY <2>1, <1>7, <1>8, <1>9
  <2>3. buffer'[1] = id
    BY <2>1, <1>7, <1>8, <1>9
  <2> QED BY <2>2, <2>3 DEF WordFrom, Range
<1>11. size > 0 => Len(buffer') > 0
  BY <1>1, <1>2, <1>7
<1>12. size > 0 => buffer' # <<>>
  BY <1>11
<1> QED BY <1>10, <1>12

LEMMA DrainReads ==
  ASSUME TInv, ReadInv, Drain
  PROVE  ReadInv'
<1>1. /\ pc = "drain" /\ ~s_gen_read_timed_out
      /\ UNCHANGED <<commands, size, s_gen_read_timed_out, id, clean, asked>>
  BY DEF Drain, ReadInv
<1>2. CASE answers = <<>>
  <2>1. pc' = "idle" /\ tainted' = (Outstanding # {}) /\ UNCHANGED <<buffer, answers>>
    BY <1>2 DEF Drain, ReadFifoEmpty
  <2>2. Told' = Told /\ Silent' = Silent
    BY <1>1, <2>1, QuietReads DEF seen
  <2>3. Told
    BY <1>1, <1>2 DEF Told, ReadInv
  <2>4. ~tainted' => Silent
    BY <1>2, <2>1, DrainedIsSilent
  <2> QED BY <2>1, <2>2, <2>3, <2>4 DEF ReadInv
<1>3. CASE answers # <<>>
  <2>1. pc' = "drain" /\ buffer' = First(buffer \o Head(answers), size) /\ answers' = Tail(answers)
    BY <1>1, <1>3 DEF Drain, ReadFifoEmpty
  <2>2. /\ 1 \in 1..Len(answers) /\ Len(answers') = Len(answers) - 1 /\ Len(answers) \in Nat
        /\ \A i \in 1..Len(answers') : answers'[i] = answers[i + 1]
    BY <1>3, <2>1, DrainProps DEF TInv, DataOK
  <2>3. OnlyOwn => OnlyOwn'
    <3> HAVE OnlyOwn
    <3>1. \A i \in 1..Len(answers') : i + 1 \in 1..Len(answers)
      BY <2>2
    <3>2. \A i \in 1..Len(answers') : WordFrom(answers'[i], id)
      BY <2>2, <3>1 DEF OnlyOwn
    <3> QED BY <3>2, <1>1 DEF OnlyOwn
  <2>4. clean => /\ buffer' # <<>> => WordFrom(buffer', id)
                 /\ size > 0 => buffer' # <<>>
    <3> HAVE clean
    <3>1. (buffer # <<>> => WordFrom(buffer, id)) /\ WordFrom(answers[1], id)
      BY <1>1, <2>2 DEF ReadInv, OnlyOwn
    <3> QED BY <3>1, <1>3, <2>1, OwnBuffer
  <2> QED BY <1>1, <2>1, <2>3, <2>4 DEF ReadInv
<1> QED BY <1>2, <1>3

LEMMA DeliverReads ==
  ASSUME TInv, ReadInv, Deliver
  PROVE  ReadInv'
<1> DEFINE h == Head(commands)
<1>1. /\ commands # <<>> /\ commands' = Tail(commands)
      /\ asked' = IF h.dt = "read" THEN asked \o h.data ELSE asked
      /\ UNCHANGED <<pc, readVars, answers>>
  BY DEF Deliver
<1>2. /\ h \in Headers /\ h = commands[1] /\ 1 \in 1..Len(commands) /\ Len(commands) \in Nat
      /\ Len(commands') = Len(commands) - 1 /\ \A i \in 1..Len(commands') : commands'[i] = commands[i + 1]
  BY <1>1, DeliverProps DEF TInv, DataOK
<1> HIDE DEF h
<1>3. \A i \in 1..Len(commands') : i + 1 \in 1..Len(commands)
  BY <1>2
<1>4. Silent => Silent'
  BY <1>1, <1>2, <1>3 DEF Silent
<1>5. OnlyOwn => OnlyOwn'
  <2> HAVE OnlyOwn
  <2>1. \A i \in 1..Len(asked') : asked'[i] = id
    <3>1. CASE h.dt = "read"
      <4>1. h.data = <<id>> /\ asked \in Seq(Reads) /\ id \in Reads
        BY <3>1, <1>2 DEF OnlyOwn, TInv, TypeOK, DataOK
      <4>2. <<id>> \in Seq(Reads) /\ Len(<<id>>) = 1 /\ <<id>>[1] = id /\ Len(asked) \in Nat
        BY <4>1
      <4>3. /\ Len(asked') = Len(asked) + 1
            /\ \A i \in 1..Len(asked) + 1 : asked'[i] = IF i <= Len(asked) THEN asked[i] ELSE <<id>>[i - Len(asked)]
        BY <1>1, <3>1, <4>1, <4>2, ConcatProperties
      <4> TAKE i \in 1..Len(asked')
      <4>4. CASE i <= Len(asked)
        <5>1. i \in 1..Len(asked) /\ i \in 1..Len(asked) + 1
          BY <4>2, <4>3, <4>4
        <5> QED BY <5>1, <4>3, <4>4 DEF OnlyOwn
      <4>5. CASE ~(i <= Len(asked))
        <5>1. i - Len(asked) = 1 /\ i \in 1..Len(asked) + 1
          BY <4>2, <4>3, <4>5
        <5> QED BY <5>1, <4>2, <4>3, <4>5
      <4> QED BY <4>4, <4>5
    <3>2. CASE h.dt # "read"
      BY <3>2, <1>1 DEF OnlyOwn
    <3> QED BY <3>1, <3>2
  <2>2. \A i \in 1..Len(commands') : commands'[i].dt = "read" => commands'[i].data = <<id>>
    BY <1>2, <1>3 DEF OnlyOwn
  <2> QED BY <2>1, <2>2, <1>1 DEF OnlyOwn, readVars
<1>6. Told' = Told
  BY <1>1 DEF Told, readVars
<1> QED BY <1>1, <1>4, <1>5, <1>6 DEF ReadInv, readVars

LEMMA AnswerReads ==
  ASSUME TInv, ReadInv, NEW n \in AnswerSizes, Answer(n)
  PROVE  ReadInv'
<1>1. /\ asked # <<>> /\ asked' = Tail(asked) /\ answers' = answers \o AnswerWords(n)
      /\ UNCHANGED <<pc, readVars, commands>>
  BY AnswerTypes DEF Answer
<1> DEFINE words == AnswerWords(n)
<1>2. /\ Head(asked) = asked[1] /\ 1 \in 1..Len(asked) /\ Len(asked') = Len(asked) - 1 /\ Len(asked) \in Nat
      /\ \A i \in 1..Len(asked') : asked'[i] = asked[i + 1]
      /\ words \in Seq(Word) /\ Len(words) \in Nat \ {0}
      /\ \A k \in 1..Len(words) : WordFrom(words[k], Head(asked))
  BY <1>1, AnswerProps DEF TInv, DataOK
<1> HIDE DEF words
<1>3. ~Silent
  BY <1>1 DEF Silent
<1>4. answers \in Seq(Word) /\ Len(answers) \in Nat
  BY DEF TInv, DataOK
<1>5. /\ Len(answers') = Len(answers) + Len(words)
      /\ \A i \in 1..Len(answers) + Len(words) :
           answers'[i] = IF i <= Len(answers) THEN answers[i] ELSE words[i - Len(answers)]
  BY <1>1, <1>2, <1>4, ConcatProperties DEF words
<1>6. OnlyOwn => OnlyOwn'
  <2> HAVE OnlyOwn
  <2>1. Head(asked) = id
    BY <1>2 DEF OnlyOwn
  <2>2. \A i \in 1..Len(asked') : i + 1 \in 1..Len(asked)
    BY <1>2
  <2>3. \A i \in 1..Len(answers') : WordFrom(answers'[i], id)
    <3> TAKE i \in 1..Len(answers')
    <3>1. CASE i <= Len(answers)
      <4>1. i \in 1..Len(answers) /\ i \in 1..Len(answers) + Len(words)
        BY <3>1, <1>2, <1>4, <1>5
      <4> QED BY <4>1, <3>1, <1>5 DEF OnlyOwn
    <3>2. CASE ~(i <= Len(answers))
      <4>1. i - Len(answers) \in 1..Len(words) /\ i \in 1..Len(answers) + Len(words)
        BY <3>2, <1>2, <1>4, <1>5
      <4> QED BY <4>1, <3>2, <2>1, <1>2, <1>5
    <3> QED BY <3>1, <3>2
  <2>4. \A i \in 1..Len(asked') : asked'[i] = id
    BY <1>2, <2>2 DEF OnlyOwn
  <2> QED BY <2>3, <2>4, <1>1 DEF OnlyOwn, readVars
<1>7. Len(answers') > 0
  BY <1>2, <1>4, <1>5
<1>8. answers' # <<>>
  BY <1>7
<1>9. Told' = Told
  BY <1>1 DEF Told, readVars
<1> QED BY <1>1, <1>3, <1>6, <1>8, <1>9 DEF ReadInv, readVars

-----------------------------------------------------------------------------
(* The invariant *)

\* It holds at first, and every kind of step keeps it.
LEMMA InitIInv == ASSUME Init PROVE IInv
<1> USE DEF Init
<1>1. <<>> \in Seq(Nat) /\ <<>> \in Seq(Word) /\ <<>> \in Seq(Headers) /\ <<>> \in Seq(Reads)
      /\ <<>> \in Seq(Seq(Nat)) /\ Len(<<>>) = 0
  OBVIOUS
<1>2. PayloadWords \in Nat /\ CmdDepth \in Nat
  BY DsiAssumption
<1>3. TypeOK
  <2>1. DOMAIN payload = {} /\ Len(payload) = 0 /\ Len(commands) = 0 /\ Len(buffer) = 0
    BY <1>1
  <2>2. pc \in {"idle", "word", "header", "max", "ask", "busy", "data", "drain"}
    OBVIOUS
  <2>3. Len(payload) <= PayloadWords /\ Len(commands) <= CmdDepth /\ Len(buffer) <= size
    BY <2>1, <1>2
  <2>4. \A i \in DOMAIN payload : Len(payload[i]) = 4
    BY <2>1, Zenon
  <2>5. /\ s_gen_read_timed_out \in BOOLEAN /\ busy \in BOOLEAN
        /\ tainted \in BOOLEAN /\ clean \in BOOLEAN /\ garbled \in BOOLEAN
    BY Zenon
  <2> QED BY <2>2, <2>3, <2>4, <2>5, Zenon DEF TypeOK
<1>4. DataOK
  BY <1>1, NoHeaderType DEF DataOK
<1>5. PacketInv
  <2>1. PICK off : off = [j \in 1..1 |-> 0]
    OBVIOUS
  <2>2. off \in [1..Len(commands) + 1 -> 0..PayloadWords] /\ off[1] = 0 /\ 0 \in 0..PayloadWords
    BY <2>1, <1>1, <1>2
  <2>3. Len(commands) = 0 /\ Len(payload) = 0 /\ pc = "idle"
    BY <1>1
  <2>4. \A i, j \in 1..0 + 1 : i = 1 /\ j = 1
    OBVIOUS
  <2>5. \A i, j \in 1..0 + 1 : i <= j => off[i] <= off[j]
    BY <2>2, <2>4
  <2>6. Cut(off, 0)
    BY <2>2, <2>3, <2>5 DEF Cut
  <2>7. \E o \in [1..Len(commands) + 1 -> 0..PayloadWords], i \in 0..PayloadWords : Cut(o, i)
    BY <2>2, <2>6
  <2>8. ~Open /\ Len(expected) = 0
    BY <1>1 DEF Open
  <2> QED BY <2>3, <2>7, <2>8 DEF PacketInv
<1>6. ReadInv
  <2>1. Silent
    BY <1>1 DEF Silent
  <2>2. Told
    BY DEF Told
  <2> QED BY <2>1, <2>2 DEF ReadInv
<1> QED BY <1>3, <1>4, <1>5, <1>6 DEF IInv

LEMMA QuietIInv ==
  ASSUME TInv, PacketInv, UNCHANGED <<wordVars, payload, commands, expected, garbled>>,
         pc' = pc \/ (~Open /\ ~Open'), TInv', ReadInv'
  PROVE  IInv'
<1>1. PacketInv'
  BY QuietPackets
<1> QED BY <1>1 DEF IInv, TInv

LEMMA StartIInv == ASSUME IInv, Start PROVE IInv'
<1> USE DEF IInv
<1>0. TInv
  BY DEF TInv
<1>1. CASE \E n \in Sizes :
             WriteLong(Bytes(n)) \/ \E c \in CommandSizes : WriteDcs(Command(c), Bytes(n))
  <2>1. PICK bytes, first, last : NewPacket(bytes, first, last) /\ Begin(bytes, first, After(bytes, 4), last)
    BY <1>1, StartIsPacket
  <2>2. TInv'
    BY <1>0, <2>1, BeginTypes
  <2>3. PacketInv'
    BY <1>0, <2>1, BeginPackets
  <2>4. ReadInv'
    BY <2>1, BeginReads
  <2> QED BY <2>2, <2>3, <2>4 DEF TInv
<1>2. CASE \E n \in BufferSizes : BeginRead(n)
  <2>1. PICK n \in BufferSizes : BeginRead(n)
    BY <1>2
  <2>2. /\ UNCHANGED <<wordVars, payload, commands, expected, garbled>> /\ ~Open /\ ~Open'
    BY <2>1 DEF BeginRead, Open, panelVars
  <2>3. TInv' /\ ReadInv'
    BY <1>0, <2>1, BeginReadTypes, BeginReadReads
  <2> QED BY <1>0, <2>2, <2>3, QuietIInv
<1> QED BY <1>1, <1>2 DEF Start

LEMMA WaitIInv == ASSUME IInv, NotBusy \/ HasData PROVE IInv'
<1> USE DEF IInv
<1>0. TInv
  BY DEF TInv
<1>1. /\ pc \in {"busy", "data"} /\ pc' \in {"data", "drain"}
      /\ UNCHANGED <<wordVars, payload, commands, busy, expected, readVars, panelVars>>
  BY DEF NotBusy, HasData, Waited
<1>2. TypeOK'
  BY <1>1 DEF TypeOK, readVars, panelVars
<1>3. DataOK'
  BY <1>1 DEF DataOK, wordVars, readVars, panelVars
<1>4. UNCHANGED <<wordVars, payload, commands, expected, garbled>> /\ ~Open /\ ~Open'
  BY <1>1 DEF Open, panelVars
<1>5. ReadInv'
  BY NotBusyReads, HasDataReads
<1> QED BY <1>0, <1>2, <1>3, <1>4, <1>5, QuietIInv DEF TInv

LEMMA HostStepIInv == ASSUME IInv, HostStep PROVE IInv'
<1> USE DEF IInv
<1>0. TInv
  BY DEF TInv
<1>1. CASE PushWord
  BY <1>0, <1>1, PushWordTypes, PushWordPackets, PushWordReads DEF TInv
<1>2. CASE PushHeader("header", "idle", header) /\ UNCHANGED <<expected, busy>>
  BY <1>0, <1>2, CloseTypes, EndOfPacket, CloseReads DEF TInv
<1>3. CASE SetMaximum
  BY <1>0, <1>3, SetMaximumTypes, SetMaximumPackets, SetMaximumReads DEF TInv
<1>4. CASE Ask
  BY <1>0, <1>4, AskTypes, AskPackets, AskReads DEF TInv
<1>5. CASE NotBusy \/ HasData
  BY <1>5, WaitIInv
<1>6. CASE TimedOut
  <2>1. UNCHANGED <<wordVars, payload, commands, expected, garbled>> /\ ~Open /\ ~Open'
    BY <1>6 DEF TimedOut, Open, panelVars
  <2> QED BY <1>0, <1>6, <2>1, TimedOutTypes, TimedOutReads, QuietIInv
<1>7. CASE Drain
  <2>1. UNCHANGED <<wordVars, payload, commands, expected, garbled>> /\ ~Open /\ ~Open'
    BY <1>7 DEF Drain, Open
  <2> QED BY <1>0, <1>7, <2>1, DrainTypes, DrainReads, QuietIInv
<1> QED BY <1>1, <1>2, <1>3, <1>4, <1>5, <1>6, <1>7 DEF HostStep

LEMMA PanelIInv == ASSUME IInv, Deliver \/ \E n \in AnswerSizes : Answer(n) PROVE IInv'
<1> USE DEF IInv
<1>0. TInv
  BY DEF TInv
<1>1. CASE Deliver
  <2>1. PacketInv' /\ expected # <<>>
    BY <1>0, <1>1, DeliverPackets
  <2>2. TInv'
    BY <1>0, <1>1, <2>1, DeliverTypes
  <2>3. ReadInv'
    BY <1>0, <1>1, DeliverReads
  <2> QED BY <2>1, <2>2, <2>3 DEF TInv
<1>2. CASE \E n \in AnswerSizes : Answer(n)
  <2>1. PICK n \in AnswerSizes : Answer(n)
    BY <1>2
  <2>2. UNCHANGED <<wordVars, payload, commands, expected, garbled>> /\ pc' = pc
    BY <2>1 DEF Answer
  <2>3. TInv' /\ ReadInv'
    BY <1>0, <2>1, AnswerTypes, AnswerReads
  <2> QED BY <1>0, <2>2, <2>3, QuietIInv
<1> QED BY <1>1, <1>2

LEMMA StutterIInv == ASSUME IInv, UNCHANGED vars PROVE IInv'
<1> USE DEF IInv, vars, wordVars, readVars, panelVars
<1>1. TypeOK'
  BY DEF TypeOK
<1>2. DataOK'
  BY DEF DataOK
<1>3. ReadInv'
  BY DEF ReadInv, Told, Silent, OnlyOwn
<1> QED BY <1>1, <1>2, <1>3, QuietIInv DEF TInv

LEMMA SpecIInv == Spec => []IInv
<1>1. Init => IInv
  BY InitIInv
<1>2. IInv /\ [Next]_vars => IInv'
  BY StartIInv, HostStepIInv, PanelIInv, StutterIInv DEF Next
<1> QED BY <1>1, <1>2, PTL DEF Spec

\* The FIFOs keep their capacity, the words their size, the buffer its bound
\* (components/esp_hal_lcd/mipi_dsi_hal.c).
THEOREM DsiStateIsTyped == Spec => []TypeOK
<1>1. IInv => TypeOK
  BY DEF IInv
<1> QED BY <1>1, SpecIInv, PTL

\* Whatever the depth of the FIFOs, every packet comes to the panel as it was meant:
\* command and parameters, however many, merged and cut into words as the code does
\* (mipi_dsi_hal_host_gen_write_dcs_command, write_long_packet).
THEOREM PanelGetsEveryPacket == Spec => []PanelGetsPackets
<1>1. IInv => PanelGetsPackets
  BY DEF IInv, PacketInv, PanelGetsPackets
<1> QED BY <1>1, SpecIInv, PTL

\* A read that gave up returns zeros and says so; one that began when no late answer
\* could come and did not give up returns its own answer, whatever the sizes of the
\* buffer and of the answer (mipi_dsi_hal_host_gen_read_short_packet).
THEOREM ReadsTellTheTruth == Spec => []ReadTellsTruth
<1>1. IInv => ReadTellsTruth
  <2> SUFFICES ASSUME IInv, pc = "idle" PROVE Told
    BY DEF ReadTellsTruth, Told, WordFrom
  <2> QED BY DEF IInv, ReadInv
<1> QED BY <1>1, SpecIInv, PTL
=============================================================================
