-------------------------- MODULE Chunking_proofs --------------------------
(***************************************************************************)
(* The chunks of a document are the document, for every document and all   *)
(* options that are admitted (document_parser.py, Chunking).  v1 stage,    *)
(* v2 lines, v3 index, v4 path, v5 blocks, v6 options, v7 parents,         *)
(* v8 children.                                                            *)
(*                                                                         *)
(* Texts are sequences of numbers of lines, with 0 for the marks of        *)
(* rendering.  The proof goes up from them: what a text holds (Words) and  *)
(* that it rises; windows that slide over a text, as _split_by_tokens and  *)
(* split_text cut it; children that are sound (Sound) turn by turn through *)
(* _child_groups; groups that are whole through _split_parent_groups; what *)
(* a plan delivers; and, line by line, what the parser has put in the      *)
(* blocks and in the path.                                                 *)
(***************************************************************************)
EXTENDS Retrieval_proofs, Sequences, TLAPS, FiniteSetTheorems

-----------------------------------------------------------------------------
(* Sequences one after the other, as the community modules define them.    *)
Flattened(f, seqs, X) ==
  /\ f \in [0..Len(seqs) -> Seq(X)] /\ f[0] = <<>>
  /\ \A k \in 1..Len(seqs) : f[k] = f[k - 1] \o seqs[k]

LEMMA Joint ==
  ASSUME NEW X, NEW s \in Seq(X), NEW t \in Seq(X)
  PROVE  /\ s \o t \in Seq(X) /\ Len(s \o t) = Len(s) + Len(t)
         /\ \A i \in 1..Len(s) : (s \o t)[i] = s[i]
         /\ \A i \in 1..Len(t) : (s \o t)[Len(s) + i] = t[i]
  OBVIOUS

LEMMA NoneFirst ==
  ASSUME NEW X, NEW s \in Seq(X)
  PROVE  <<>> \o s = s
  OBVIOUS

LEMMA FlattenUnfolds ==
  ASSUME NEW X, NEW seqs \in Seq(Seq(X))
  PROVE  \E f : Flattened(f, seqs, X) /\ C!FlattenSeq(seqs) = f[Len(seqs)]
  <1> DEFINE n == Len(seqs)
             step == [k \in 1..n |-> [x \in Seq(X) |-> x \o seqs[k]]]
             Flat(f) == f = [i \in 1..n |-> IF i = 1 THEN seqs[i] ELSE f[i - 1] \o seqs[i]]
             flat == CHOOSE f : Flat(f)
  <1>1. n \in Nat /\ \A k \in 1..n : seqs[k] \in Seq(X)
    OBVIOUS
  <1>2. Moves(step, n, Seq(X))
    <2>1. ASSUME NEW k \in 1..n, NEW x \in Seq(X) PROVE step[k][x] \in Seq(X)
      BY <1>1, Joint
    <2> HIDE DEF step
    <2> QED
      BY <2>1 DEF Moves
  <1>3. PICK f : Runs(f, step, n, <<>>, Seq(X))
    <2>1. <<>> \in Seq(X)
      OBVIOUS
    <2> HIDE DEF step, n
    <2> QED
      BY <1>1, <1>2, <2>1, RecursionWorks
  <1>4. f \in [0..n -> Seq(X)] /\ f[0] = <<>> /\ \A k \in 1..n : f[k] = f[k - 1] \o seqs[k]
    <2>1. f \in [0..n -> Seq(X)] /\ f[0] = <<>> /\ \A k \in 1..n : f[k] = step[k][f[k - 1]]
      BY <1>3, Zenon DEF Runs
    <2>2. ASSUME NEW k \in 1..n PROVE f[k] = f[k - 1] \o seqs[k]
      <3>1. f[k - 1] \in Seq(X)
        <4>1. k - 1 \in 0..n
          BY <1>1
        <4> QED
          BY <2>1, <4>1
      <3>2. step[k][f[k - 1]] = f[k - 1] \o seqs[k]
        BY <3>1
      <3> QED
        BY <2>1, <3>2
    <2> QED
      BY <2>1, <2>2
  <1>5. Flattened(f, seqs, X)
    BY <1>4 DEF Flattened
  <1>6. CASE n = 0
    <2>1. seqs = <<>>
      BY <1>6
    <2>2. C!FlattenSeq(seqs) = seqs
      BY <1>6 DEF C!FlattenSeq
    <2> QED
      BY <1>4, <1>5, <1>6, <2>1, <2>2
  <1>7. CASE n # 0
    <2> DEFINE g == [i \in 1..n |-> f[i]]
    <2>1. /\ 1 \in 1..n /\ n \in 1..n /\ n \in Nat /\ f[0] = <<>>
          /\ \A k \in 1..n : seqs[k] \in Seq(X) /\ f[k] = f[k - 1] \o seqs[k]
      <3> HIDE DEF n
      <3>1. 1 \in 1..n /\ n \in 1..n /\ n \in Nat
        BY <1>1, <1>7
      <3>2. f[0] = <<>> /\ \A k \in 1..n : f[k] = f[k - 1] \o seqs[k]
        BY <1>4, Zenon
      <3>3. \A k \in 1..n : seqs[k] \in Seq(X)
        BY <1>1, Zenon
      <3> QED
        BY <3>1, <3>2, <3>3, Zenon
    <2>2. f[1] = seqs[1]
      <3>1. f[1] = f[1 - 1] \o seqs[1] /\ seqs[1] \in Seq(X)
        BY <2>1, Zenon
      <3>2. 1 - 1 = 0
        OBVIOUS
      <3>3. f[1] = <<>> \o seqs[1]
        BY <2>1, <3>1, <3>2, Zenon
      <3> QED
        BY <3>1, <3>3, NoneFirst, Zenon
    <2>3. \A k \in 1..n : k # 1 => k - 1 \in 1..n
      <3> HIDE DEF n
      <3> QED
        BY <2>1
    <2> HIDE DEF n
    <2>4. Flat(g)
      <3>1. ASSUME NEW i \in 1..n
            PROVE  g[i] = IF i = 1 THEN seqs[i] ELSE g[i - 1] \o seqs[i]
        <4>1. CASE i = 1
          BY <2>1, <2>2, <4>1
        <4>2. CASE i # 1
          <5>1. g[i - 1] = f[i - 1] /\ g[i] = f[i]
            BY <2>3, <4>2
          <5>2. f[i] = f[i - 1] \o seqs[i]
            BY <2>1, Zenon
          <5>3. g[i] = g[i - 1] \o seqs[i]
            BY <5>1, <5>2, Zenon
          <5> HIDE DEF g
          <5> QED
            BY <4>2, <5>3
        <4> QED
          BY <4>1, <4>2
      <3>2. g = [i \in 1..n |-> g[i]]
        OBVIOUS
      <3> HIDE DEF g
      <3>3. [i \in 1..n |-> g[i]] = [i \in 1..n |-> IF i = 1 THEN seqs[i] ELSE g[i - 1] \o seqs[i]]
        BY <3>1
      <3> QED
        BY <3>2, <3>3
    <2>5. Flat(flat)
      <3> HIDE DEF Flat
      <3> QED
        BY <2>4, Zenon
    <2>6. C!FlattenSeq(seqs) = flat[n]
      BY <1>7 DEF C!FlattenSeq, n
    <2> HIDE DEF flat
    <2>7. ASSUME NEW i \in 1..n PROVE flat[i] = IF i = 1 THEN seqs[i] ELSE flat[i - 1] \o seqs[i]
      BY <2>5
    <2> DEFINE T == {k \in 0..n : k = 0 \/ flat[k] = f[k]}
    <2>8. ASSUME NEW k \in 1..n, k - 1 \in T PROVE k \in T
      <3>0. k \in 0..n /\ (k # 1 => k - 1 # 0)
        BY <2>1
      <3>1. CASE k = 1
        <4>1. flat[1] = seqs[1]
          BY <2>1, <2>7
        <4> QED
          BY <2>2, <3>0, <3>1, <4>1
      <3>2. CASE k # 1
        <4>1. flat[k] = flat[k - 1] \o seqs[k]
          BY <2>7, <3>2
        <4>2. f[k] = f[k - 1] \o seqs[k]
          BY <2>1, Zenon
        <4>3. flat[k - 1] = f[k - 1]
          BY <2>8, <3>0, <3>2
        <4>4. flat[k] = f[k]
          BY <4>1, <4>2, <4>3, Zenon
        <4> QED
          BY <3>0, <4>4
      <3> QED
        BY <3>1, <3>2
    <2>9. \A k \in 0..n : k \in T
      <3>1. 0 \in T
        BY <2>1
      <3> HIDE DEF T
      <3> QED
        BY <2>1, <2>8, <3>1, UpTo
    <2>10. flat[n] = f[n]
      <3>1. n \in 0..n /\ n # 0
        BY <1>7, <2>1
      <3> QED
        BY <2>9, <3>1
    <2> QED
      BY <1>5, <2>6, <2>10 DEF n
  <1> QED
    BY <1>6, <1>7

(* What is already in a row stays as it is when something follows.         *)
LEMMA FlattenGrows ==
  ASSUME NEW X, NEW seqs \in Seq(Seq(X)), NEW s \in Seq(X)
  PROVE  /\ C!FlattenSeq(seqs) \in Seq(X)
         /\ C!FlattenSeq(Append(seqs, s)) = C!FlattenSeq(seqs) \o s
  <1> DEFINE n == Len(seqs)
             more == Append(seqs, s)
  <1>1. PICK f : Flattened(f, seqs, X) /\ C!FlattenSeq(seqs) = f[n]
    BY FlattenUnfolds
  <1>2. /\ more \in Seq(Seq(X)) /\ Len(more) = n + 1 /\ n \in Nat /\ more[n + 1] = s
        /\ \A k \in 1..n : more[k] = seqs[k]
    OBVIOUS
  <1>3. PICK g : Flattened(g, more, X) /\ C!FlattenSeq(more) = g[n + 1]
    <2> HIDE DEF more, n
    <2> QED
      BY <1>2, FlattenUnfolds
  <1> HIDE DEF more, n
  <1>4. f \in [0..n -> Seq(X)] /\ f[0] = <<>> /\ \A k \in 1..n : f[k] = f[k - 1] \o seqs[k]
    BY <1>1, Zenon DEF Flattened, n
  <1>5. g[0] = <<>> /\ \A k \in 1..(n + 1) : g[k] = g[k - 1] \o more[k]
    BY <1>2, <1>3, Zenon DEF Flattened
  <1> DEFINE T == {k \in 0..n : g[k] = f[k]}
  <1>6. ASSUME NEW k \in 1..n, k - 1 \in T PROVE k \in T
    <2>1. k \in 1..(n + 1) /\ k \in 0..n
      BY <1>2
    <2>2. g[k] = g[k - 1] \o seqs[k]
      BY <1>2, <1>5, <2>1
    <2>3. g[k - 1] = f[k - 1] /\ f[k] = f[k - 1] \o seqs[k]
      BY <1>4, <1>6
    <2> QED
      BY <2>1, <2>2, <2>3
  <1>7. \A k \in 0..n : k \in T
    <2>1. 0 \in T
      <3>1. 0 \in 0..n /\ g[0] = f[0]
        BY <1>2, <1>4, <1>5
      <3> QED
        BY <3>1
    <2> HIDE DEF T
    <2> QED
      BY <1>2, <1>6, <2>1, UpTo
  <1>8. n \in 0..n /\ n + 1 \in 1..(n + 1) /\ (n + 1) - 1 = n
    BY <1>2
  <1>9. g[n + 1] = f[n] \o s
    BY <1>2, <1>5, <1>7, <1>8
  <1>10. f[n] \in Seq(X)
    BY <1>4, <1>8
  <1> QED
    BY <1>1, <1>3, <1>9, <1>10 DEF more

LEMMA FlattenNone ==
  C!FlattenSeq(<<>>) = <<>>
  BY DEF C!FlattenSeq

-----------------------------------------------------------------------------
(* The lines a text holds; those of a rising text follow each other, with  *)
(* marks anywhere between them.                                            *)
Words(t) == {t[i] : i \in 1..Len(t)} \ {0}

Rising(t) == \A i, j \in 1..Len(t) : i < j /\ t[j] # 0 => t[i] <= t[j]

Before(T, U) == \A x \in T, y \in U : x < y

(* What two texts hold together.                                           *)
LEMMA JointWords ==
  ASSUME NEW s \in Seq(Nat), NEW t \in Seq(Nat)
  PROVE  Words(s \o t) = Words(s) \cup Words(t)
  <1> DEFINE u == s \o t
  <1>1. /\ u \in Seq(Nat) /\ Len(u) = Len(s) + Len(t)
        /\ \A i \in 1..Len(s) : u[i] = s[i]
        /\ \A i \in 1..Len(t) : u[Len(s) + i] = t[i]
    BY Joint
  <1>2. Len(s) \in Nat /\ Len(t) \in Nat
    OBVIOUS
  <1> HIDE DEF u
  <1>3. ASSUME NEW x \in Words(u) PROVE x \in Words(s) \cup Words(t)
    <2>1. PICK i \in 1..Len(u) : x = u[i] /\ x # 0
      BY <1>3 DEF Words
    <2>2. CASE i <= Len(s)
      <3>1. i \in 1..Len(s)
        BY <1>1, <1>2, <2>2
      <3>2. x = s[i]
        BY <1>1, <2>1, <3>1
      <3> QED
        BY <2>1, <3>1, <3>2 DEF Words
    <2>3. CASE ~(i <= Len(s))
      <3>1. i - Len(s) \in 1..Len(t) /\ Len(s) + (i - Len(s)) = i
        BY <1>1, <1>2, <2>3
      <3>2. x = t[i - Len(s)]
        BY <1>1, <2>1, <3>1
      <3> QED
        BY <2>1, <3>1, <3>2 DEF Words
    <2> QED
      BY <2>2, <2>3
  <1>4. ASSUME NEW x \in Words(s) PROVE x \in Words(u)
    <2>1. PICK i \in 1..Len(s) : x = s[i] /\ x # 0
      BY <1>4 DEF Words
    <2>2. i \in 1..Len(u) /\ u[i] = x
      BY <1>1, <1>2, <2>1
    <2> QED
      BY <2>1, <2>2 DEF Words
  <1>5. ASSUME NEW x \in Words(t) PROVE x \in Words(u)
    <2>1. PICK i \in 1..Len(t) : x = t[i] /\ x # 0
      BY <1>5 DEF Words
    <2>2. Len(s) + i \in 1..Len(u) /\ u[Len(s) + i] = x
      BY <1>1, <1>2, <2>1
    <2> QED
      BY <2>1, <2>2 DEF Words
  <1>6. Words(u) = Words(s) \cup Words(t)
    BY <1>3, <1>4, <1>5
  <1> QED
    BY <1>6 DEF u

(* Two rising texts rise together if the first holds earlier lines.        *)
LEMMA JointRises ==
  ASSUME NEW s \in Seq(Nat), NEW t \in Seq(Nat), Rising(s), Rising(t),
         \A x \in Words(s), y \in Words(t) : x <= y
  PROVE  Rising(s \o t)
  <1> DEFINE u == s \o t
             m == Len(s)
             n == Len(t)
  <1>1. /\ u \in Seq(Nat) /\ Len(u) = m + n
        /\ \A i \in 1..m : u[i] = s[i]
        /\ \A i \in 1..n : u[m + i] = t[i]
    BY Joint
  <1>2. m \in Nat /\ n \in Nat /\ (\A i \in 1..m : s[i] \in Nat) /\ \A i \in 1..n : t[i] \in Nat
    OBVIOUS
  <1>3. /\ \A i, j \in 1..m : i < j /\ s[j] # 0 => s[i] <= s[j]
        /\ \A i, j \in 1..n : i < j /\ t[j] # 0 => t[i] <= t[j]
    BY DEF Rising
  <1>4. \A i \in 1..m, j \in 1..n : s[i] # 0 /\ t[j] # 0 => s[i] <= t[j]
    BY DEF Words
  <1> HIDE DEF u, m, n
  <1>5. ASSUME NEW i \in 1..Len(u), NEW j \in 1..Len(u), i < j, u[j] # 0 PROVE u[i] <= u[j]
    <2>1. CASE j <= m
      <3>1. i \in 1..m /\ j \in 1..m
        BY <1>1, <1>2, <1>5, <2>1
      <3> QED
        BY <1>1, <1>3, <1>5, <3>1
    <2>2. CASE i > m
      <3>1. i - m \in 1..n /\ j - m \in 1..n /\ m + (i - m) = i /\ m + (j - m) = j /\ i - m < j - m
        BY <1>1, <1>2, <1>5, <2>2
      <3>2. u[i] = t[i - m] /\ u[j] = t[j - m]
        BY <1>1, <3>1
      <3> QED
        BY <1>3, <1>5, <3>1, <3>2
    <2>3. CASE i <= m /\ ~(j <= m)
      <3>1. i \in 1..m /\ j - m \in 1..n /\ m + (j - m) = j
        BY <1>1, <1>2, <1>5, <2>3
      <3>2. u[i] = s[i] /\ u[j] = t[j - m] /\ s[i] \in Nat /\ t[j - m] \in Nat
        BY <1>1, <1>2, <3>1
      <3>3. s[i] # 0 => s[i] <= t[j - m]
        BY <1>4, <1>5, <3>1, <3>2
      <3> QED
        BY <3>2, <3>3
    <2> QED
      BY <1>1, <1>2, <1>5, <2>1, <2>2, <2>3
  <1>6. Rising(u)
    BY <1>5 DEF Rising
  <1> QED
    BY <1>6 DEF u

-----------------------------------------------------------------------------
(* Blocks, as the parser makes them.                                       *)
BlockType == [type : C!Types, tokens : Seq(Nat), path : Seq(Nat)]

LEMMA MarkIsNoWord ==
  <<0>> \in Seq(Nat) /\ Len(<<0>>) = 1 /\ Words(<<0>>) = {} /\ Rising(<<0>>)
  BY DEF Words, Rising

LEMMA NoText ==
  <<>> \in Seq(Nat) /\ Len(<<>>) = 0 /\ Words(<<>>) = {} /\ Rising(<<>>)
  BY DEF Words, Rising

(* A mark before or after a text adds to its length and to nothing it      *)
(* holds.                                                                  *)
LEMMA MarkMakesRoom ==
  ASSUME NEW s \in Seq(Nat)
  PROVE  /\ <<0>> \o s \in Seq(Nat) /\ Len(<<0>> \o s) = 1 + Len(s)
         /\ Words(<<0>> \o s) = {} \cup Words(s)
         /\ s \o <<0>> \in Seq(Nat) /\ Len(s \o <<0>>) = Len(s) + 1
         /\ Words(s \o <<0>>) = Words(s) \cup {}
  <1>1. PICK m : m = <<0>>
    OBVIOUS
  <1>2. m \in Seq(Nat) /\ Len(m) = 1 /\ Words(m) = {}
    BY <1>1, MarkIsNoWord
  <1>3. m \o s \in Seq(Nat) /\ Len(m \o s) = 1 + Len(s)
    <2>1. m \o s \in Seq(Nat) /\ Len(m \o s) = Len(m) + Len(s)
      BY <1>2, Joint, Zenon
    <2> QED
      BY <1>2, <2>1
  <1>4. s \o m \in Seq(Nat) /\ Len(s \o m) = Len(s) + 1
    <2>1. s \o m \in Seq(Nat) /\ Len(s \o m) = Len(s) + Len(m)
      BY <1>2, Joint, Zenon
    <2> QED
      BY <1>2, <2>1
  <1>5. Words(m \o s) = {} \cup Words(s) /\ Words(s \o m) = Words(s) \cup {}
    BY <1>2, JointWords
  <1> QED
    BY <1>1, <1>3, <1>4, <1>5

(* Rendering adds marks only.                                              *)
LEMMA RenderAddsMarks ==
  ASSUME NEW b \in BlockType
  PROVE  /\ C!Render(b) \in Seq(Nat) /\ Words(C!Render(b)) = Words(b.tokens)
         /\ Len(C!Render(b)) \in Len(b.tokens)..(Len(b.tokens) + 2)
         /\ Rising(b.tokens) => Rising(C!Render(b))
  <1> DEFINE s == b.tokens
             r == C!Render(b)
             h == <<0>> \o s
             w == h \o <<0>>
  <1>1. s \in Seq(Nat) /\ Len(s) \in Nat
    BY DEF BlockType
  <1>2. r = IF b.type = "HEADING" THEN h ELSE IF b.type = "CODE" THEN w ELSE s
    BY DEF C!Render, C!Mark
  <1> HIDE DEF s, r
  <1>3. h \in Seq(Nat) /\ Len(h) = 1 + Len(s) /\ Words(h) = {} \cup Words(s)
    BY <1>1, MarkMakesRoom
  <1>4. Rising(s) => Rising(h)
    <2>1. \A x \in Words(<<0>>), y \in Words(s) : x <= y
      BY MarkIsNoWord
    <2> QED
      BY <1>1, <2>1, MarkIsNoWord, JointRises
  <1> HIDE DEF h
  <1>5. w \in Seq(Nat) /\ Len(w) = Len(h) + 1 /\ Words(w) = Words(h) \cup {}
    BY <1>3, MarkMakesRoom
  <1>6. Rising(h) => Rising(w)
    <2>1. \A x \in Words(h), y \in Words(<<0>>) : x <= y
      BY MarkIsNoWord
    <2> QED
      BY <1>3, <2>1, MarkIsNoWord, JointRises
  <1> HIDE DEF w
  <1>7. r \in Seq(Nat) /\ Words(r) = Words(s) /\ (Rising(s) => Rising(r))
    BY <1>1, <1>2, <1>3, <1>4, <1>5, <1>6
  <1>8. Len(r) \in Len(s)..(Len(s) + 2)
    <2>1. Len(r) = Len(s) \/ Len(r) = Len(s) + 1 \/ Len(r) = Len(s) + 2
      <3>1. CASE b.type = "HEADING"
        BY <1>1, <1>2, <1>3, <3>1
      <3>2. CASE b.type # "HEADING" /\ b.type = "CODE"
        BY <1>1, <1>2, <1>3, <1>5, <3>2
      <3>3. CASE b.type # "HEADING" /\ b.type # "CODE"
        BY <1>2, <3>3
      <3> QED
        BY <3>1, <3>2, <3>3
    <2> QED
      BY <1>1, <2>1
  <1> QED
    BY <1>7, <1>8 DEF r, s

-----------------------------------------------------------------------------
(* Blocks in the order of the document.                                    *)
InSequence(bs) ==
  /\ \A k \in 1..Len(bs) : Rising(bs[k].tokens)
  /\ \A j, k \in 1..Len(bs) : j < k => Before(Words(bs[j].tokens), Words(bs[k].tokens))

(* The text of blocks, one block after the other.                          *)
LEMMA TextIsJoined ==
  ASSUME NEW bs \in Seq(BlockType)
  PROVE  \E f : /\ f \in [0..Len(bs) -> Seq(Nat)] /\ f[0] = <<>>
                /\ \A k \in 1..Len(bs) : f[k] = f[k - 1] \o C!Render(bs[k])
                /\ C!Text(bs) = f[Len(bs)]
  <1> DEFINE n == Len(bs)
             seqs == [k \in 1..n |-> C!Render(bs[k])]
  <1>1. n \in Nat /\ DOMAIN bs = 1..n /\ \A k \in 1..n : bs[k] \in BlockType
    OBVIOUS
  <1>2. \A k \in 1..n : C!Render(bs[k]) \in Seq(Nat)
    BY <1>1, RenderAddsMarks
  <1>3. C!Text(bs) = C!FlattenSeq(seqs)
    BY <1>1 DEF C!Text
  <1> HIDE DEF n
  <1>4. seqs \in Seq(Seq(Nat)) /\ Len(seqs) = n /\ \A k \in 1..n : seqs[k] = C!Render(bs[k])
    BY <1>1, <1>2
  <1> HIDE DEF seqs
  <1>5. PICK f : Flattened(f, seqs, Nat) /\ C!FlattenSeq(seqs) = f[n]
    BY <1>4, FlattenUnfolds
  <1>6. /\ f \in [0..n -> Seq(Nat)] /\ f[0] = <<>>
        /\ \A k \in 1..n : f[k] = f[k - 1] \o seqs[k]
    BY <1>4, <1>5, Zenon DEF Flattened
  <1>7. \A k \in 1..n : f[k] = f[k - 1] \o C!Render(bs[k])
    BY <1>4, <1>6, Zenon
  <1> QED
    BY <1>3, <1>5, <1>6, <1>7, Zenon DEF n

LEMMA TextGrows ==
  ASSUME NEW bs \in Seq(BlockType), NEW b \in BlockType
  PROVE  C!Text(bs) \in Seq(Nat) /\ C!Text(Append(bs, b)) = C!Text(bs) \o C!Render(b)
  <1> DEFINE n == Len(bs)
             seqs == [k \in 1..n |-> C!Render(bs[k])]
             cs == Append(bs, b)
             more == [k \in 1..(n + 1) |-> C!Render(cs[k])]
  <1>1. n \in Nat /\ DOMAIN bs = 1..n /\ \A k \in 1..n : bs[k] \in BlockType
    OBVIOUS
  <1>2. /\ DOMAIN cs = 1..(n + 1) /\ cs[n + 1] = b /\ \A k \in 1..n : cs[k] = bs[k]
    OBVIOUS
  <1>3. \A k \in 1..n : C!Render(bs[k]) \in Seq(Nat)
    BY <1>1, RenderAddsMarks
  <1>4. C!Render(b) \in Seq(Nat)
    BY RenderAddsMarks
  <1>5. C!Text(bs) = C!FlattenSeq(seqs)
    BY <1>1 DEF C!Text
  <1>6. C!Text(cs) = C!FlattenSeq(more)
    BY <1>2 DEF C!Text
  <1> HIDE DEF n, cs
  <1>7. seqs \in Seq(Seq(Nat)) /\ Len(seqs) = n /\ \A k \in 1..n : seqs[k] = C!Render(bs[k])
    BY <1>1, <1>3
  <1>8. more = Append(seqs, C!Render(b))
    <2>1. /\ Append(seqs, C!Render(b)) \in Seq(Seq(Nat))
          /\ Len(Append(seqs, C!Render(b))) = n + 1
          /\ Append(seqs, C!Render(b))[n + 1] = C!Render(b)
          /\ \A k \in 1..n : Append(seqs, C!Render(b))[k] = seqs[k]
      <3> HIDE DEF seqs
      <3> QED
        BY <1>1, <1>4, <1>7
    <2>2. more \in Seq(Seq(Nat)) /\ Len(more) = n + 1 /\ more[n + 1] = C!Render(b)
          /\ \A k \in 1..n : more[k] = C!Render(bs[k])
      BY <1>1, <1>2, <1>3, <1>4
    <2> HIDE DEF seqs, more
    <2>3. \A k \in 1..(n + 1) : more[k] = Append(seqs, C!Render(b))[k]
      <3>1. \A k \in 1..(n + 1) : k \in 1..n \/ k = n + 1
        BY <1>1
      <3> QED
        BY <1>7, <2>1, <2>2, <3>1
    <2> QED
      BY <2>1, <2>2, <2>3
  <1> HIDE DEF seqs, more
  <1>9. /\ C!FlattenSeq(seqs) \in Seq(Nat)
        /\ C!FlattenSeq(Append(seqs, C!Render(b))) = C!FlattenSeq(seqs) \o C!Render(b)
    BY <1>4, <1>7, FlattenGrows
  <1> QED
    BY <1>5, <1>6, <1>8, <1>9, Zenon DEF cs

LEMMA EmptyText ==
  C!Text(<<>>) = <<>>
  <1>1. [k \in DOMAIN <<>> |-> C!Render(<<>>[k])] = <<>>
    OBVIOUS
  <1> QED
    BY <1>1, FlattenNone DEF C!Text

(* The text of blocks in order is rising, and holds what they hold.        *)
LEMMA TextHolds ==
  ASSUME NEW bs \in Seq(BlockType)
  PROVE  /\ C!Text(bs) \in Seq(Nat)
         /\ \A x : x \in Words(C!Text(bs)) <=> \E k \in 1..Len(bs) : x \in Words(bs[k].tokens)
         /\ InSequence(bs) => Rising(C!Text(bs))
  <1> DEFINE n == Len(bs)
             Told(x, k) == \E j \in 1..k : x \in Words(bs[j].tokens)
  <1>1. n \in Nat /\ \A k \in 1..n : bs[k] \in BlockType
    OBVIOUS
  <1>2. PICK f : /\ f \in [0..n -> Seq(Nat)] /\ f[0] = <<>>
                 /\ \A k \in 1..n : f[k] = f[k - 1] \o C!Render(bs[k])
                 /\ C!Text(bs) = f[n]
    BY TextIsJoined
  <1>3. InSequence(bs) =>
          /\ \A k \in 1..n : Rising(bs[k].tokens)
          /\ \A j, k \in 1..n : j < k => Before(Words(bs[j].tokens), Words(bs[k].tokens))
    BY DEF InSequence
  <1> HIDE DEF n
  <1> DEFINE T == {k \in 0..n : /\ \A x : x \in Words(f[k]) <=> Told(x, k)
                                /\ InSequence(bs) => Rising(f[k])}
  <1>4. 0 \in T
    <2>1. \A x : ~Told(x, 0)
      OBVIOUS
    <2>2. Words(f[0]) = {} /\ Rising(f[0])
      BY <1>2, NoText
    <2> QED
      BY <1>1, <2>1, <2>2
  <1>5. ASSUME NEW k \in 1..n, k - 1 \in T PROVE k \in T
    <2>1. k \in 0..n /\ k - 1 \in 0..n
      BY <1>1
    <2> DEFINE s == f[k - 1]
               t == C!Render(bs[k])
    <2>2. s \in Seq(Nat) /\ f[k] = s \o t
      BY <1>2, <2>1
    <2>3. /\ t \in Seq(Nat) /\ Words(t) = Words(bs[k].tokens)
          /\ Rising(bs[k].tokens) => Rising(t)
      BY <1>1, RenderAddsMarks
    <2>4. (\A x : x \in Words(s) <=> Told(x, k - 1)) /\ (InSequence(bs) => Rising(s))
      BY <1>5
    <2> HIDE DEF s, t, T
    <2>5. Words(f[k]) = Words(s) \cup Words(bs[k].tokens)
      BY <2>2, <2>3, JointWords
    <2>6. \A x : Told(x, k) <=> Told(x, k - 1) \/ x \in Words(bs[k].tokens)
      <3>1. \A j : j \in 1..k <=> (j \in 1..(k - 1) \/ j = k)
        BY <1>1
      <3> QED
        BY <3>1
    <2>7. \A x : x \in Words(f[k]) <=> Told(x, k)
      BY <2>4, <2>5, <2>6
    <2>8. ASSUME InSequence(bs) PROVE Rising(f[k])
      <3>1. \A x \in Words(s), y \in Words(t) : x <= y
        <4>1. ASSUME NEW x \in Words(s), NEW y \in Words(t) PROVE x <= y
          <5>1. PICK j \in 1..(k - 1) : x \in Words(bs[j].tokens)
            BY <2>4
          <5>2. j \in 1..n /\ j < k
            BY <1>1, <5>1
          <5>3. Before(Words(bs[j].tokens), Words(bs[k].tokens))
            BY <1>3, <2>8, <5>2
          <5>4. x < y
            BY <2>3, <5>1, <5>3 DEF Before
          <5>5. x \in Int /\ y \in Int
            BY <2>2, <2>3 DEF Words
          <5> QED
            BY <5>4, <5>5
        <4> QED
          BY <4>1
      <3>2. Rising(s) /\ Rising(t)
        BY <1>3, <2>3, <2>4, <2>8
      <3> QED
        BY <2>2, <2>3, <3>1, <3>2, JointRises
    <2> QED
      BY <2>1, <2>7, <2>8 DEF T
  <1>6. n \in T
    <2> HIDE DEF T
    <2>1. \A k \in 0..n : k \in T
      BY <1>1, <1>4, <1>5, UpTo
    <2> QED
      BY <1>1, <2>1
  <1>7. n \in 0..n /\ f[n] \in Seq(Nat)
    BY <1>1, <1>2
  <1>8. \A x : Told(x, n) <=> \E k \in 1..Len(bs) : x \in Words(bs[k].tokens)
    BY DEF n
  <1> QED
    BY <1>2, <1>6, <1>7, <1>8

-----------------------------------------------------------------------------
(* A text that holds something reaches as far as the one before it.        *)
GoesBefore(t, u) == Words(u) # {} => \A x \in Words(t) : \E y \in Words(u) : x <= y

Climbs(texts) == \A m, n \in 1..Len(texts) : m < n => GoesBefore(texts[m], texts[n])

(* Parts of a text: their length and elements, what they hold, and that    *)
(* they rise.                                                              *)
LEMMA Cut ==
  ASSUME NEW t \in Seq(Nat), NEW a \in Nat \ {0}, NEW b \in 0..Len(t)
  PROVE  /\ SubSeq(t, a, b) \in Seq(Nat)
         /\ Len(SubSeq(t, a, b)) = IF a <= b THEN b - a + 1 ELSE 0
         /\ \A i \in 1..Len(SubSeq(t, a, b)) : SubSeq(t, a, b)[i] = t[a + i - 1]
  <1>1. SubSeq(t, a, b) \in Seq(Nat)
    OBVIOUS
  <1>2. Len(SubSeq(t, a, b)) = IF a <= b THEN b - a + 1 ELSE 0
    OBVIOUS
  <1>3. \A i \in 1..Len(SubSeq(t, a, b)) : SubSeq(t, a, b)[i] = t[a + i - 1]
    OBVIOUS
  <1> QED
    BY <1>1, <1>2, <1>3

LEMMA CutWords ==
  ASSUME NEW t \in Seq(Nat), NEW a \in Nat \ {0}, NEW b \in 0..Len(t)
  PROVE  \A x : x \in Words(SubSeq(t, a, b)) <=> x # 0 /\ \E p \in a..b : x = t[p]
  <1> DEFINE u == SubSeq(t, a, b)
  <1>1. /\ u \in Seq(Nat) /\ Len(u) = IF a <= b THEN b - a + 1 ELSE 0
        /\ \A i \in 1..Len(u) : u[i] = t[a + i - 1]
    BY Cut
  <1>2. Len(t) \in Nat /\ a \in Int /\ b \in Int /\ a >= 1
    OBVIOUS
  <1> HIDE DEF u
  <1>3. ASSUME NEW x \in Words(u) PROVE x # 0 /\ \E p \in a..b : x = t[p]
    <2>1. PICK i \in 1..Len(u) : x = u[i] /\ x # 0
      BY <1>3 DEF Words
    <2>2. a + i - 1 \in a..b /\ x = t[a + i - 1]
      BY <1>1, <1>2, <2>1
    <2> QED
      BY <2>1, <2>2
  <1>4. ASSUME NEW x, x # 0, NEW p \in a..b, x = t[p] PROVE x \in Words(u)
    <2>1. p - a + 1 \in 1..Len(u) /\ a + (p - a + 1) - 1 = p
      BY <1>1, <1>2
    <2>2. u[p - a + 1] = x
      BY <1>1, <1>4, <2>1
    <2> QED
      BY <1>4, <2>1, <2>2 DEF Words
  <1> QED
    BY <1>3, <1>4 DEF u

LEMMA CutRises ==
  ASSUME NEW t \in Seq(Nat), Rising(t), NEW a \in Nat \ {0}, NEW b \in 0..Len(t)
  PROVE  Rising(SubSeq(t, a, b))
  <1> DEFINE u == SubSeq(t, a, b)
  <1>1. /\ u \in Seq(Nat) /\ Len(u) = IF a <= b THEN b - a + 1 ELSE 0
        /\ \A i \in 1..Len(u) : u[i] = t[a + i - 1]
    BY Cut
  <1>2. Len(t) \in Nat /\ a \in Int /\ b \in Int /\ a >= 1 /\ b <= Len(t)
    OBVIOUS
  <1>3. \A i, j \in 1..Len(t) : i < j /\ t[j] # 0 => t[i] <= t[j]
    BY DEF Rising
  <1> HIDE DEF u
  <1>4. ASSUME NEW i \in 1..Len(u), NEW j \in 1..Len(u), i < j, u[j] # 0 PROVE u[i] <= u[j]
    <2>1. a + i - 1 \in 1..Len(t) /\ a + j - 1 \in 1..Len(t) /\ a + i - 1 < a + j - 1
      <3>1. ASSUME NEW k \in 1..Len(u) PROVE a + k - 1 \in 1..Len(t)
        <4>1. a <= b /\ Len(u) = b - a + 1 /\ k \in 1..(b - a + 1)
          BY <1>1, <1>2, <3>1
        <4> QED
          BY <1>2, <4>1
      <3> QED
        BY <1>2, <1>4, <3>1
    <2>2. u[i] = t[a + i - 1] /\ u[j] = t[a + j - 1]
      BY <1>1
    <2> QED
      BY <1>3, <1>4, <2>1, <2>2
  <1>5. Rising(u)
    BY <1>4 DEF Rising
  <1> QED
    BY <1>5 DEF u

(* Of two windows on a rising text the one that begins and ends later.     *)
LEMMA LaterWindowLeads ==
  ASSUME NEW t \in Seq(Nat), Rising(t),
         NEW a \in Nat \ {0}, NEW b \in 0..Len(t), NEW a2 \in Nat \ {0}, NEW b2 \in 0..Len(t),
         a <= a2, b <= b2
  PROVE  GoesBefore(SubSeq(t, a, b), SubSeq(t, a2, b2))
  <1>1. SUFFICES ASSUME Words(SubSeq(t, a2, b2)) # {}, NEW x \in Words(SubSeq(t, a, b))
                 PROVE  \E y \in Words(SubSeq(t, a2, b2)) : x <= y
    BY DEF GoesBefore
  <1>2. PICK p \in a..b : x = t[p] /\ x # 0
    BY <1>1, CutWords
  <1>3. PICK z \in Words(SubSeq(t, a2, b2)) : TRUE
    BY <1>1
  <1>4. PICK q \in a2..b2 : z = t[q] /\ z # 0
    BY <1>3, CutWords
  <1>5. Len(t) \in Nat /\ (\A i \in 1..Len(t) : t[i] \in Nat) /\ p \in 1..Len(t) /\ q \in 1..Len(t)
    <2>1. a..b \subseteq 1..Len(t) /\ a2..b2 \subseteq 1..Len(t)
      OBVIOUS
    <2>2. p \in 1..Len(t) /\ q \in 1..Len(t)
      BY <1>2, <1>4, <2>1
    <2> QED
      BY <2>2
  <1>6. CASE p >= a2
    <2>1. p \in a2..b2
      BY <1>2, <1>6
    <2>2. x \in Words(SubSeq(t, a2, b2))
      BY <1>2, <2>1, CutWords
    <2>3. x \in Nat
      BY <1>2, <1>5, Zenon
    <2> QED
      BY <2>2, <2>3
  <1>7. CASE p < a2
    <2>1. p < q
      BY <1>2, <1>4, <1>7
    <2>2. x <= z
      BY <1>2, <1>4, <1>5, <2>1 DEF Rising
    <2> QED
      BY <1>3, <2>2
  <1> QED
    BY <1>2, <1>6, <1>7

(* What a text reaches beyond, its tail reaches beyond.                    *)
LEMMA TailLeads ==
  ASSUME NEW t \in Seq(Nat), Rising(t), NEW a \in Nat \ {0}, NEW s, GoesBefore(s, t), Words(s) \subseteq Nat
  PROVE  GoesBefore(s, SubSeq(t, a, Len(t)))
  <1> DEFINE u == SubSeq(t, a, Len(t))
  <1>1. Len(t) \in 0..Len(t) /\ 1 \in Nat \ {0} /\ 1 <= a /\ Len(t) \in Int /\ Len(t) <= Len(t)
    OBVIOUS
  <1>2. SubSeq(t, 1, Len(t)) = t
    OBVIOUS
  <1>3. GoesBefore(t, u)
    <2>1. GoesBefore(SubSeq(t, 1, Len(t)), SubSeq(t, a, Len(t)))
      BY <1>1, LaterWindowLeads
    <2> QED
      BY <1>2, <2>1
  <1>4. Words(u) \subseteq Words(t) /\ Words(t) \subseteq Nat
    <2>1. ASSUME NEW x \in Words(u) PROVE x \in Words(t)
      <3>1. PICK p \in a..Len(t) : x = t[p] /\ x # 0
        BY <1>1, CutWords
      <3>2. p \in 1..Len(t)
        BY <1>1, <3>1
      <3> QED
        BY <3>1, <3>2 DEF Words
    <2>2. Words(t) \subseteq Nat
      BY DEF Words
    <2> QED
      BY <2>1, <2>2
  <1> HIDE DEF u
  <1>5. ASSUME Words(u) # {}, NEW x \in Words(s) PROVE \E y \in Words(u) : x <= y
    <2>1. PICK z \in Words(t) : x <= z
      BY <1>4, <1>5 DEF GoesBefore
    <2>2. PICK y \in Words(u) : z <= y
      BY <1>3, <1>5 DEF GoesBefore
    <2>3. x \in Int /\ y \in Int /\ z \in Int
      BY <1>4, <1>5, <2>1, <2>2
    <2>4. x <= y
      BY <2>1, <2>2, <2>3
    <2> QED
      BY <2>4
  <1>6. GoesBefore(s, u)
    BY <1>5 DEF GoesBefore
  <1> QED
    BY <1>6 DEF u

-----------------------------------------------------------------------------
(* Windows that advance over a text and leave no gap.                      *)
Slides(from, to, n, length) ==
  /\ from \in [1..n -> Nat \ {0}] /\ to \in [1..n -> 0..length]
  /\ \A j, k \in 1..n : j < k => from[j] <= from[k] /\ to[j] <= to[k]
  /\ \A p \in 1..length : \E k \in 1..n : p \in from[k]..to[k]

(* Nothing is lost of a text, and nothing added to it.                     *)
Divided(texts, t) ==
  /\ texts \in Seq(Seq(Nat))
  /\ \A n \in 1..Len(texts) : Words(texts[n]) \subseteq Words(t)
  /\ \A x \in Words(t) : \E n \in 1..Len(texts) : x \in Words(texts[n])

Windows(t, from, to, n) == [k \in 1..n |-> SubSeq(t, from[k], to[k])]

(* The windows on a rising text divide it and are in order.                *)
LEMMA WindowsDivide ==
  ASSUME NEW t \in Seq(Nat), Rising(t), NEW n \in Nat, NEW from, NEW to, Slides(from, to, n, Len(t)),
         NEW texts, texts = Windows(t, from, to, n)
  PROVE  /\ Divided(texts, t) /\ Climbs(texts) /\ Len(texts) = n
         /\ \A k \in 1..n : texts[k] = SubSeq(t, from[k], to[k])
  <1>1. \A k \in 1..n : from[k] \in Nat \ {0} /\ to[k] \in 0..Len(t)
    BY DEF Slides
  <1>2. /\ \A j, k \in 1..n : j < k => from[j] <= from[k] /\ to[j] <= to[k]
        /\ \A p \in 1..Len(t) : \E k \in 1..n : p \in from[k]..to[k]
    BY DEF Slides
  <1>3. \A k \in 1..n : SubSeq(t, from[k], to[k]) \in Seq(Nat)
    BY <1>1, Cut
  <1>4. texts \in Seq(Seq(Nat)) /\ Len(texts) = n /\ \A k \in 1..n : texts[k] = SubSeq(t, from[k], to[k])
    <2>1. texts = [k \in 1..n |-> SubSeq(t, from[k], to[k])]
      BY DEF Windows
    <2>2. PICK g : g = [k \in 1..n |-> SubSeq(t, from[k], to[k])]
      OBVIOUS
    <2>3. DOMAIN g = 1..n /\ \A k \in 1..n : g[k] = SubSeq(t, from[k], to[k])
      BY <2>2
    <2>4. g \in Seq(Seq(Nat)) /\ Len(g) = n
      <3>1. g = [k \in 1..n |-> g[k]]
        BY <2>2
      <3>2. \A k \in 1..n : g[k] \in Seq(Nat)
        BY <1>3, <2>3
      <3> QED
        BY <3>1, <3>2
    <2> QED
      BY <2>1, <2>2, <2>3, <2>4, Zenon
  <1>5. ASSUME NEW k \in 1..n, NEW x \in Words(texts[k]) PROVE x \in Words(t)
    <2>1. x \in Words(SubSeq(t, from[k], to[k])) /\ from[k] \in Nat \ {0} /\ to[k] \in 0..Len(t)
      BY <1>1, <1>4, <1>5
    <2>2. PICK a \in Nat \ {0}, b \in 0..Len(t) : a = from[k] /\ b = to[k]
      BY <2>1
    <2>3. x \in Words(SubSeq(t, a, b))
      BY <2>1, <2>2, Zenon
    <2>4. PICK p \in a..b : x = t[p] /\ x # 0
      BY <2>3, CutWords
    <2>5. p \in 1..Len(t)
      BY <2>4
    <2> QED
      BY <2>4, <2>5 DEF Words
  <1>6. ASSUME NEW x \in Words(t) PROVE \E k \in 1..n : x \in Words(texts[k])
    <2>1. PICK p \in 1..Len(t) : x = t[p] /\ x # 0
      BY <1>6 DEF Words
    <2>2. PICK k \in 1..n : p \in from[k]..to[k]
      BY <1>2
    <2>3. x \in Words(SubSeq(t, from[k], to[k]))
      BY <1>1, <2>1, <2>2, CutWords
    <2> QED
      BY <1>4, <2>2, <2>3
  <1>7. ASSUME NEW j \in 1..n, NEW k \in 1..n, j < k PROVE GoesBefore(texts[j], texts[k])
    <2>1. from[j] <= from[k] /\ to[j] <= to[k]
      BY <1>2, <1>7
    <2>2. GoesBefore(SubSeq(t, from[j], to[j]), SubSeq(t, from[k], to[k]))
      BY <1>1, <2>1, LaterWindowLeads
    <2> QED
      BY <1>4, <2>2
  <1>8. Divided(texts, t)
    BY <1>4, <1>5, <1>6 DEF Divided
  <1>9. Climbs(texts)
    BY <1>4, <1>7 DEF Climbs
  <1> QED
    BY <1>4, <1>8, <1>9

-----------------------------------------------------------------------------
(* The smallest and the largest number.                                    *)
LEMMA MinOfTwo ==
  ASSUME NEW i \in Int, NEW j \in Int
  PROVE  C!Min({i, j}) = IF i <= j THEN i ELSE j
  BY SmallerOfTwo DEF C!Min, R!Min

LEMMA MaxOfTwo ==
  ASSUME NEW i \in Int, NEW j \in Int
  PROVE  C!Max({i, j}) = IF i >= j THEN i ELSE j
  BY LargerOfTwo DEF C!Max, R!Max

LEMMA MaxOfSome ==
  ASSUME NEW U, IsFiniteSet(U), U \subseteq Int, U # {}
  PROVE  C!Max(U) \in U /\ \A i \in U : i <= C!Max(U)
  BY FiniteMax DEF C!Max, R!Max

LEMMA MinOfSome ==
  ASSUME NEW U, U \subseteq Nat, U # {}
  PROVE  C!Min(U) \in U /\ \A i \in U : C!Min(U) <= i
  <1>1. \E x \in U : \A y \in U : x <= y
    BY LeastNumber
  <1> QED
    BY <1>1, Zenon DEF C!Min

LEMMA Steps ==
  ASSUME NEW step \in Nat, NEW j \in Nat, NEW k \in Nat
  PROVE  /\ j * step \in Nat /\ (k + 1) * step = k * step + step /\ 0 * step = 0
         /\ j <= k => j * step <= k * step
         /\ step >= 1 => k <= k * step
  OBVIOUS

(* _split_by_tokens: parts that lose nothing, in order, none too long.     *)
LEMMA SplitDivides ==
  ASSUME NEW t \in Seq(Nat), Rising(t), NEW target \in Nat, NEW overlap \in Nat, overlap < target
  PROVE  /\ Divided(C!Split(t, target, overlap), t) /\ Climbs(C!Split(t, target, overlap))
         /\ \A n \in 1..Len(C!Split(t, target, overlap)) :
              Len(C!Split(t, target, overlap)[n]) <= target
  <1> DEFINE length == Len(t)
             step == target - overlap
             ends == {k \in 0..length : k * step + target >= length}
             last == C!Min(ends)
             from == [k \in 1..(last + 1) |-> (k - 1) * step + 1]
             to == [k \in 1..(last + 1) |->
                      IF length <= (k - 1) * step + target THEN length ELSE (k - 1) * step + target]
             texts == Windows(t, from, to, last + 1)
  <1>1. length \in Nat /\ step \in Nat /\ step >= 1 /\ target \in Nat /\ step <= target /\ target - overlap \in Int
    OBVIOUS
  <1>2. C!Max({1, target - overlap}) = step
    BY <1>1, MaxOfTwo
  <1> HIDE DEF length
  <1>3. last \in 0..length /\ last * step + target >= length
        /\ \A k \in 0..length : k * step + target >= length => last <= k
    <2>1. ends \subseteq Nat
      OBVIOUS
    <2>2. length \in ends
      <3>1. length <= length * step
        BY <1>1, Steps
      <3>2. length * step \in Nat
        BY <1>1, Steps
      <3> HIDE DEF step
      <3> QED
        BY <1>1, <3>1, <3>2
    <2>3. last \in ends /\ \A k \in ends : last <= k
      <3> HIDE DEF ends
      <3> QED
        BY <2>1, <2>2, MinOfSome
    <2> HIDE DEF last, step
    <2> QED
      BY <2>3
  <1>4. C!Split(t, target, overlap) =
          [k \in 1..(last + 1) |->
             SubSeq(t, (k - 1) * step + 1, C!Min({length, (k - 1) * step + target}))]
    BY <1>2, Zenon DEF C!Split, length
  <1> HIDE DEF step, last
  <1>5. ASSUME NEW k \in 1..(last + 1)
        PROVE  /\ k - 1 \in Nat /\ (k - 1) * step \in Nat
               /\ from[k] = (k - 1) * step + 1 /\ from[k] \in Nat \ {0}
               /\ to[k] \in 0..length /\ to[k] - from[k] + 1 <= target
               /\ C!Min({length, (k - 1) * step + target}) = to[k]
    <2>1. k - 1 \in Nat
      BY <1>3
    <2>2. (k - 1) * step \in Nat
      BY <1>1, <2>1, Steps
    <2>3. PICK s \in Nat : s = (k - 1) * step
      BY <2>2
    <2>4. from[k] = s + 1 /\ to[k] = IF length <= s + target THEN length ELSE s + target
      BY <2>3
    <2>5. length \in Int /\ s + target \in Int
      BY <1>1, <2>3
    <2>6. C!Min({length, s + target}) = to[k]
      <3> HIDE DEF to
      <3> QED
        BY <2>4, <2>5, MinOfTwo
    <2> HIDE DEF from, to
    <2>7. from[k] \in Nat \ {0} /\ to[k] \in 0..length /\ to[k] - from[k] + 1 <= target
      BY <1>1, <2>3, <2>4
    <2> QED
      BY <2>1, <2>2, <2>3, <2>4, <2>6, <2>7
  <1>6. C!Split(t, target, overlap) = texts
    <2>1. \A k \in 1..(last + 1) :
            SubSeq(t, (k - 1) * step + 1, C!Min({length, (k - 1) * step + target}))
              = SubSeq(t, from[k], to[k])
      <3> HIDE DEF from, to
      <3> QED
        BY <1>5
    <2> HIDE DEF from, to
    <2> QED
      BY <1>4, <2>1 DEF Windows
  <1>7. ASSUME NEW j \in 1..(last + 1), NEW k \in 1..(last + 1), j < k
        PROVE  from[j] <= from[k] /\ to[j] <= to[k]
    <2>1. j - 1 \in Nat /\ k - 1 \in Nat /\ j - 1 <= k - 1
      BY <1>3, <1>5, <1>7
    <2>2. (j - 1) * step <= (k - 1) * step /\ (j - 1) * step \in Nat /\ (k - 1) * step \in Nat
      BY <1>1, <2>1, Steps
    <2>3. PICK r \in Nat : r = (j - 1) * step
      BY <2>2
    <2>4. PICK s \in Nat : s = (k - 1) * step
      BY <2>2
    <2>5. /\ from[k] = s + 1 /\ to[k] = IF length <= s + target THEN length ELSE s + target
          /\ from[j] = r + 1 /\ to[j] = IF length <= r + target THEN length ELSE r + target
      BY <2>3, <2>4
    <2>6. r <= s
      BY <2>2, <2>3, <2>4
    <2> HIDE DEF from, to
    <2> QED
      BY <1>1, <2>5, <2>6
  <1>8. ASSUME NEW p \in 1..length PROVE \E k \in 1..(last + 1) : p \in from[k]..to[k]
    <2> DEFINE over == {k \in 0..last : k * step + target >= p}
    <2>1. last \in over
      <3>1. last \in Nat
        BY <1>1, <1>3
      <3>2. PICK s \in Nat : s = last * step
        BY <1>1, <3>1, Steps
      <3>3. s + target >= p
        BY <1>1, <1>3, <3>2
      <3> QED
        BY <3>1, <3>2, <3>3
    <2>2. PICK k \in over : \A j \in over : k <= j
      <3>1. over \subseteq Nat
        BY <1>1, <1>3
      <3> HIDE DEF over
      <3> QED
        BY <2>1, <3>1, LeastNumber
    <2>3. k \in 0..last /\ k \in Nat /\ k + 1 \in 1..(last + 1) /\ (k + 1) - 1 = k
      BY <1>1, <1>3
    <2>4. PICK s \in Nat : s = k * step
      BY <1>1, <2>3, Steps
    <2>5. s + target >= p
      BY <2>4
    <2>6. from[k + 1] = s + 1 /\ to[k + 1] = IF length <= s + target THEN length ELSE s + target
      BY <2>3, <2>4
    <2>7. s + 1 <= p
      <3>1. CASE k = 0
        <4>1. s = 0
          BY <1>1, <2>4, <3>1, Steps
        <4> QED
          BY <1>1, <4>1
      <3>2. CASE k # 0
        <4>1. k - 1 \in 0..last /\ k - 1 \in Nat /\ (k - 1) + 1 = k /\ ~(k <= k - 1)
          BY <1>1, <1>3, <2>3, <3>2
        <4>2. PICK r \in Nat : r = (k - 1) * step
          BY <1>1, <4>1, Steps
        <4>3. s = r + step
          BY <1>1, <2>4, <4>1, <4>2, Steps
        <4>4. ~(r + target >= p)
          BY <2>2, <4>1, <4>2
        <4> QED
          BY <1>1, <4>3, <4>4
      <3> QED
        BY <3>1, <3>2
    <2> HIDE DEF from, to, over
    <2>8. p \in from[k + 1]..to[k + 1]
      BY <1>1, <2>5, <2>6, <2>7
    <2> QED
      BY <2>3, <2>8
  <1>9. Slides(from, to, last + 1, length)
    <2>1. from \in [1..(last + 1) -> Nat \ {0}]
      BY <1>5
    <2>2. to \in [1..(last + 1) -> 0..length]
      BY <1>5
    <2> HIDE DEF from, to
    <2> QED
      BY <1>7, <1>8, <2>1, <2>2 DEF Slides
  <1>10. last + 1 \in Nat
    BY <1>1, <1>3
  <1>11. /\ Divided(texts, t) /\ Climbs(texts) /\ Len(texts) = last + 1
         /\ \A k \in 1..(last + 1) : texts[k] = SubSeq(t, from[k], to[k])
    <2>1. Slides(from, to, last + 1, Len(t))
      BY <1>9 DEF length
    <2> HIDE DEF from, to
    <2>2. texts = Windows(t, from, to, last + 1)
      OBVIOUS
    <2> HIDE DEF texts
    <2>3. PICK n \in Nat : n = last + 1
      BY <1>10
    <2>4. Slides(from, to, n, Len(t)) /\ texts = Windows(t, from, to, n)
      BY <2>1, <2>2, <2>3, Zenon
    <2>5. /\ Divided(texts, t) /\ Climbs(texts) /\ Len(texts) = n
          /\ \A k \in 1..n : texts[k] = SubSeq(t, from[k], to[k])
      BY <2>4, WindowsDivide
    <2> QED
      BY <2>3, <2>5, Zenon
  <1>12. ASSUME NEW k \in 1..(last + 1) PROVE Len(texts[k]) <= target
    <2>1. from[k] \in Nat \ {0} /\ to[k] \in 0..Len(t) /\ to[k] - from[k] + 1 <= target
      BY <1>5 DEF length
    <2> HIDE DEF from, to
    <2>2. Len(SubSeq(t, from[k], to[k])) = IF from[k] <= to[k] THEN to[k] - from[k] + 1 ELSE 0
      BY <2>1, Cut
    <2>3. Len(SubSeq(t, from[k], to[k])) <= target
      BY <1>1, <2>1, <2>2
    <2> HIDE DEF texts
    <2> QED
      BY <1>11, <2>3
  <1> HIDE DEF texts
  <1> QED
    BY <1>6, <1>11, <1>12

-----------------------------------------------------------------------------
(* Where a piece ends: at its full size, or after the last mark of its     *)
(* second half.                                                            *)
Farthest(from, length, size) == IF from + size <= length + 1 THEN from + size ELSE length + 1

MarksIn(from, length, size, ends) ==
  {e \in (from + size \div 2)..(Farthest(from, length, size) - 1) : e \in ends}

(* A piece ends at one of the two.                                         *)
LEMMA PieceEndIs ==
  ASSUME NEW from \in Nat \ {0}, NEW length \in Nat, NEW size \in Nat \ {0}, NEW ends,
         NEW f, f = Farthest(from, length, size), NEW e, e = C!PieceEnd(from, length, size, ends)
  PROVE  /\ f \in Nat \ {0} /\ size \div 2 \in Nat
         /\ \/ e = f /\ (f > length \/ MarksIn(from, length, size, ends) = {})
            \/ /\ f <= length /\ e - 1 \in MarksIn(from, length, size, ends) /\ e \in Nat
               /\ \A m \in MarksIn(from, length, size, ends) : m <= e - 1
  <1> DEFINE half == size \div 2
             marks == {x \in (from + half)..(f - 1) : x \in ends}
  <1>1. half \in Nat
    BY Quotient
  <1>2. f \in Nat \ {0} /\ C!Min({from + size, length + 1}) = f
    <2>1. from + size \in Int /\ length + 1 \in Int
      OBVIOUS
    <2>2. C!Min({from + size, length + 1}) = f
      BY <2>1, MinOfTwo DEF Farthest
    <2>3. f \in Nat \ {0}
      BY DEF Farthest
    <2> QED
      BY <2>2, <2>3
  <1>3. e = IF f <= length /\ marks # {} THEN C!Max(marks) + 1 ELSE f
    BY <1>2 DEF C!PieceEnd
  <1>4. MarksIn(from, length, size, ends) = marks
    BY DEF MarksIn
  <1> HIDE DEF half
  <1>5. IsFiniteSet(marks) /\ marks \subseteq Nat
    <2>1. PICK a \in Int : a = from + half
      BY <1>1
    <2>2. PICK b \in Int : b = f - 1
      BY <1>2
    <2>3. IsFiniteSet(a..b)
      BY FS_Interval
    <2>4. marks \subseteq a..b /\ marks \subseteq Nat
      BY <1>1, <1>2, <2>1, <2>2
    <2> HIDE DEF marks
    <2> QED
      BY <2>3, <2>4, FS_Subset
  <1> HIDE DEF marks
  <1>6. ASSUME marks # {}
        PROVE  C!Max(marks) \in Nat /\ C!Max(marks) \in marks /\ \A m \in marks : m <= C!Max(marks)
    <2>1. marks \subseteq Int
      BY <1>5
    <2>2. C!Max(marks) \in marks /\ \A m \in marks : m <= C!Max(marks)
      BY <1>5, <1>6, <2>1, MaxOfSome
    <2> QED
      BY <1>5, <2>2
  <1>7. CASE f <= length /\ marks # {}
    <2>1. PICK m \in Nat : m = C!Max(marks)
      BY <1>6, <1>7
    <2>2. e = m + 1 /\ m \in marks /\ \A x \in marks : x <= m
      BY <1>3, <1>6, <1>7, <2>1
    <2>3. e - 1 = m /\ e \in Nat
      BY <2>2
    <2> QED
      BY <1>1, <1>2, <1>4, <1>7, <2>2, <2>3 DEF half
  <1>8. CASE ~(f <= length /\ marks # {})
    <2>1. e = f
      BY <1>3, <1>8
    <2> QED
      BY <1>1, <1>2, <1>4, <1>8, <2>1 DEF half
  <1> QED
    BY <1>7, <1>8

(* A piece ends behind its beginning and no farther than its size.         *)
LEMMA PieceEndBounds ==
  ASSUME NEW from \in Nat \ {0}, NEW length \in Nat, NEW size \in Nat \ {0}, NEW ends
  PROVE  /\ C!PieceEnd(from, length, size, ends) \in 1..(length + 1)
         /\ C!PieceEnd(from, length, size, ends) <= from + size
         /\ from <= length => from < C!PieceEnd(from, length, size, ends)
         /\ from > length => C!PieceEnd(from, length, size, ends) = length + 1
  <1>1. PICK f : f = Farthest(from, length, size)
    OBVIOUS
  <1>2. PICK e : e = C!PieceEnd(from, length, size, ends)
    OBVIOUS
  <1>3. /\ f \in Nat \ {0} /\ size \div 2 \in Nat
        /\ \/ e = f /\ (f > length \/ MarksIn(from, length, size, ends) = {})
           \/ /\ f <= length /\ e - 1 \in MarksIn(from, length, size, ends) /\ e \in Nat
              /\ \A m \in MarksIn(from, length, size, ends) : m <= e - 1
    BY <1>1, <1>2, PieceEndIs
  <1>4. f = IF from + size <= length + 1 THEN from + size ELSE length + 1
    BY <1>1 DEF Farthest
  <1>5. PICK half \in Nat : half = size \div 2
    BY <1>3
  <1>6. \A m \in MarksIn(from, length, size, ends) : m \in (from + half)..(f - 1)
    BY <1>1, <1>5 DEF MarksIn
  <1>7. e \in 1..(length + 1) /\ e <= from + size
        /\ (from <= length => from < e) /\ (from > length => e = length + 1)
    <2>1. CASE e = f
      BY <1>4, <2>1
    <2>2. CASE f <= length /\ e - 1 \in MarksIn(from, length, size, ends) /\ e \in Nat
      <3>1. e - 1 \in (from + half)..(f - 1)
        BY <1>6, <2>2
      <3> QED
        BY <1>4, <2>2, <3>1
    <2> QED
      BY <1>3, <2>1, <2>2
  <1> QED
    BY <1>2, <1>7

(* Who begins later ends no earlier.                                       *)
LEMMA PieceEndsGrow ==
  ASSUME NEW a \in Nat \ {0}, NEW b \in Nat \ {0}, a <= b,
         NEW length \in Nat, NEW size \in Nat \ {0}, NEW ends
  PROVE  C!PieceEnd(a, length, size, ends) <= C!PieceEnd(b, length, size, ends)
  <1>1. PICK f : f = Farthest(a, length, size)
    OBVIOUS
  <1>2. PICK g : g = Farthest(b, length, size)
    OBVIOUS
  <1>3. PICK e : e = C!PieceEnd(a, length, size, ends)
    OBVIOUS
  <1>4. PICK h : h = C!PieceEnd(b, length, size, ends)
    OBVIOUS
  <1>5. PICK M : M = MarksIn(a, length, size, ends)
    OBVIOUS
  <1>6. PICK N : N = MarksIn(b, length, size, ends)
    OBVIOUS
  <1>7. /\ f \in Nat \ {0} /\ size \div 2 \in Nat
        /\ \/ e = f /\ (f > length \/ M = {})
           \/ f <= length /\ e - 1 \in M /\ e \in Nat /\ \A m \in M : m <= e - 1
    BY <1>1, <1>3, <1>5, PieceEndIs
  <1>8. /\ g \in Nat \ {0}
        /\ \/ h = g /\ (g > length \/ N = {})
           \/ g <= length /\ h - 1 \in N /\ h \in Nat /\ \A m \in N : m <= h - 1
    BY <1>2, <1>4, <1>6, PieceEndIs
  <1>9. PICK half \in Nat : half = size \div 2
    BY <1>7
  <1>10. /\ \A m : m \in M <=> m \in (a + half)..(f - 1) /\ m \in ends
         /\ \A m : m \in N <=> m \in (b + half)..(g - 1) /\ m \in ends
    BY <1>1, <1>2, <1>5, <1>6, <1>9 DEF MarksIn
  <1>11. /\ f = IF a + size <= length + 1 THEN a + size ELSE length + 1
         /\ g = IF b + size <= length + 1 THEN b + size ELSE length + 1
    BY <1>1, <1>2 DEF Farthest
  <1>12. f <= g
    BY <1>11
  <1>13. e <= f
    <2>1. CASE f <= length /\ e - 1 \in M /\ e \in Nat
      BY <1>7, <1>10, <2>1
    <2> QED
      BY <1>7, <2>1
  <1>14. CASE h = g
    <2>1. e \in Nat
      BY <1>7
    <2> QED
      BY <1>3, <1>4, <1>7, <1>8, <1>12, <1>13, <1>14, <2>1
  <1>15. CASE g <= length /\ h - 1 \in N /\ h \in Nat /\ \A m \in N : m <= h - 1
    <2>1. h - 1 \in (b + half)..(g - 1) /\ h - 1 \in ends
      BY <1>10, <1>15
    <2>2. f <= length
      BY <1>7, <1>8, <1>12, <1>15
    <2>3. CASE e = f /\ M = {}
      <3>1. h - 1 \notin (a + half)..(f - 1)
        BY <1>10, <2>1, <2>3
      <3>2. ~(h - 1 <= f - 1)
        BY <1>7, <1>15, <2>1, <3>1
      <3> QED
        BY <1>3, <1>4, <1>7, <1>15, <2>3, <3>2
    <2>4. CASE e - 1 \in M /\ e \in Nat
      <3>1. e - 1 \in (a + half)..(f - 1) /\ e - 1 \in ends
        BY <1>10, <2>4
      <3>2. CASE e - 1 >= b + half
        <4>1. e - 1 \in (b + half)..(g - 1)
          BY <1>7, <1>8, <1>12, <2>4, <3>1, <3>2
        <4>2. e - 1 <= h - 1
          BY <1>10, <1>15, <3>1, <4>1
        <4> QED
          BY <1>3, <1>4, <1>15, <2>4, <4>2
      <3>3. CASE e - 1 < b + half
        <4>1. e - 1 < h - 1
          BY <1>8, <1>15, <2>1, <2>4, <3>3
        <4> QED
          BY <1>3, <1>4, <1>15, <2>4, <4>1
      <3> QED
        BY <2>4, <3>2, <3>3
    <2> QED
      BY <1>7, <2>2, <2>3, <2>4
  <1> QED
    BY <1>8, <1>14, <1>15

-----------------------------------------------------------------------------
(* The beginnings of the pieces.                                           *)
Starts(s, length, size, overlap, ends) ==
  /\ s[1] = 1
  /\ \A n \in 2..length :
       s[n] = C!Max({C!PieceEnd(s[n - 1], length, size, ends) - overlap, s[n - 1] + 1})

Pieces(t, s, last, size, overlap, ends) ==
  /\ Starts(s, Len(t), size, overlap, ends)
  /\ last = C!Min({n \in 1..Len(t) : C!PieceEnd(s[n], Len(t), size, ends) > Len(t)})
  /\ C!SplitText(t, size, overlap, ends) =
       [n \in 1..last |-> SubSeq(t, s[n], C!PieceEnd(s[n], Len(t), size, ends) - 1)]

(* split_text: from one beginning to the next, up to the first piece that  *)
(* ends at the end of the text.                                            *)
LEMMA SplitTextUnfolds ==
  ASSUME NEW t \in Seq(Nat), t # <<>>, NEW size \in Nat \ {0}, NEW overlap \in Nat, NEW ends
  PROVE  \E s, last : Pieces(t, s, last, size, overlap, ends)
  <1> DEFINE length == Len(t)
             EndOf(x) == C!PieceEnd(x, length, size, ends)
             turn == [k \in 1..(length - 1) |-> [x \in Nat \ {0} |-> C!Max({EndOf(x) - overlap, x + 1})]]
             Flat(f) == f = [n \in 1..length |->
                               IF n = 1 THEN 1 ELSE C!Max({EndOf(f[n - 1]) - overlap, f[n - 1] + 1})]
             s == CHOOSE f : Flat(f)
             last == C!Min({n \in 1..length : EndOf(s[n]) > length})
  <1>1. length \in Nat \ {0} /\ length - 1 \in Nat
    OBVIOUS
  <1> HIDE DEF length
  <1>2. Moves(turn, length - 1, Nat \ {0})
    <2>1. ASSUME NEW k \in 1..(length - 1), NEW x \in Nat \ {0} PROVE turn[k][x] \in Nat \ {0}
      <3>1. EndOf(x) \in 1..(length + 1)
        BY <1>1, PieceEndBounds
      <3>2. EndOf(x) - overlap \in Int /\ x + 1 \in Int
        BY <1>1, <3>1
      <3>3. PICK y \in Int : y = EndOf(x) - overlap
        BY <3>2
      <3>4. C!Max({y, x + 1}) = IF y >= x + 1 THEN y ELSE x + 1
        BY <3>2, MaxOfTwo
      <3>5. C!Max({y, x + 1}) \in Nat \ {0}
        BY <3>4
      <3>6. turn[k][x] = C!Max({EndOf(x) - overlap, x + 1})
        OBVIOUS
      <3> HIDE DEF turn
      <3> QED
        BY <3>3, <3>5, <3>6
    <2> HIDE DEF turn
    <2> QED
      BY <2>1 DEF Moves
  <1>3. PICK f : Runs(f, turn, length - 1, 1, Nat \ {0})
    <2>1. 1 \in Nat \ {0}
      OBVIOUS
    <2> HIDE DEF turn
    <2> QED
      BY <1>1, <1>2, <2>1, RecursionWorks
  <1>4. /\ f \in [0..(length - 1) -> Nat \ {0}] /\ f[0] = 1
        /\ \A k \in 1..(length - 1) : f[k] = turn[k][f[k - 1]]
    BY <1>3, Zenon DEF Runs
  <1> DEFINE g == [n \in 1..length |-> f[n - 1]]
  <1>5. Flat(g)
    <2>1. ASSUME NEW n \in 1..length
          PROVE  g[n] = IF n = 1 THEN 1 ELSE C!Max({EndOf(g[n - 1]) - overlap, g[n - 1] + 1})
      <3>1. CASE n = 1
        <4>1. 1 - 1 = 0
          OBVIOUS
        <4>2. g[n] = f[0]
          BY <3>1, <4>1
        <4> QED
          BY <1>4, <3>1, <4>2
      <3>2. CASE n # 1
        <4>1. n - 1 \in 1..(length - 1) /\ n - 1 \in 1..length /\ (n - 1) - 1 \in 0..(length - 1)
          BY <1>1, <3>2
        <4>2. g[n] = f[n - 1] /\ g[n - 1] = f[(n - 1) - 1]
          BY <4>1
        <4>3. f[(n - 1) - 1] \in Nat \ {0}
          BY <1>4, <4>1
        <4>4. f[n - 1] = turn[n - 1][f[(n - 1) - 1]]
          BY <1>4, <4>1, Zenon
        <4>5. turn[n - 1][f[(n - 1) - 1]] =
                C!Max({EndOf(f[(n - 1) - 1]) - overlap, f[(n - 1) - 1] + 1})
          BY <4>1, <4>3
        <4> HIDE DEF turn, g
        <4>6. g[n] = C!Max({EndOf(g[n - 1]) - overlap, g[n - 1] + 1})
          BY <4>2, <4>4, <4>5, Zenon
        <4> QED
          BY <3>2, <4>6
      <3> QED
        BY <3>1, <3>2
    <2>2. g = [n \in 1..length |-> g[n]]
      OBVIOUS
    <2> HIDE DEF g, EndOf
    <2>3. [n \in 1..length |-> g[n]] =
            [n \in 1..length |-> IF n = 1 THEN 1 ELSE C!Max({EndOf(g[n - 1]) - overlap, g[n - 1] + 1})]
      BY <2>1
    <2> QED
      BY <2>2, <2>3
  <1>6. Flat(s)
    <2> HIDE DEF Flat, g
    <2> QED
      BY <1>5, Zenon
  <1>7. C!SplitText(t, size, overlap, ends) =
          [n \in 1..last |-> SubSeq(t, s[n], EndOf(s[n]) - 1)]
    BY Zenon DEF C!SplitText, length
  <1> HIDE DEF s, EndOf
  <1>8. ASSUME NEW n \in 1..length
        PROVE  s[n] = IF n = 1 THEN 1 ELSE C!Max({EndOf(s[n - 1]) - overlap, s[n - 1] + 1})
    BY <1>6
  <1>9. Starts(s, length, size, overlap, ends)
    <2>1. s[1] = 1
      <3>1. 1 \in 1..length
        BY <1>1
      <3> QED
        BY <1>8, <3>1
    <2>2. ASSUME NEW n \in 2..length PROVE s[n] = C!Max({EndOf(s[n - 1]) - overlap, s[n - 1] + 1})
      <3>1. n \in 1..length /\ n # 1
        BY <1>1
      <3> QED
        BY <1>8, <3>1, Zenon
    <2> QED
      BY <2>1, <2>2, Zenon DEF Starts, EndOf
  <1> QED
    <2>1. Pieces(t, s, last, size, overlap, ends)
      BY <1>7, <1>9, Zenon DEF Pieces, EndOf, length
    <2> QED
      BY <2>1

-----------------------------------------------------------------------------
(* Beginnings grow, and no piece begins behind a gap.                      *)
LEMMA StartsGrow ==
  ASSUME NEW length \in Nat \ {0}, NEW size \in Nat \ {0}, NEW overlap \in Nat, NEW ends,
         NEW s, Starts(s, length, size, overlap, ends)
  PROVE  /\ \A n \in 1..length : s[n] \in Nat /\ n <= s[n]
         /\ \A n \in 2..length :
              s[n] <= C!PieceEnd(s[n - 1], length, size, ends) \/ s[n] = s[n - 1] + 1
         /\ \A j, k \in 1..length : j < k => s[j] <= s[k]
  <1> DEFINE EndOf(x) == C!PieceEnd(x, length, size, ends)
  <1>1. s[1] = 1 /\ \A n \in 2..length : s[n] = C!Max({EndOf(s[n - 1]) - overlap, s[n - 1] + 1})
    BY Zenon DEF Starts
  <1>2. \A x \in Nat \ {0} : EndOf(x) \in 1..(length + 1)
    BY PieceEndBounds
  <1> HIDE DEF EndOf
  <1>3. ASSUME NEW n \in 2..length, s[n - 1] \in Nat \ {0}
        PROVE  /\ s[n] \in Nat /\ s[n - 1] + 1 <= s[n]
               /\ s[n] <= EndOf(s[n - 1]) \/ s[n] = s[n - 1] + 1
    <2>1. PICK e \in 1..(length + 1) : e = EndOf(s[n - 1])
      BY <1>2, <1>3
    <2>2. s[n] = C!Max({e - overlap, s[n - 1] + 1})
      BY <1>1, <2>1
    <2>3. e - overlap \in Int /\ s[n - 1] + 1 \in Int
      BY <1>3, <2>1
    <2>4. s[n] = IF e - overlap >= s[n - 1] + 1 THEN e - overlap ELSE s[n - 1] + 1
      BY <2>2, <2>3, MaxOfTwo
    <2> QED
      BY <1>3, <2>1, <2>3, <2>4
  <1> DEFINE T == {k \in 0..length : k = 0 \/ (s[k] \in Nat /\ k <= s[k])}
  <1>4. ASSUME NEW k \in 1..length, k - 1 \in T PROVE k \in T
    <2>1. CASE k = 1
      BY <1>1, <2>1
    <2>2. CASE k # 1
      <3>1. k \in 2..length /\ k - 1 # 0 /\ k \in 0..length
        BY <2>2
      <3>2. s[k - 1] \in Nat \ {0} /\ k - 1 <= s[k - 1]
        BY <1>4, <3>1
      <3>3. s[k] \in Nat /\ s[k - 1] + 1 <= s[k]
        BY <1>3, <3>1, <3>2
      <3> QED
        BY <3>1, <3>2, <3>3
    <2> QED
      BY <2>1, <2>2
  <1>5. \A k \in 0..length : k \in T
    <2>1. 0 \in T /\ length \in Nat
      OBVIOUS
    <2> HIDE DEF T
    <2> QED
      BY <1>4, <2>1, UpTo
  <1>6. \A n \in 1..length : s[n] \in Nat /\ n <= s[n]
    BY <1>5
  <1>7. \A n \in 2..length : /\ s[n - 1] + 1 <= s[n]
                             /\ s[n] <= EndOf(s[n - 1]) \/ s[n] = s[n - 1] + 1
    <2>1. ASSUME NEW n \in 2..length
          PROVE  s[n - 1] + 1 <= s[n] /\ (s[n] <= EndOf(s[n - 1]) \/ s[n] = s[n - 1] + 1)
      <3>1. n - 1 \in 1..length
        OBVIOUS
      <3>2. s[n - 1] \in Nat \ {0}
        BY <1>6, <3>1
      <3> QED
        BY <1>3, <3>2
    <2> QED
      BY <2>1
  <1> DEFINE W == {k \in 0..length : \A j \in 1..k : s[j] <= s[k]}
  <1>8. ASSUME NEW k \in 1..length, k - 1 \in W PROVE k \in W
    <2>1. ASSUME NEW j \in 1..k PROVE s[j] <= s[k]
      <3>1. j \in 1..length /\ s[j] \in Nat /\ s[k] \in Nat
        BY <1>6
      <3>2. CASE j = k
        BY <3>1, <3>2
      <3>3. CASE j # k
        <4>1. j \in 1..(k - 1) /\ k \in 2..length /\ k - 1 \in 1..length
          BY <3>3
        <4>2. s[j] <= s[k - 1] /\ s[k - 1] + 1 <= s[k] /\ s[k - 1] \in Nat
          BY <1>6, <1>7, <1>8, <4>1
        <4> QED
          BY <3>1, <4>2
      <3> QED
        BY <3>2, <3>3
    <2> QED
      BY <2>1
  <1>9. \A k \in 0..length : k \in W
    <2>1. 0 \in W /\ length \in Nat
      OBVIOUS
    <2> HIDE DEF W
    <2> QED
      BY <1>8, <2>1, UpTo
  <1>10. \A j, k \in 1..length : j < k => s[j] <= s[k]
    BY <1>9
  <1> QED
    BY <1>6, <1>7, <1>10 DEF EndOf

(* split_text loses nothing, its pieces are in order and none is too long. *)
LEMMA SplitTextDivides ==
  ASSUME NEW t \in Seq(Nat), t # <<>>, Rising(t),
         NEW size \in Nat \ {0}, NEW overlap \in Nat, NEW ends
  PROVE  /\ Divided(C!SplitText(t, size, overlap, ends), t)
         /\ Climbs(C!SplitText(t, size, overlap, ends))
         /\ \A n \in 1..Len(C!SplitText(t, size, overlap, ends)) :
              Len(C!SplitText(t, size, overlap, ends)[n]) <= size
  <1> DEFINE length == Len(t)
             EndOf(x) == C!PieceEnd(x, length, size, ends)
  <1>1. length \in Nat \ {0}
    OBVIOUS
  <1>2. PICK s, last : Pieces(t, s, last, size, overlap, ends)
    BY SplitTextUnfolds
  <1>3. /\ Starts(s, length, size, overlap, ends)
        /\ last = C!Min({n \in 1..length : EndOf(s[n]) > length})
        /\ C!SplitText(t, size, overlap, ends) = [n \in 1..last |-> SubSeq(t, s[n], EndOf(s[n]) - 1)]
    BY <1>2, Zenon DEF Pieces
  <1> HIDE DEF length
  <1>4. /\ \A n \in 1..length : s[n] \in Nat /\ n <= s[n]
        /\ \A n \in 2..length : s[n] <= EndOf(s[n - 1]) \/ s[n] = s[n - 1] + 1
        /\ \A j, k \in 1..length : j < k => s[j] <= s[k]
    BY <1>1, <1>3, StartsGrow
  <1>5. \A n \in 1..length : s[n] \in Nat \ {0}
    BY <1>4
  <1>6. PICK e : e = [n \in 1..length |-> EndOf(s[n])]
    OBVIOUS
  <1>7. /\ \A n \in 1..length : /\ e[n] = EndOf(s[n])
                                /\ e[n] \in 1..(length + 1) /\ e[n] <= s[n] + size
                                /\ s[n] <= length => s[n] < e[n]
                                /\ s[n] > length => e[n] = length + 1
        /\ \A j, k \in 1..length : j < k => e[j] <= e[k]
    <2>1. ASSUME NEW n \in 1..length
          PROVE  /\ e[n] = EndOf(s[n])
                 /\ e[n] \in 1..(length + 1) /\ e[n] <= s[n] + size
                 /\ s[n] <= length => s[n] < e[n]
                 /\ s[n] > length => e[n] = length + 1
      <3>1. PICK x \in Nat \ {0} : x = s[n]
        BY <1>5
      <3>2. e[n] = EndOf(x)
        BY <1>6, <3>1
      <3>3. /\ EndOf(x) \in 1..(length + 1) /\ EndOf(x) <= x + size
            /\ x <= length => x < EndOf(x)
            /\ x > length => EndOf(x) = length + 1
        BY <1>1, PieceEndBounds
      <3> QED
        BY <3>1, <3>2, <3>3, Zenon
    <2>2. ASSUME NEW j \in 1..length, NEW k \in 1..length, j < k PROVE e[j] <= e[k]
      <3>1. PICK x \in Nat \ {0} : x = s[j]
        BY <1>5
      <3>2. PICK y \in Nat \ {0} : y = s[k]
        BY <1>5
      <3>3. x <= y
        BY <1>4, <2>2, <3>1, <3>2
      <3>4. EndOf(x) <= EndOf(y)
        BY <1>1, <3>3, PieceEndsGrow
      <3>5. e[j] = EndOf(x) /\ e[k] = EndOf(y)
        BY <1>6, <3>1, <3>2
      <3> QED
        BY <3>4, <3>5, Zenon
    <2> QED
      BY <2>1, <2>2
  <1>8. /\ last = C!Min({n \in 1..length : e[n] > length})
        /\ \A n \in 2..length : s[n] <= e[n - 1] \/ s[n] = s[n - 1] + 1
    <2>1. {n \in 1..length : e[n] > length} = {n \in 1..length : EndOf(s[n]) > length}
      <3> HIDE DEF EndOf
      <3> QED
        BY <1>7
    <2>2. ASSUME NEW n \in 2..length PROVE s[n] <= e[n - 1] \/ s[n] = s[n - 1] + 1
      <3>1. n - 1 \in 1..length
        BY <1>1
      <3>2. e[n - 1] = EndOf(s[n - 1])
        BY <1>7, <3>1
      <3> QED
        BY <1>4, <3>2
    <2> QED
      BY <1>3, <2>1, <2>2, Zenon
  <1>9. last \in 1..length /\ e[last] > length
    <2> DEFINE over == {n \in 1..length : e[n] > length}
    <2>1. over \subseteq Nat
      OBVIOUS
    <2>2. length \in over
      <3>1. length \in 1..length /\ s[length] \in Nat /\ length <= s[length]
        BY <1>1, <1>4
      <3>2. e[length] > length
        BY <1>1, <1>7, <3>1
      <3> QED
        BY <3>1, <3>2
    <2>3. last \in over
      <3>1. last = C!Min(over)
        BY <1>8
      <3> HIDE DEF over
      <3> QED
        BY <2>1, <2>2, <3>1, MinOfSome
    <2> QED
      BY <2>3
  <1>10. last \in Nat /\ last <= length /\ \A n \in 1..last : n \in 1..length
    BY <1>1, <1>9
  <1> DEFINE from == [n \in 1..last |-> s[n]]
             to == [n \in 1..last |-> e[n] - 1]
             texts == Windows(t, from, to, last)
  <1>11. ASSUME NEW n \in 1..last
         PROVE  /\ from[n] = s[n] /\ to[n] = e[n] - 1
                /\ from[n] \in Nat \ {0} /\ to[n] \in 0..length /\ to[n] - from[n] + 1 <= size
    <2>1. s[n] \in Nat \ {0} /\ e[n] \in 1..(length + 1) /\ e[n] <= s[n] + size
      BY <1>5, <1>7, <1>10
    <2>2. from[n] = s[n] /\ to[n] = e[n] - 1
      OBVIOUS
    <2> HIDE DEF from, to
    <2> QED
      BY <1>1, <2>1, <2>2
  <1>12. C!SplitText(t, size, overlap, ends) = texts
    <2>1. \A n \in 1..last : SubSeq(t, s[n], EndOf(s[n]) - 1) = SubSeq(t, from[n], to[n])
      <3>1. ASSUME NEW n \in 1..last PROVE SubSeq(t, s[n], EndOf(s[n]) - 1) = SubSeq(t, from[n], to[n])
        <4>1. e[n] = EndOf(s[n]) /\ from[n] = s[n] /\ to[n] = e[n] - 1
          BY <1>7, <1>10, <1>11
        <4> QED
          BY <4>1, Zenon
      <3> QED
        BY <3>1
    <2> HIDE DEF from, to
    <2> QED
      BY <1>3, <2>1 DEF Windows
  <1>13. ASSUME NEW j \in 1..last, NEW k \in 1..last, j < k
         PROVE  from[j] <= from[k] /\ to[j] <= to[k]
    <2>1. /\ s[j] \in Nat \ {0} /\ s[k] \in Nat \ {0} /\ s[j] <= s[k]
          /\ e[j] \in Int /\ e[k] \in Int /\ e[j] <= e[k]
      BY <1>1, <1>4, <1>5, <1>7, <1>10, <1>13
    <2>2. from[j] = s[j] /\ to[j] = e[j] - 1 /\ from[k] = s[k] /\ to[k] = e[k] - 1
      BY <1>11
    <2> HIDE DEF from, to
    <2> QED
      BY <2>1, <2>2
  <1>14. ASSUME NEW p \in 1..length PROVE \E n \in 1..last : p \in from[n]..to[n]
    <2> DEFINE over == {n \in 1..last : e[n] > p}
    <2>1. PICK n \in over : \A j \in over : n <= j
      <3>1. last \in over
        <4>1. e[last] \in Int /\ last \in 1..last
          BY <1>1, <1>7, <1>9
        <4> QED
          BY <1>1, <1>9, <4>1
      <3>2. over \subseteq Nat
        BY <1>10
      <3> HIDE DEF over
      <3> QED
        BY <3>1, <3>2, LeastNumber
    <2>2. n \in 1..last /\ e[n] > p
      BY <2>1
    <2>3. \A j \in 1..last : e[j] > p => n <= j
      BY <2>1
    <2> HIDE DEF over
    <2>4. n \in 1..length /\ s[n] \in Nat \ {0} /\ e[n] \in Int
      BY <1>1, <1>5, <1>7, <1>10, <2>2
    <2>5. s[n] <= p
      <3>1. CASE n = 1
        <4>1. s[1] = 1
          BY <1>3 DEF Starts
        <4> QED
          BY <1>1, <3>1, <4>1
      <3>2. CASE n # 1
        <4>1. n \in 2..length /\ n - 1 \in 1..last /\ n - 1 \in 1..length /\ ~(n <= n - 1)
          BY <1>1, <1>10, <2>2, <2>4, <3>2
        <4>2. s[n - 1] \in Nat \ {0} /\ ~(e[n - 1] > p)
          BY <1>5, <2>3, <4>1
        <4>3. /\ e[n - 1] \in 1..(length + 1)
              /\ s[n - 1] <= length => s[n - 1] < e[n - 1]
              /\ s[n - 1] > length => e[n - 1] = length + 1
          BY <1>7, <4>1
        <4>4. s[n - 1] < e[n - 1] /\ e[n - 1] <= p
          BY <1>1, <4>2, <4>3
        <4>5. s[n] <= e[n - 1] \/ s[n] = s[n - 1] + 1
          BY <1>8, <4>1
        <4> QED
          BY <1>1, <2>4, <4>2, <4>3, <4>4, <4>5
      <3> QED
        BY <3>1, <3>2
    <2>6. from[n] = s[n] /\ to[n] = e[n] - 1
      BY <1>11, <2>2
    <2> HIDE DEF from, to
    <2>7. p \in from[n]..to[n]
      BY <1>1, <2>2, <2>4, <2>5, <2>6
    <2> QED
      BY <2>2, <2>7
  <1>15. Slides(from, to, last, length)
    <2>1. from \in [1..last -> Nat \ {0}] /\ to \in [1..last -> 0..length]
      BY <1>11
    <2> HIDE DEF from, to
    <2> QED
      BY <1>13, <1>14, <2>1 DEF Slides
  <1>16. /\ Divided(texts, t) /\ Climbs(texts) /\ Len(texts) = last
         /\ \A k \in 1..last : texts[k] = SubSeq(t, from[k], to[k])
    <2>1. Slides(from, to, last, Len(t))
      BY <1>15 DEF length
    <2> HIDE DEF from, to
    <2>2. texts = Windows(t, from, to, last)
      OBVIOUS
    <2> HIDE DEF texts
    <2> QED
      BY <1>10, <2>1, <2>2, WindowsDivide
  <1>17. ASSUME NEW k \in 1..last PROVE Len(texts[k]) <= size
    <2>1. from[k] \in Nat \ {0} /\ to[k] \in 0..Len(t) /\ to[k] - from[k] + 1 <= size
      BY <1>11 DEF length
    <2> HIDE DEF from, to
    <2>2. Len(SubSeq(t, from[k], to[k])) = IF from[k] <= to[k] THEN to[k] - from[k] + 1 ELSE 0
      BY <2>1, Cut
    <2>3. Len(SubSeq(t, from[k], to[k])) <= size
      BY <2>1, <2>2
    <2> HIDE DEF texts
    <2> QED
      BY <1>16, <2>3
  <1> HIDE DEF texts
  <1> QED
    BY <1>12, <1>16, <1>17

-----------------------------------------------------------------------------
(* Texts in the order of the document, none longer than max, that hold     *)
(* nothing but P, and all of Q.                                            *)
Sound(texts, P, Q, max) ==
  /\ texts \in Seq(Seq(Nat)) /\ Climbs(texts)
  /\ \A n \in 1..Len(texts) : Words(texts[n]) \subseteq P /\ Len(texts[n]) <= max
  /\ \A x \in Q : \E n \in 1..Len(texts) : x \in Words(texts[n])

(* Sound texts may be of more lines, and one more text may follow.         *)
LEMMA SoundWidens ==
  ASSUME NEW texts, NEW P, NEW Q, NEW max, Sound(texts, P, Q, max), NEW T, P \subseteq T
  PROVE  Sound(texts, T, Q, max)
  BY DEF Sound

LEMMA SoundGrows ==
  ASSUME NEW texts, NEW P, NEW Q, NEW max, Sound(texts, P, Q, max),
         NEW u \in Seq(Nat), Words(u) \subseteq P, Len(u) <= max,
         \A n \in 1..Len(texts) : GoesBefore(texts[n], u)
  PROVE  Sound(Append(texts, u), P, Q \cup Words(u), max)
  <1> DEFINE more == Append(texts, u)
             m == Len(texts)
  <1>1. /\ texts \in Seq(Seq(Nat)) /\ Climbs(texts)
        /\ \A n \in 1..m : Words(texts[n]) \subseteq P /\ Len(texts[n]) <= max
        /\ \A x \in Q : \E n \in 1..m : x \in Words(texts[n])
    BY DEF Sound
  <1>2. /\ more \in Seq(Seq(Nat)) /\ m \in Nat /\ Len(more) = m + 1 /\ more[m + 1] = u
        /\ \A n \in 1..m : more[n] = texts[n]
    BY <1>1
  <1>3. \A n \in 1..m : GoesBefore(texts[n], u)
    OBVIOUS
  <1>4. \A j, k \in 1..m : j < k => GoesBefore(texts[j], texts[k])
    BY <1>1 DEF Climbs
  <1> HIDE DEF more, m
  <1>5. \A n \in 1..(m + 1) : n \in 1..m \/ n = m + 1
    BY <1>2
  <1>6. ASSUME NEW j \in 1..(m + 1), NEW k \in 1..(m + 1), j < k PROVE GoesBefore(more[j], more[k])
    <2>1. j \in 1..m
      BY <1>2, <1>6
    <2>2. CASE k \in 1..m
      BY <1>2, <1>4, <1>6, <2>1, <2>2
    <2>3. CASE k = m + 1
      BY <1>2, <1>3, <2>1, <2>3
    <2> QED
      BY <1>5, <2>2, <2>3
  <1>7. Climbs(more)
    BY <1>2, <1>6 DEF Climbs
  <1>8. \A n \in 1..(m + 1) : Words(more[n]) \subseteq P /\ Len(more[n]) <= max
    BY <1>1, <1>2, <1>5
  <1>9. ASSUME NEW x \in Q \cup Words(u) PROVE \E n \in 1..(m + 1) : x \in Words(more[n])
    <2>1. CASE x \in Q
      <3>1. PICK n \in 1..m : x \in Words(texts[n])
        BY <1>1, <2>1
      <3>2. n \in 1..(m + 1) /\ more[n] = texts[n]
        BY <1>2, <3>1
      <3> QED
        BY <3>1, <3>2
    <2>2. CASE x \in Words(u)
      <3>1. m + 1 \in 1..(m + 1)
        BY <1>2
      <3> QED
        BY <1>2, <2>2, <3>1
    <2> QED
      BY <2>1, <2>2
  <1>10. Sound(more, P, Q \cup Words(u), max)
    BY <1>2, <1>7, <1>8, <1>9 DEF Sound
  <1> QED
    BY <1>10 DEF more

(* What holds later lines only leads.                                      *)
LEMMA LaterLeads ==
  ASSUME NEW t, NEW u, NEW W, Before(Words(t), W), W \subseteq Words(u),
         Words(t) \subseteq Int, Words(u) \subseteq Int, Words(u) # {} => W # {}
  PROVE  GoesBefore(t, u)
  <1>1. SUFFICES ASSUME Words(u) # {}, NEW x \in Words(t) PROVE \E y \in Words(u) : x <= y
    BY DEF GoesBefore
  <1>2. PICK y \in W : TRUE
    BY <1>1
  <1>3. x < y /\ y \in Words(u) /\ x \in Int /\ y \in Int
    BY <1>1, <1>2 DEF Before
  <1>4. x <= y
    BY <1>3
  <1> QED
    BY <1>3, <1>4

LEMMA SoundJoins ==
  ASSUME NEW texts, NEW P, NEW Q, NEW max, Sound(texts, P, Q, max),
         NEW others, NEW U, NEW V, Sound(others, U, V, max), Before(P, U)
  PROVE  Sound(texts \o others, P \cup U, Q \cup V, max)
  <1> DEFINE more == texts \o others
             m == Len(texts)
             n == Len(others)
  <1>1. /\ texts \in Seq(Seq(Nat)) /\ Climbs(texts)
        /\ \A i \in 1..m : Words(texts[i]) \subseteq P /\ Len(texts[i]) <= max
        /\ \A x \in Q : \E i \in 1..m : x \in Words(texts[i])
    BY DEF Sound
  <1>2. /\ others \in Seq(Seq(Nat)) /\ Climbs(others)
        /\ \A i \in 1..n : Words(others[i]) \subseteq U /\ Len(others[i]) <= max
        /\ \A x \in V : \E i \in 1..n : x \in Words(others[i])
    BY DEF Sound
  <1>3. /\ more \in Seq(Seq(Nat)) /\ m \in Nat /\ n \in Nat /\ Len(more) = m + n
        /\ \A i \in 1..m : more[i] = texts[i]
        /\ \A i \in 1..n : more[m + i] = others[i]
    <2>1. /\ more \in Seq(Seq(Nat)) /\ Len(more) = Len(texts) + Len(others)
          /\ \A i \in 1..Len(texts) : more[i] = texts[i]
          /\ \A i \in 1..Len(others) : more[Len(texts) + i] = others[i]
      BY <1>1, <1>2, Joint
    <2>2. m \in Nat /\ n \in Nat
      BY <1>1, <1>2
    <2> QED
      BY <2>1, <2>2
  <1>4. /\ \A j, k \in 1..m : j < k => GoesBefore(texts[j], texts[k])
        /\ \A j, k \in 1..n : j < k => GoesBefore(others[j], others[k])
    BY <1>1, <1>2 DEF Climbs
  <1>5. /\ \A i \in 1..m : texts[i] \in Seq(Nat)
        /\ \A i \in 1..n : others[i] \in Seq(Nat)
    BY <1>1, <1>2
  <1> HIDE DEF more, m, n
  <1>6. ASSUME NEW i \in 1..(m + n) PROVE i \in 1..m \/ (i - m \in 1..n /\ more[i] = others[i - m])
    <2>1. i - m \in 1..n => m + (i - m) = i
      BY <1>3
    <2>2. i \in 1..m \/ i - m \in 1..n
      BY <1>3
    <2> QED
      BY <1>3, <2>1, <2>2
  <1>7. ASSUME NEW j \in 1..(m + n), NEW k \in 1..(m + n), j < k PROVE GoesBefore(more[j], more[k])
    <2>1. CASE k \in 1..m
      <3>1. j \in 1..m
        BY <1>3, <1>7, <2>1
      <3> QED
        BY <1>3, <1>4, <1>7, <2>1, <3>1
    <2>2. CASE k - m \in 1..n /\ more[k] = others[k - m]
      <3>1. CASE j \in 1..m
        <4>1. Words(texts[j]) \subseteq P /\ Words(others[k - m]) \subseteq U
          BY <1>1, <1>2, <2>2, <3>1
        <4>2. Words(texts[j]) \subseteq Int /\ Words(others[k - m]) \subseteq Int
          BY <1>5, <2>2, <3>1 DEF Words
        <4>3. Before(Words(texts[j]), Words(others[k - m]))
          BY <4>1 DEF Before
        <4>4. GoesBefore(texts[j], others[k - m])
          BY <4>2, <4>3, LaterLeads
        <4> QED
          BY <1>3, <2>2, <3>1, <4>4
      <3>2. CASE j - m \in 1..n /\ more[j] = others[j - m]
        <4>1. j - m < k - m
          BY <1>3, <1>7
        <4> QED
          BY <1>4, <2>2, <3>2, <4>1
      <3> QED
        BY <1>6, <3>1, <3>2
    <2> QED
      BY <1>6, <2>1, <2>2
  <1>8. Climbs(more)
    BY <1>3, <1>7 DEF Climbs
  <1>9. ASSUME NEW i \in 1..(m + n) PROVE Words(more[i]) \subseteq P \cup U /\ Len(more[i]) <= max
    BY <1>1, <1>2, <1>3, <1>6
  <1>10. ASSUME NEW x \in Q \cup V PROVE \E i \in 1..(m + n) : x \in Words(more[i])
    <2>1. CASE x \in Q
      <3>1. PICK i \in 1..m : x \in Words(texts[i])
        BY <1>1, <2>1 DEF m
      <3>2. i \in 1..(m + n) /\ more[i] = texts[i]
        BY <1>3, <3>1
      <3> QED
        BY <3>1, <3>2
    <2>2. CASE x \in V
      <3>1. PICK i \in 1..n : x \in Words(others[i])
        BY <1>2, <2>2 DEF n
      <3>2. m + i \in 1..(m + n) /\ more[m + i] = others[i]
        BY <1>3, <3>1
      <3> QED
        BY <3>1, <3>2
    <2> QED
      BY <2>1, <2>2
  <1>11. Sound(more, P \cup U, Q \cup V, max)
    BY <1>3, <1>8, <1>9, <1>10 DEF Sound
  <1> QED
    BY <1>11 DEF more

(* A last text that goes on with later lines.                              *)
LEMMA SoundGoesOn ==
  ASSUME NEW texts \in Seq(Seq(Nat)), NEW t \in Seq(Nat), NEW P, NEW Q, NEW max,
         Sound(Append(texts, t), P, Q, max), P \subseteq Int,
         NEW u \in Seq(Nat), NEW W, W # {}, Words(u) = Words(t) \cup W, Before(P, W), Len(u) <= max
  PROVE  Sound(Append(texts, u), P \cup W, Q \cup W, max)
  <1> DEFINE old == Append(texts, t)
             new == Append(texts, u)
             m == Len(texts)
  <1>1. /\ old \in Seq(Seq(Nat)) /\ m \in Nat /\ Len(old) = m + 1 /\ old[m + 1] = t
        /\ \A n \in 1..m : old[n] = texts[n]
    OBVIOUS
  <1>2. /\ new \in Seq(Seq(Nat)) /\ Len(new) = m + 1 /\ new[m + 1] = u
        /\ \A n \in 1..m : new[n] = texts[n]
    OBVIOUS
  <1>3. /\ Climbs(old)
        /\ \A n \in 1..(m + 1) : Words(old[n]) \subseteq P /\ Len(old[n]) <= max
        /\ \A x \in Q : \E n \in 1..(m + 1) : x \in Words(old[n])
    BY <1>1 DEF Sound
  <1>4. \A j, k \in 1..(m + 1) : j < k => GoesBefore(old[j], old[k])
    BY <1>1, <1>3 DEF Climbs
  <1>5. Words(u) \subseteq Int
    BY DEF Words
  <1> HIDE DEF old, new, m
  <1>6. m + 1 \in 1..(m + 1) /\ \A n \in 1..(m + 1) : n = m + 1 \/ (n \in 1..m /\ new[n] = old[n])
    <2>1. m \in Nat /\ \A n \in 1..m : new[n] = old[n]
      BY <1>1, <1>2
    <2>2. m + 1 \in 1..(m + 1) /\ \A n \in 1..(m + 1) : n = m + 1 \/ n \in 1..m
      BY <2>1
    <2> QED
      BY <2>1, <2>2
  <1>7. ASSUME NEW j \in 1..(m + 1), NEW k \in 1..(m + 1), j < k PROVE GoesBefore(new[j], new[k])
    <2>1. j \in 1..m /\ new[j] = old[j]
      BY <1>1, <1>6, <1>7
    <2>2. CASE k = m + 1
      <3>1. Words(old[j]) \subseteq P
        BY <1>3
      <3>2. Before(Words(old[j]), W) /\ W \subseteq Words(u) /\ Words(old[j]) \subseteq Int
        BY <3>1 DEF Before
      <3>3. GoesBefore(old[j], u)
        BY <1>5, <3>2, LaterLeads
      <3> QED
        BY <1>2, <2>1, <2>2, <3>3
    <2>3. CASE k \in 1..m /\ new[k] = old[k]
      BY <1>4, <1>7, <2>1, <2>3
    <2> QED
      BY <1>6, <2>2, <2>3
  <1>8. Climbs(new)
    BY <1>2, <1>7 DEF Climbs
  <1>9. Words(t) \subseteq P
    BY <1>1, <1>3, <1>6
  <1>10. ASSUME NEW n \in 1..(m + 1) PROVE Words(new[n]) \subseteq P \cup W /\ Len(new[n]) <= max
    BY <1>2, <1>3, <1>6, <1>9
  <1>11. ASSUME NEW x \in Q \cup W PROVE \E n \in 1..(m + 1) : x \in Words(new[n])
    <2>1. CASE x \in W
      BY <1>2, <1>6, <2>1
    <2>2. CASE x \in Q
      <3>1. PICK n \in 1..(m + 1) : x \in Words(old[n])
        BY <1>3, <2>2
      <3>2. CASE n = m + 1
        BY <1>1, <1>2, <1>6, <3>1, <3>2
      <3>3. CASE n \in 1..m /\ new[n] = old[n]
        BY <3>1, <3>3
      <3> QED
        BY <1>6, <3>2, <3>3
    <2> QED
      BY <2>1, <2>2
  <1>12. Sound(new, P \cup W, Q \cup W, max)
    BY <1>2, <1>8, <1>10, <1>11 DEF Sound
  <1> QED
    BY <1>12 DEF new

-----------------------------------------------------------------------------
(* The options that are admitted.                                          *)
Allowed(o) ==
  /\ o.parent \in Nat /\ o.target \in Nat /\ o.overlap \in Nat /\ o.preserve \in BOOLEAN
  /\ o.overlap < o.target /\ o.target <= o.parent

(* A child has room for its target, an overlap and a pair of fences.       *)
Room(o) == o.target + o.overlap + 2

(* A turn of _child_groups: what is put out so far, with what is buffered, *)
(* is sound, and what is buffered is as long as it is counted, but for the *)
(* fences of the tail it begins with.                                      *)
Chunked(acc, P, Q, o) ==
  /\ acc \in [out : Seq(Seq(Nat)), buffered : Seq(BlockType), tokens : Nat]
  /\ Rising(C!Text(acc.buffered))
  /\ Len(C!Text(acc.buffered)) <= acc.tokens + 2 /\ acc.tokens <= o.target + o.overlap
  /\ acc.buffered = <<>> => acc.tokens = 0
  /\ Sound(C!Flush(acc).out, P, Q, Room(o))

LEMMA NothingChunked ==
  ASSUME NEW o, Allowed(o)
  PROVE  Chunked([out |-> <<>>, buffered |-> <<>>, tokens |-> 0], {}, {}, o)
  <1> DEFINE acc == [out |-> <<>>, buffered |-> <<>>, tokens |-> 0]
  <1>1. acc \in [out : Seq(Seq(Nat)), buffered : Seq(BlockType), tokens : Nat]
    OBVIOUS
  <1>2. acc.buffered = <<>> /\ acc.tokens = 0 /\ acc.out = <<>>
    OBVIOUS
  <1>3. C!Flush(acc) = acc
    BY <1>2 DEF C!Flush
  <1> HIDE DEF acc
  <1>4. C!Text(acc.buffered) = <<>>
    BY <1>2, EmptyText
  <1>5. o.target \in Nat /\ o.overlap \in Nat
    BY DEF Allowed
  <1>6. Sound(<<>>, {}, {}, Room(o))
    BY DEF Sound, Climbs
  <1>7. Rising(C!Text(acc.buffered)) /\ Len(C!Text(acc.buffered)) = 0
    BY <1>4, NoText
  <1>8. Len(C!Text(acc.buffered)) <= acc.tokens + 2 /\ acc.tokens <= o.target + o.overlap
    BY <1>2, <1>5, <1>7
  <1>9. Sound(C!Flush(acc).out, {}, {}, Room(o))
    BY <1>2, <1>3, <1>6
  <1>10. Chunked(acc, {}, {}, o)
    BY <1>1, <1>2, <1>7, <1>8, <1>9, Zenon DEF Chunked
  <1> QED
    BY <1>10 DEF acc

(* Flushing keeps it, and leaves nothing buffered.                         *)
LEMMA FlushKeeps ==
  ASSUME NEW o, Allowed(o), NEW acc, NEW P, NEW Q, Chunked(acc, P, Q, o)
  PROVE  /\ Chunked(C!Flush(acc), P, Q, o)
         /\ C!Flush(acc).buffered = <<>> /\ C!Flush(acc).tokens = 0
         /\ C!Flush(acc).out \in Seq(Seq(Nat)) /\ Sound(C!Flush(acc).out, P, Q, Room(o))
         /\ C!Flush(acc) = [out |-> C!Flush(acc).out, buffered |-> <<>>, tokens |-> 0]
  <1> DEFINE new == C!Flush(acc)
             t == C!Text(acc.buffered)
  <1>1. /\ acc \in [out : Seq(Seq(Nat)), buffered : Seq(BlockType), tokens : Nat]
        /\ acc.buffered = <<>> => acc.tokens = 0
        /\ Sound(C!Flush(acc).out, P, Q, Room(o))
    BY DEF Chunked
  <1>2. t \in Seq(Nat)
    BY <1>1, TextHolds
  <1>3. new = IF acc.buffered = <<>> THEN acc
              ELSE [out |-> Append(acc.out, t), buffered |-> <<>>, tokens |-> 0]
    BY DEF C!Flush
  <1>4. /\ new \in [out : Seq(Seq(Nat)), buffered : Seq(BlockType), tokens : Nat]
        /\ new.buffered = <<>> /\ new.tokens = 0
    <2> HIDE DEF new, t
    <2>1. CASE acc.buffered = <<>>
      BY <1>1, <1>3, <2>1
    <2>2. CASE acc.buffered # <<>>
      <3>1. Append(acc.out, t) \in Seq(Seq(Nat)) /\ <<>> \in Seq(BlockType)
        BY <1>1, <1>2
      <3>2. new = [out |-> Append(acc.out, t), buffered |-> <<>>, tokens |-> 0]
        BY <1>3, <2>2
      <3> QED
        BY <3>1, <3>2
    <2> QED
      BY <2>1, <2>2
  <1>5. Sound(new.out, P, Q, Room(o))
    BY <1>1
  <1> HIDE DEF new
  <1>6. C!Flush(new) = new
    BY <1>4 DEF C!Flush
  <1>7. C!Text(new.buffered) = <<>>
    BY <1>4, EmptyText
  <1>8. Rising(C!Text(new.buffered)) /\ Len(C!Text(new.buffered)) = 0
    BY <1>7, NoText
  <1>9. Len(C!Text(new.buffered)) <= new.tokens + 2 /\ new.tokens <= o.target + o.overlap
    <2>1. o.target \in Nat /\ o.overlap \in Nat
      BY DEF Allowed
    <2> QED
      BY <1>4, <1>8, <2>1
  <1>10. Chunked(new, P, Q, o)
    BY <1>4, <1>5, <1>6, <1>8, <1>9, Zenon DEF Chunked
  <1>11. new = [out |-> new.out, buffered |-> <<>>, tokens |-> 0] /\ new.out \in Seq(Seq(Nat))
    BY <1>4
  <1> QED
    BY <1>4, <1>5, <1>10, <1>11 DEF new

(* One block of its own.                                                   *)
LEMMA TextOfOne ==
  ASSUME NEW b \in BlockType
  PROVE  <<b>> \in Seq(BlockType) /\ C!Text(<<b>>) = C!Render(b)
  <1>1. <<>> \in Seq(BlockType) /\ Append(<<>>, b) = <<b>> /\ <<b>> \in Seq(BlockType)
    OBVIOUS
  <1>2. C!Text(Append(<<>>, b)) = C!Text(<<>>) \o C!Render(b)
    BY <1>1, TextGrows
  <1>3. C!Render(b) \in Seq(Nat)
    BY RenderAddsMarks
  <1>4. <<>> \o C!Render(b) = C!Render(b)
    BY <1>3, NoneFirst
  <1> QED
    BY <1>1, <1>2, <1>4, EmptyText, Zenon

-----------------------------------------------------------------------------
(* What needs to be held may be less.                                      *)
LEMMA SoundNarrows ==
  ASSUME NEW texts, NEW P, NEW Q, NEW max, Sound(texts, P, Q, max), NEW V, V \subseteq Q
  PROVE  Sound(texts, P, V, max)
  BY DEF Sound

LEMMA SameWordsLead ==
  ASSUME NEW s, NEW t, NEW u, GoesBefore(s, t), Words(u) = Words(t)
  PROVE  GoesBefore(s, u)
  BY DEF GoesBefore

(* The tail that is kept.                                                  *)
LEMMA TailIsCut ==
  ASSUME NEW t \in Seq(Nat), Rising(t), NEW overlap \in Nat, overlap # 0,
         NEW tail, tail = SubSeq(t, C!Max({1, Len(t) - overlap + 1}), Len(t))
  PROVE  /\ tail \in Seq(Nat) /\ Rising(tail) /\ Len(tail) <= overlap
         /\ Words(tail) \subseteq Words(t)
         /\ \A s : GoesBefore(s, t) /\ Words(s) \subseteq Nat => GoesBefore(s, tail)
  <1>1. Len(t) \in Nat /\ Len(t) - overlap + 1 \in Int /\ 1 \in Int /\ Len(t) \in 0..Len(t)
    OBVIOUS
  <1>2. PICK a \in Nat \ {0} : a = C!Max({1, Len(t) - overlap + 1}) /\ a >= Len(t) - overlap + 1
    <2>1. PICK y \in Int : y = Len(t) - overlap + 1
      BY <1>1
    <2>2. C!Max({1, y}) = IF 1 >= y THEN 1 ELSE y
      BY <1>1, <2>1, MaxOfTwo
    <2>3. PICK a \in Nat \ {0} : a = C!Max({1, y}) /\ a >= y
      BY <2>1, <2>2
    <2> QED
      BY <2>1, <2>3
  <1>3. tail = SubSeq(t, a, Len(t))
    BY <1>2
  <1>4. /\ tail \in Seq(Nat) /\ Len(tail) = IF a <= Len(t) THEN Len(t) - a + 1 ELSE 0
    <2>1. PICK b \in 0..Len(t) : b = Len(t)
      BY <1>1
    <2>2. /\ SubSeq(t, a, b) \in Seq(Nat)
          /\ Len(SubSeq(t, a, b)) = IF a <= b THEN b - a + 1 ELSE 0
      BY Cut
    <2>3. tail = SubSeq(t, a, b)
      BY <1>3, <2>1, Zenon
    <2> QED
      BY <2>1, <2>2, <2>3, Zenon
  <1>5. Rising(tail)
    BY <1>1, <1>3, CutRises
  <1>6. Len(tail) <= overlap
    BY <1>1, <1>2, <1>4
  <1>7. ASSUME NEW x \in Words(tail) PROVE x \in Words(t)
    <2>1. x \in Words(SubSeq(t, a, Len(t)))
      BY <1>3, <1>7
    <2>2. PICK p \in a..Len(t) : x = t[p] /\ x # 0
      BY <1>1, <2>1, CutWords
    <2>3. p \in 1..Len(t)
      BY <1>1, <2>2
    <2> QED
      BY <2>2, <2>3 DEF Words
  <1>8. ASSUME NEW s, GoesBefore(s, t), Words(s) \subseteq Nat PROVE GoesBefore(s, tail)
    BY <1>3, <1>8, TailLeads
  <1> QED
    BY <1>4, <1>5, <1>6, <1>7, <1>8

(* FlushKeepingTail keeps it: the tail was put out already.                *)
LEMMA TailKept ==
  ASSUME NEW o, Allowed(o), NEW acc, NEW P, P \subseteq Nat, NEW Q, Chunked(acc, P, Q, o),
         acc.buffered # <<>>
  PROVE  /\ Chunked(C!FlushKeepingTail(acc, o.overlap), P, Q, o)
         /\ C!FlushKeepingTail(acc, o.overlap).tokens <= o.overlap
  <1> DEFINE new == C!FlushKeepingTail(acc, o.overlap)
             flushed == C!Flush(acc)
             t == C!Text(acc.buffered)
             tail == SubSeq(t, C!Max({1, Len(t) - o.overlap + 1}), Len(t))
             b == [C!Last(acc.buffered) EXCEPT !.tokens = tail]
  <1>1. /\ acc \in [out : Seq(Seq(Nat)), buffered : Seq(BlockType), tokens : Nat]
        /\ Rising(t)
    BY DEF Chunked
  <1>2. t \in Seq(Nat)
    BY <1>1, TextHolds
  <1>3. o.overlap \in Nat /\ o.target \in Nat
    BY DEF Allowed
  <1>4. /\ Chunked(flushed, P, Q, o) /\ flushed.tokens = 0
        /\ flushed.out \in Seq(Seq(Nat)) /\ Sound(flushed.out, P, Q, Room(o))
        /\ flushed = [out |-> flushed.out, buffered |-> <<>>, tokens |-> 0]
    BY FlushKeeps
  <1>5. CASE o.overlap = 0
    <2>1. new = flushed
      BY <1>5 DEF C!FlushKeepingTail
    <2> HIDE DEF new, flushed
    <2>2. Chunked(new, P, Q, o) /\ new.tokens <= o.overlap
      BY <1>4, <1>5, <2>1
    <2> QED
      BY <2>2 DEF new
  <1>6. CASE o.overlap # 0
    <2>1. new = [flushed EXCEPT !.buffered = <<b>>, !.tokens = Len(tail)]
      BY <1>6 DEF C!FlushKeepingTail
    <2>2. /\ tail \in Seq(Nat) /\ Rising(tail) /\ Len(tail) <= o.overlap
          /\ Words(tail) \subseteq Words(t)
          /\ \A s : GoesBefore(s, t) /\ Words(s) \subseteq Nat => GoesBefore(s, tail)
      <3> HIDE DEF t
      <3> QED
        BY <1>1, <1>2, <1>3, <1>6, TailIsCut
    <2>3. flushed.out = Append(acc.out, t)
      BY DEF C!Flush
    <2> HIDE DEF tail, t, flushed
    <2>4. b \in BlockType /\ b.tokens = tail
      <3>1. C!Last(acc.buffered) \in BlockType
        <4>1. acc.buffered \in Seq(BlockType) /\ Len(acc.buffered) \in 1..Len(acc.buffered)
          BY <1>1
        <4> QED
          BY <4>1 DEF C!Last
      <3>2. PICK l \in BlockType : l = C!Last(acc.buffered)
        BY <3>1
      <3>3. b = [l EXCEPT !.tokens = tail]
        BY <3>2
      <3>4. [l EXCEPT !.tokens = tail] \in BlockType /\ [l EXCEPT !.tokens = tail].tokens = tail
        BY <2>2 DEF BlockType
      <3> QED
        BY <3>3, <3>4, Zenon
    <2> HIDE DEF b
    <2>5. /\ new = [out |-> flushed.out, buffered |-> <<b>>, tokens |-> Len(tail)]
      BY <1>4, <2>1
    <2> DEFINE u == C!Render(b)
    <2>6. /\ u \in Seq(Nat) /\ Words(u) = Words(tail) /\ Rising(u) /\ Len(u) <= Len(tail) + 2
      <3>1. /\ u \in Seq(Nat) /\ Words(u) = Words(b.tokens)
            /\ Len(u) \in Len(b.tokens)..(Len(b.tokens) + 2)
            /\ Rising(b.tokens) => Rising(u)
        BY <2>4, RenderAddsMarks
      <3>2. Len(tail) \in Nat
        BY <2>2
      <3> HIDE DEF u
      <3> QED
        BY <2>2, <2>4, <3>1, <3>2
    <2>7. <<b>> \in Seq(BlockType) /\ C!Text(<<b>>) = u
      BY <2>4, TextOfOne
    <2> HIDE DEF new, u
    <2>8. /\ new \in [out : Seq(Seq(Nat)), buffered : Seq(BlockType), tokens : Nat]
          /\ new.out = flushed.out /\ new.buffered = <<b>> /\ new.tokens = Len(tail)
      <3>1. Len(tail) \in Nat
        BY <2>2
      <3>2. PICK bs \in Seq(BlockType) : bs = <<b>>
        BY <2>7
      <3>3. new = [out |-> flushed.out, buffered |-> bs, tokens |-> Len(tail)]
        BY <2>5, <3>2
      <3> QED
        BY <1>4, <3>1, <3>2, <3>3
    <2>9. C!Flush(new).out = Append(flushed.out, u)
      <3>1. new.buffered # <<>>
        BY <2>8
      <3> QED
        BY <2>7, <2>8, <3>1 DEF C!Flush
    <2>10. ASSUME NEW n \in 1..Len(flushed.out) PROVE GoesBefore(flushed.out[n], u)
      <3>1. /\ acc.out \in Seq(Seq(Nat)) /\ Len(acc.out) \in Nat
            /\ Len(flushed.out) = Len(acc.out) + 1 /\ flushed.out[Len(acc.out) + 1] = t
        BY <1>1, <1>2, <2>3
      <3>2. \A j, k \in 1..Len(flushed.out) : j < k => GoesBefore(flushed.out[j], flushed.out[k])
        BY <1>4 DEF Sound, Climbs
      <3>3. Words(flushed.out[n]) \subseteq Nat
        BY <1>4 DEF Sound
      <3>4. GoesBefore(flushed.out[n], t)
        <4>1. CASE n = Len(acc.out) + 1
          <5>1. GoesBefore(t, t)
            <6>1. \A x \in Words(t) : x \in Nat /\ x <= x
              BY <1>2 DEF Words
            <6> QED
              BY <6>1 DEF GoesBefore
          <5> QED
            BY <3>1, <4>1, <5>1
        <4>2. CASE n # Len(acc.out) + 1
          <5>1. n < Len(acc.out) + 1 /\ Len(acc.out) + 1 \in 1..Len(flushed.out)
            BY <3>1, <4>2
          <5> QED
            BY <3>1, <3>2, <5>1
        <4> QED
          BY <4>1, <4>2
      <3>5. GoesBefore(flushed.out[n], tail)
        BY <2>2, <3>3, <3>4
      <3> QED
        BY <2>6, <3>5, SameWordsLead
    <2>11. Words(t) \subseteq P
      <3>1. Len(flushed.out) \in 1..Len(flushed.out) /\ flushed.out[Len(flushed.out)] = t
        BY <1>1, <1>2, <2>3
      <3> QED
        BY <1>4, <3>1 DEF Sound
    <2>12. Len(u) <= Room(o)
      <3>1. Len(u) \in Nat /\ Len(tail) \in Nat
        BY <2>2, <2>6
      <3> QED
        BY <1>3, <2>2, <2>6, <3>1 DEF Room
    <2>13. Sound(Append(flushed.out, u), P, Q \cup Words(u), Room(o))
      <3>1. Words(u) \subseteq P
        BY <2>2, <2>6, <2>11
      <3> QED
        BY <1>4, <2>6, <2>10, <2>12, <3>1, SoundGrows
    <2>14. Sound(C!Flush(new).out, P, Q, Room(o))
      <3>1. Q \subseteq Q \cup Words(u)
        OBVIOUS
      <3>2. Sound(Append(flushed.out, u), P, Q, Room(o))
        BY <2>13, <3>1, SoundNarrows
      <3> QED
        BY <2>9, <3>2
    <2>15. /\ Len(C!Text(new.buffered)) <= new.tokens + 2 /\ new.tokens <= o.target + o.overlap
           /\ Rising(C!Text(new.buffered)) /\ new.buffered # <<>> /\ new.tokens <= o.overlap
      <3>1. C!Text(new.buffered) = u /\ new.tokens = Len(tail) /\ new.buffered # <<>>
        BY <2>7, <2>8
      <3>2. Len(tail) \in Nat
        BY <2>2
      <3> QED
        BY <1>3, <2>2, <2>6, <3>1, <3>2
    <2>16. Chunked(new, P, Q, o)
      BY <2>8, <2>14, <2>15, Zenon DEF Chunked
    <2> QED
      BY <2>15, <2>16 DEF new
  <1> QED
    BY <1>5, <1>6

-----------------------------------------------------------------------------
(* What is buffered is of what has been read.                              *)
LEMMA BufferedText ==
  ASSUME NEW o, Allowed(o), NEW acc, NEW P, NEW Q, Chunked(acc, P, Q, o),
         NEW t, t = C!Text(acc.buffered)
  PROVE  /\ t \in Seq(Nat) /\ Words(t) \subseteq P /\ Rising(t)
         /\ acc.out \in Seq(Seq(Nat)) /\ acc.buffered \in Seq(BlockType) /\ acc.tokens \in Nat
         /\ acc.buffered = <<>> => t = <<>> /\ C!Flush(acc).out = acc.out
         /\ acc.buffered # <<>> => C!Flush(acc).out = Append(acc.out, t)
  <1>1. /\ acc \in [out : Seq(Seq(Nat)), buffered : Seq(BlockType), tokens : Nat]
        /\ Rising(t) /\ Sound(C!Flush(acc).out, P, Q, Room(o))
    BY DEF Chunked
  <1>2. t \in Seq(Nat)
    BY <1>1, TextHolds
  <1>3. CASE acc.buffered = <<>>
    <2>1. t = <<>>
      BY <1>3, EmptyText
    <2>2. C!Flush(acc) = acc
      BY <1>3 DEF C!Flush
    <2> QED
      BY <1>1, <1>2, <1>3, <2>1, <2>2, NoText
  <1>4. CASE acc.buffered # <<>>
    <2>1. C!Flush(acc).out = Append(acc.out, t)
      BY <1>4 DEF C!Flush
    <2>2. Words(t) \subseteq P
      <3>1. Sound(Append(acc.out, t), P, Q, Room(o))
        BY <1>1, <2>1
      <3>2. /\ Len(acc.out) + 1 \in 1..Len(Append(acc.out, t))
            /\ Append(acc.out, t)[Len(acc.out) + 1] = t
        BY <1>1, <1>2
      <3> QED
        BY <3>1, <3>2 DEF Sound
    <2> QED
      BY <1>1, <1>2, <1>4, <2>1, <2>2
  <1> QED
    BY <1>3, <1>4

(* There is room for a block that is not too long.                         *)
LEMMA RoomIsMade ==
  ASSUME NEW o, Allowed(o), NEW acc, NEW P, P \subseteq Nat, NEW Q, Chunked(acc, P, Q, o),
         NEW b \in BlockType
  PROVE  /\ Chunked(C!MakeRoom(acc, b, o), P, Q, o)
         /\ Len(C!Render(b)) <= o.target =>
              C!MakeRoom(acc, b, o).tokens + Len(C!Render(b)) <= o.target + o.overlap
  <1> DEFINE room == C!MakeRoom(acc, b, o)
             kept == C!FlushKeepingTail(acc, o.overlap)
             n == Len(C!Render(b))
  <1>1. n \in Nat /\ o.target \in Nat /\ o.overlap \in Nat
    <2>1. C!Render(b) \in Seq(Nat)
      BY RenderAddsMarks
    <2> QED
      BY <2>1 DEF Allowed
  <1>2. acc.tokens \in Nat /\ (acc.buffered = <<>> => acc.tokens = 0)
    BY DEF Chunked
  <1>3. CASE acc.buffered # <<>> /\ acc.tokens + n > o.target
    <2>1. room = kept
      BY <1>3 DEF C!MakeRoom
    <2>2. Chunked(kept, P, Q, o) /\ kept.tokens <= o.overlap
      BY <1>3, TailKept
    <2>3. kept.tokens \in Nat
      BY <2>2 DEF Chunked
    <2> HIDE DEF room, kept, n
    <2>4. Chunked(room, P, Q, o) /\ (n <= o.target => room.tokens + n <= o.target + o.overlap)
      BY <1>1, <2>1, <2>2, <2>3
    <2> QED
      BY <2>4 DEF room, n
  <1>4. CASE ~(acc.buffered # <<>> /\ acc.tokens + n > o.target)
    <2>1. room = acc
      BY <1>4 DEF C!MakeRoom
    <2> HIDE DEF room, n
    <2>2. Chunked(room, P, Q, o) /\ (n <= o.target => room.tokens + n <= o.target + o.overlap)
      BY <1>1, <1>2, <1>4, <2>1
    <2> QED
      BY <2>2 DEF room, n
  <1> QED
    BY <1>3, <1>4

(* What _child_groups carries from one block to the next.                  *)
LEMMA TurnIs ==
  ASSUME NEW out \in Seq(Seq(Nat)), NEW bs \in Seq(BlockType), NEW n \in Nat,
         NEW acc, acc = [out |-> out, buffered |-> bs, tokens |-> n]
  PROVE  /\ acc \in [out : Seq(Seq(Nat)), buffered : Seq(BlockType), tokens : Nat]
         /\ acc.out = out /\ acc.buffered = bs /\ acc.tokens = n
  OBVIOUS

(* Sound texts with nothing buffered.                                      *)
LEMMA NothingBuffered ==
  ASSUME NEW o, Allowed(o), NEW P, NEW Q, NEW out, Sound(out, P, Q, Room(o))
  PROVE  Chunked([out |-> out, buffered |-> <<>>, tokens |-> 0], P, Q, o)
  <1>1. out \in Seq(Seq(Nat)) /\ <<>> \in Seq(BlockType) /\ 0 \in Nat
    BY DEF Sound
  <1> DEFINE acc == [out |-> out, buffered |-> <<>>, tokens |-> 0]
  <1>2. /\ acc \in [out : Seq(Seq(Nat)), buffered : Seq(BlockType), tokens : Nat]
        /\ acc.out = out /\ acc.buffered = <<>> /\ acc.tokens = 0
    BY <1>1, TurnIs
  <1> HIDE DEF acc
  <1>3. C!Flush(acc) = acc
    BY <1>2 DEF C!Flush
  <1>4. C!Text(acc.buffered) = <<>>
    BY <1>2, EmptyText
  <1>5. Rising(C!Text(acc.buffered)) /\ Len(C!Text(acc.buffered)) = 0
    BY <1>4, NoText
  <1>6. Len(C!Text(acc.buffered)) <= acc.tokens + 2 /\ acc.tokens <= o.target + o.overlap
    <2>1. o.target \in Nat /\ o.overlap \in Nat
      BY DEF Allowed
    <2> QED
      BY <1>2, <1>5, <2>1
  <1>7. Sound(C!Flush(acc).out, P, Q, Room(o))
    BY <1>2, <1>3
  <1>8. Chunked(acc, P, Q, o)
    BY <1>2, <1>5, <1>6, <1>7, Zenon DEF Chunked
  <1> QED
    BY <1>8 DEF acc

(* A text that is split on its own.                                        *)
LEMMA PartsFollow ==
  ASSUME NEW o, Allowed(o), NEW acc, NEW P, NEW Q, Chunked(acc, P, Q, o), NEW text \in Seq(Nat),
         Rising(text), Before(P, Words(text)),
         NEW new, new = [C!Flush(acc) EXCEPT !.out = @ \o C!Split(text, o.target, o.overlap)]
  PROVE  Chunked(new, P \cup Words(text), Q \cup Words(text), o)
  <1> DEFINE f == C!Flush(acc)
             parts == C!Split(text, o.target, o.overlap)
             W == Words(text)
  <1>1. /\ f.out \in Seq(Seq(Nat)) /\ Sound(f.out, P, Q, Room(o))
        /\ f = [out |-> f.out, buffered |-> <<>>, tokens |-> 0]
    BY FlushKeeps
  <1>2. o.target \in Nat /\ o.overlap \in Nat /\ o.overlap < o.target
    BY DEF Allowed
  <1>3. Divided(parts, text) /\ Climbs(parts) /\ \A n \in 1..Len(parts) : Len(parts[n]) <= o.target
    BY <1>2, SplitDivides
  <1> HIDE DEF f, parts
  <1>4. Sound(parts, W, W, Room(o))
    <2>1. ASSUME NEW n \in 1..Len(parts) PROVE Len(parts[n]) <= Room(o)
      <3>1. parts[n] \in Seq(Nat) /\ Len(parts[n]) \in Nat /\ Len(parts[n]) <= o.target
        BY <1>3, <2>1 DEF Divided
      <3> QED
        BY <1>2, <3>1 DEF Room
    <2> QED
      BY <1>3, <2>1 DEF Sound, Divided
  <1>5. Sound(f.out \o parts, P \cup W, Q \cup W, Room(o))
    BY <1>1, <1>4, SoundJoins
  <1>6. PICK out \in Seq(Seq(Nat)) : out = f.out \o parts
    BY <1>5 DEF Sound
  <1>7. new = [f EXCEPT !.out = out]
    <2>1. new = [f EXCEPT !.out = f.out \o parts]
      BY DEF f, parts
    <2> QED
      BY <1>6, <2>1, Zenon
  <1>8. PICK none : none = <<>>
    OBVIOUS
  <1>9. new = [out |-> out, buffered |-> none, tokens |-> 0]
    <2>1. f = [out |-> f.out, buffered |-> none, tokens |-> 0]
      BY <1>1, <1>8, Zenon
    <2>2. PICK old : old = f.out
      OBVIOUS
    <2>3. f = [out |-> old, buffered |-> none, tokens |-> 0]
      BY <2>1, <2>2, Zenon
    <2> QED
      BY <1>7, <2>3
  <1>10. new = [out |-> out, buffered |-> <<>>, tokens |-> 0]
    BY <1>8, <1>9, Zenon
  <1>11. Sound(out, P \cup W, Q \cup W, Room(o))
    BY <1>5, <1>6, Zenon
  <1> HIDE DEF W
  <1>12. Chunked([out |-> out, buffered |-> <<>>, tokens |-> 0], P \cup W, Q \cup W, o)
    BY <1>11, NothingBuffered
  <1>13. Chunked(new, P \cup W, Q \cup W, o)
    BY <1>10, <1>12, Zenon
  <1> QED
    BY <1>13 DEF W

-----------------------------------------------------------------------------
(* A sequence and one more element.                                        *)
LEMMA OneLonger ==
  ASSUME NEW X, NEW s \in Seq(X), NEW x \in X
  PROVE  Append(s, x) \in Seq(X) /\ Len(Append(s, x)) = Len(s) + 1
  OBVIOUS

(* A block that joins what is buffered.                                    *)
LEMMA BlockJoins ==
  ASSUME NEW o, Allowed(o), NEW acc, NEW P, P \subseteq Nat, NEW Q, Chunked(acc, P, Q, o),
         NEW b \in BlockType, Rising(b.tokens), Words(b.tokens) # {}, Before(P, Words(b.tokens)),
         acc.tokens + Len(C!Render(b)) <= o.target + o.overlap,
         NEW new, new = [acc EXCEPT !.buffered = Append(@, b), !.tokens = @ + Len(C!Render(b))]
  PROVE  Chunked(new, P \cup Words(b.tokens), Q \cup Words(b.tokens), o)
  <1>1. PICK text \in Seq(Nat) : text = C!Render(b)
    BY RenderAddsMarks
  <1>2. /\ Words(text) = Words(b.tokens) /\ Rising(text)
    BY <1>1, RenderAddsMarks
  <1>3. PICK W : W = Words(b.tokens)
    OBVIOUS
  <1>4. PICK t : t = C!Text(acc.buffered)
    OBVIOUS
  <1>5. /\ t \in Seq(Nat) /\ Words(t) \subseteq P /\ Rising(t)
        /\ acc.out \in Seq(Seq(Nat)) /\ acc.buffered \in Seq(BlockType) /\ acc.tokens \in Nat
        /\ acc.buffered = <<>> => t = <<>> /\ C!Flush(acc).out = acc.out
        /\ acc.buffered # <<>> => C!Flush(acc).out = Append(acc.out, t)
    BY <1>4, BufferedText
  <1>6. /\ acc \in [out : Seq(Seq(Nat)), buffered : Seq(BlockType), tokens : Nat]
        /\ Len(t) <= acc.tokens + 2 /\ Sound(C!Flush(acc).out, P, Q, Room(o))
    BY <1>4 DEF Chunked
  <1>7. o.target \in Nat /\ o.overlap \in Nat
    BY DEF Allowed
  <1>8. PICK all \in Seq(BlockType) : all = Append(acc.buffered, b)
    <2>1. PICK old \in Seq(BlockType) : old = acc.buffered
      BY <1>5
    <2>2. Append(old, b) \in Seq(BlockType)
      BY OneLonger
    <2> QED
      BY <2>1, <2>2, Zenon
  <1>9. PICK count \in Nat : count = acc.tokens /\ Len(text) \in Nat
    BY <1>1, <1>5
  <1>9a. PICK n \in Nat : n = count + Len(text)
    BY <1>9
  <1>10. PICK out \in Seq(Seq(Nat)) : out = acc.out
    BY <1>5
  <1>11. new = [out |-> out, buffered |-> all, tokens |-> n]
    <2>1. new = [acc EXCEPT !.buffered = Append(acc.buffered, b),
                            !.tokens = acc.tokens + Len(C!Render(b))]
      OBVIOUS
    <2>2. new = [acc EXCEPT !.buffered = all, !.tokens = n]
      BY <1>1, <1>8, <1>9, <1>9a, <2>1, Zenon
    <2> QED
      BY <1>6, <1>10, <2>2
  <1>12. /\ new \in [out : Seq(Seq(Nat)), buffered : Seq(BlockType), tokens : Nat]
         /\ new.out = out /\ new.buffered = all /\ new.tokens = n
    <2> DEFINE turn == [out |-> out, buffered |-> all, tokens |-> n]
    <2>1. /\ turn \in [out : Seq(Seq(Nat)), buffered : Seq(BlockType), tokens : Nat]
          /\ turn.out = out /\ turn.buffered = all /\ turn.tokens = n
      BY TurnIs
    <2>2. new = turn
      BY <1>11
    <2> HIDE DEF turn
    <2> QED
      BY <2>1, <2>2, Zenon
  <1>13. all # <<>>
    <2>1. Len(all) = Len(acc.buffered) + 1 /\ Len(acc.buffered) \in Nat
      BY <1>5, <1>8
    <2>2. Len(all) # 0
      BY <2>1
    <2>3. ASSUME all = <<>> PROVE Len(all) = 0
      BY <2>3
    <2> QED
      BY <2>2, <2>3
  <1>14. PICK u \in Seq(Nat) : u = t \o text
    BY <1>1, <1>5, Joint
  <1>15. C!Text(all) = u
    BY <1>1, <1>4, <1>5, <1>8, <1>14, TextGrows
  <1>16. Words(u) = Words(t) \cup W
    BY <1>2, <1>3, <1>5, <1>14, JointWords
  <1>17. W \subseteq Nat /\ W # {} /\ Before(P, W)
    <2>1. \A i \in 1..Len(text) : text[i] \in Nat
      BY <1>1
    <2>2. Words(text) \subseteq Nat
      BY <2>1 DEF Words
    <2>3. W \subseteq Nat
      BY <1>2, <1>3, <2>2
    <2> QED
      BY <1>3, <2>3
  <1>18. Rising(u)
    <2>1. \A x \in Words(t), y \in Words(text) : x <= y
      <3>1. \A x \in P, y \in W : x < y /\ x \in Nat /\ y \in Nat
        BY <1>17 DEF Before
      <3> QED
        BY <1>2, <1>3, <1>5, <3>1
    <2> QED
      BY <1>2, <1>5, <1>14, <2>1, JointRises
  <1>19. Len(u) <= n + 2 /\ n <= o.target + o.overlap /\ Len(u) <= Room(o)
    <2>1. Len(u) = Len(t) + Len(text) /\ Len(t) \in Nat /\ Len(text) \in Nat
      BY <1>5, <1>14, Joint
    <2>2. count + Len(text) <= o.target + o.overlap /\ Len(t) <= count + 2
      BY <1>1, <1>6, <1>9
    <2>3. /\ n <= o.target + o.overlap
          /\ Len(u) <= n + 2
      BY <1>7, <1>9, <1>9a, <2>1, <2>2
    <2>4. Room(o) = o.target + o.overlap + 2
      BY DEF Room
    <2>5. PICK p \in Nat, q \in Nat : p = o.target /\ q = o.overlap
      BY <1>7
    <2>6. n <= p + q /\ Room(o) = p + q + 2
      BY <2>3, <2>4, <2>5
    <2>7. PICK m \in Nat : m = Len(u)
      BY <1>14
    <2> QED
      BY <1>9a, <2>3, <2>6, <2>7
  <1>20. C!Flush(new).out = Append(out, u)
    <2>1. new.buffered # <<>>
      BY <1>12, <1>13
    <2> QED
      BY <1>12, <1>15, <2>1 DEF C!Flush
  <1>21. Sound(Append(out, u), P \cup W, Q \cup W, Room(o))
    <2>1. CASE acc.buffered # <<>>
      <3>1. Sound(Append(out, t), P, Q, Room(o))
        BY <1>5, <1>6, <1>10, <2>1
      <3>2. P \subseteq Int
        OBVIOUS
      <3> QED
        BY <1>5, <1>16, <1>17, <1>19, <3>1, <3>2, SoundGoesOn
    <2>2. CASE acc.buffered = <<>>
      <3>1. Sound(out, P, Q, Room(o))
        BY <1>5, <1>6, <1>10, <2>2
      <3>2. Words(t) = {}
        BY <1>5, <2>2, NoText
      <3>3. Words(u) = W
        BY <1>16, <3>2
      <3>4. Sound(out, P \cup W, Q, Room(o))
        BY <3>1, SoundWidens
      <3>5. ASSUME NEW k \in 1..Len(out) PROVE GoesBefore(out[k], u)
        <4>1. Words(out[k]) \subseteq P
          BY <3>1 DEF Sound
        <4>2. Before(Words(out[k]), W)
          BY <1>17, <4>1 DEF Before
        <4>3. Words(out[k]) \subseteq Int /\ Words(u) \subseteq Int /\ W \subseteq Words(u)
          BY <1>17, <3>3, <4>1
        <4> QED
          BY <1>17, <4>2, <4>3, LaterLeads
      <3>6. Words(u) \subseteq P \cup W
        BY <3>3
      <3>7. Sound(Append(out, u), P \cup W, Q \cup Words(u), Room(o))
        BY <1>19, <3>4, <3>5, <3>6, SoundGrows
      <3> QED
        BY <3>3, <3>7
    <2> QED
      BY <2>1, <2>2
  <1>22. Sound(C!Flush(new).out, P \cup W, Q \cup W, Room(o))
    BY <1>20, <1>21
  <1>23. /\ Rising(C!Text(new.buffered)) /\ Len(C!Text(new.buffered)) <= new.tokens + 2
         /\ new.tokens <= o.target + o.overlap /\ new.buffered # <<>>
    BY <1>12, <1>13, <1>15, <1>18, <1>19
  <1>24. Chunked(new, P \cup W, Q \cup W, o)
    BY <1>12, <1>22, <1>23, Zenon DEF Chunked
  <1> QED
    BY <1>3, <1>24

(* A turn of _child_groups.                                                *)
LEMMA TurnKeeps ==
  ASSUME NEW o, Allowed(o), NEW acc, NEW P, P \subseteq Nat, NEW Q, Chunked(acc, P, Q, o),
         NEW b \in BlockType, Rising(b.tokens), Words(b.tokens) # {}, Before(P, Words(b.tokens))
  PROVE  Chunked(C!ChunkNext(acc, b, o), P \cup Words(b.tokens),
                 IF b.type = "HEADING" THEN Q ELSE Q \cup Words(b.tokens), o)
  <1> DEFINE new == C!ChunkNext(acc, b, o)
             W == Words(b.tokens)
             text == C!Render(b)
             atomic == (b.type = "TABLE" \/ b.type = "CODE") /\ o.preserve
             ready == IF atomic THEN C!Flush(acc) ELSE C!MakeRoom(acc, b, o)
  <1>1. text \in Seq(Nat) /\ Words(text) = W /\ Rising(text)
    BY RenderAddsMarks
  <1>2. CASE b.type = "HEADING"
    <2>1. new = acc
      BY <1>2 DEF C!ChunkNext
    <2>2. /\ acc \in [out : Seq(Seq(Nat)), buffered : Seq(BlockType), tokens : Nat]
          /\ Rising(C!Text(acc.buffered))
          /\ Len(C!Text(acc.buffered)) <= acc.tokens + 2 /\ acc.tokens <= o.target + o.overlap
          /\ acc.buffered = <<>> => acc.tokens = 0
          /\ Sound(C!Flush(acc).out, P, Q, Room(o))
      BY DEF Chunked
    <2> HIDE DEF W
    <2>3. Sound(C!Flush(acc).out, P \cup W, Q, Room(o))
      BY <2>2, SoundWidens
    <2>4. Chunked(acc, P \cup W, Q, o)
      BY <2>2, <2>3, Zenon DEF Chunked
    <2> HIDE DEF new
    <2>5. Chunked(new, P \cup W, IF b.type = "HEADING" THEN Q ELSE Q \cup W, o)
      BY <1>2, <2>1, <2>4
    <2> QED
      BY <2>5 DEF new, W
  <1>3. Chunked(ready, P, Q, o) /\ (~atomic => ready = C!MakeRoom(acc, b, o))
    <2>1. Chunked(C!Flush(acc), P, Q, o)
      BY FlushKeeps
    <2>2. Chunked(C!MakeRoom(acc, b, o), P, Q, o)
      BY RoomIsMade
    <2> QED
      BY <2>1, <2>2
  <1>4. CASE b.type # "HEADING" /\ (atomic \/ Len(text) > o.target)
    <2>1. new = [C!Flush(ready) EXCEPT !.out = @ \o C!Split(text, o.target, o.overlap)]
      BY <1>4 DEF C!ChunkNext
    <2> HIDE DEF new, ready, text, W
    <2>2. Chunked(new, P \cup Words(text), Q \cup Words(text), o)
      <3>1. Before(P, Words(text))
        BY <1>1 DEF W
      <3> QED
        BY <1>1, <1>3, <2>1, <3>1, PartsFollow
    <2>3. Chunked(new, P \cup W, IF b.type = "HEADING" THEN Q ELSE Q \cup W, o)
      BY <1>1, <1>4, <2>2
    <2> QED
      BY <2>3 DEF new, W
  <1>5. CASE b.type # "HEADING" /\ ~(atomic \/ Len(text) > o.target)
    <2>1. new = [ready EXCEPT !.buffered = Append(@, b), !.tokens = @ + Len(text)]
      BY <1>5 DEF C!ChunkNext
    <2>2. ready.tokens + Len(text) <= o.target + o.overlap
      <3>1. Len(text) <= o.target
        <4>1. Len(text) \in Nat /\ o.target \in Nat
          BY <1>1 DEF Allowed
        <4> QED
          BY <1>5, <4>1
      <3>2. ready = C!MakeRoom(acc, b, o)
        BY <1>3, <1>5
      <3> QED
        BY <3>1, <3>2, RoomIsMade
    <2> HIDE DEF new, ready
    <2>3. Chunked(new, P \cup W, Q \cup W, o)
      BY <1>3, <2>1, <2>2, BlockJoins
    <2> HIDE DEF W
    <2>4. Chunked(new, P \cup W, IF b.type = "HEADING" THEN Q ELSE Q \cup W, o)
      BY <1>5, <2>3
    <2> QED
      BY <2>4 DEF new, W
  <1> QED
    BY <1>2, <1>4, <1>5

-----------------------------------------------------------------------------
(* Recursion along 1..n whose values stay good.                            *)
Stays(f, step, n, base, good) ==
  /\ DOMAIN f = 0..n /\ f = [k \in 0..n |-> f[k]] /\ f[0] = base
  /\ \A k \in 1..n : f[k] = step[k][f[k - 1]]
  /\ \A k \in 0..n : f[k] \in good[k]

LEMMA RunStays ==
  ASSUME NEW n \in Nat, NEW step, NEW good, NEW base, base \in good[0],
         \A k \in 1..n : \A x \in good[k - 1] : step[k][x] \in good[k]
  PROVE  \E f : Stays(f, step, n, base, good)
  <1> DEFINE X == UNION {good[k] : k \in 0..n}
             guarded == [k \in 1..n |-> [x \in X |-> IF step[k][x] \in X THEN step[k][x] ELSE x]]
             T(f) == {k \in 0..n : f[k] \in good[k]}
  <1>1. base \in X
    <2>1. 0 \in 0..n
      OBVIOUS
    <2> QED
      BY <2>1
  <1>2. \A k \in 0..n : good[k] \subseteq X
    OBVIOUS
  <1> HIDE DEF X
  <1>3. Moves(guarded, n, X)
    BY DEF Moves
  <1>4. PICK f : Runs(f, guarded, n, base, X)
    <2> HIDE DEF guarded
    <2> QED
      BY <1>1, <1>3, RecursionWorks
  <1>5. f \in [0..n -> X] /\ f[0] = base /\ \A k \in 1..n : f[k] = guarded[k][f[k - 1]]
    BY <1>4, Zenon DEF Runs
  <1>6. ASSUME NEW k \in 1..n, f[k - 1] \in good[k - 1]
        PROVE  f[k] = step[k][f[k - 1]] /\ f[k] \in good[k]
    <2>1. k - 1 \in 0..n /\ k \in 0..n
      OBVIOUS
    <2>2. step[k][f[k - 1]] \in good[k]
      BY <1>6
    <2>3. step[k][f[k - 1]] \in X /\ f[k - 1] \in X
      BY <1>2, <1>5, <2>1, <2>2
    <2>4. guarded[k][f[k - 1]] = step[k][f[k - 1]]
      BY <2>3
    <2> HIDE DEF guarded
    <2> QED
      BY <1>5, <2>2, <2>4
  <1>7. \A k \in 0..n : k \in T(f)
    <2>1. 0 \in T(f)
      BY <1>5
    <2>2. ASSUME NEW k \in 1..n, k - 1 \in T(f) PROVE k \in T(f)
      BY <1>6, <2>2
    <2> HIDE DEF T
    <2> QED
      BY <2>1, <2>2, UpTo
  <1>8. \A k \in 0..n : f[k] \in good[k]
    BY <1>7
  <1>9. \A k \in 1..n : f[k] = step[k][f[k - 1]]
    <2>1. ASSUME NEW k \in 1..n PROVE f[k - 1] \in good[k - 1]
      <3>1. k - 1 \in 0..n
        OBVIOUS
      <3> QED
        BY <1>8, <3>1
    <2> QED
      BY <1>6, <2>1
  <1>10. DOMAIN f = 0..n /\ f = [k \in 0..n |-> f[k]]
    BY <1>5
  <1> HIDE DEF T, guarded
  <1>11. Stays(f, step, n, base, good)
    BY <1>5, <1>8, <1>9, <1>10, Zenon DEF Stays
  <1> QED
    BY <1>11

(* The lines of the first k blocks, and of those that are no headings.     *)
Read(bs, k) == {x \in Nat : \E j \in 1..k : x \in Words(bs[j].tokens)}

Kept(bs, k) ==
  {x \in Nat : \E j \in 1..k : x \in Words(bs[j].tokens) /\ bs[j].type # "HEADING"}

(* What the first k blocks hold is what the first k - 1 hold and later     *)
(* lines.                                                                  *)
LEMMA ReadGrows ==
  ASSUME NEW bs \in Seq(BlockType), InSequence(bs), NEW k \in 1..Len(bs)
  PROVE  /\ bs[k] \in BlockType /\ Words(bs[k].tokens) \subseteq Nat
         /\ Read(bs, k) = Read(bs, k - 1) \cup Words(bs[k].tokens)
         /\ Kept(bs, k) = IF bs[k].type = "HEADING" THEN Kept(bs, k - 1)
                          ELSE Kept(bs, k - 1) \cup Words(bs[k].tokens)
         /\ Before(Read(bs, k - 1), Words(bs[k].tokens))
  <1>1. bs[k] \in BlockType
    OBVIOUS
  <1>2. Words(bs[k].tokens) \subseteq Nat
    <2>1. bs[k].tokens \in Seq(Nat)
      BY <1>1 DEF BlockType
    <2>2. \A i \in 1..Len(bs[k].tokens) : bs[k].tokens[i] \in Nat
      BY <2>1
    <2> QED
      BY <2>2 DEF Words
  <1>3. \A j : j \in 1..k <=> j \in 1..(k - 1) \/ j = k
    OBVIOUS
  <1>4. \A j \in 1..(k - 1) : j \in 1..Len(bs) /\ j < k
    OBVIOUS
  <1> DEFINE W(j) == Words(bs[j].tokens)
             H(j) == bs[j].type = "HEADING"
  <1>5. /\ Read(bs, k) = {x \in Nat : \E j \in 1..k : x \in W(j)}
        /\ Read(bs, k - 1) = {x \in Nat : \E j \in 1..(k - 1) : x \in W(j)}
    BY DEF Read
  <1>6. /\ Kept(bs, k) = {x \in Nat : \E j \in 1..k : x \in W(j) /\ ~H(j)}
        /\ Kept(bs, k - 1) = {x \in Nat : \E j \in 1..(k - 1) : x \in W(j) /\ ~H(j)}
    BY DEF Kept
  <1>7. \A j \in 1..(k - 1) : Before(W(j), W(k))
    BY <1>4 DEF InSequence
  <1> HIDE DEF W, H
  <1>8. Read(bs, k) = Read(bs, k - 1) \cup W(k)
    BY <1>2, <1>3, <1>5 DEF W
  <1>9. Kept(bs, k) = IF H(k) THEN Kept(bs, k - 1) ELSE Kept(bs, k - 1) \cup W(k)
    BY <1>2, <1>3, <1>6 DEF W
  <1>10. Before(Read(bs, k - 1), W(k))
    BY <1>5, <1>7 DEF Before
  <1> QED
    BY <1>1, <1>2, <1>8, <1>9, <1>10 DEF W, H

(* The children of a group hold its text, and leave out only headings.     *)
LEMMA ChildrenOfGroup ==
  ASSUME NEW o, Allowed(o), NEW bs \in Seq(BlockType), InSequence(bs),
         \A k \in 1..Len(bs) : Words(bs[k].tokens) # {}
  PROVE  Sound(C!ChildGroups(bs, o), Read(bs, Len(bs)), Kept(bs, Len(bs)), Room(o))
  <1> DEFINE n == Len(bs)
             X == [out : Seq(Seq(Nat)), buffered : Seq(BlockType), tokens : Nat]
             base == [out |-> <<>>, buffered |-> <<>>, tokens |-> 0]
             step == [k \in 1..n |-> [x \in X |-> C!ChunkNext(x, bs[k], o)]]
             good == [k \in 0..n |-> {x \in X : Chunked(x, Read(bs, k), Kept(bs, k), o)}]
             Recurs(f) == f = [k \in 0..n |-> IF k = 0 THEN base ELSE C!ChunkNext(f[k - 1], bs[k], o)]
             chunked == CHOOSE f : Recurs(f)
  <1>0. n \in Nat
    OBVIOUS
  <1>1. base \in good[0]
    <2>1. Read(bs, 0) = {} /\ Kept(bs, 0) = {}
      BY DEF Read, Kept
    <2>2. Chunked(base, {}, {}, o)
      BY NothingChunked
    <2> HIDE DEF base, n
    <2>3. base \in X
      BY <2>2 DEF Chunked
    <2>4. 0 \in 0..n
      BY <1>0
    <2>5. Chunked(base, Read(bs, 0), Kept(bs, 0), o)
      BY <2>1, <2>2
    <2> QED
      BY <2>3, <2>4, <2>5
  <1>2. ASSUME NEW k \in 1..n, NEW x \in good[k - 1]
        PROVE  /\ x \in X /\ C!ChunkNext(x, bs[k], o) \in good[k]
               /\ step[k][x] = C!ChunkNext(x, bs[k], o)
    <2>1. k - 1 \in 0..n /\ k \in 0..n
      BY <1>0
    <2>2. x \in X /\ Chunked(x, Read(bs, k - 1), Kept(bs, k - 1), o)
      BY <2>1
    <2>3. /\ bs[k] \in BlockType /\ Words(bs[k].tokens) \subseteq Nat
          /\ Read(bs, k) = Read(bs, k - 1) \cup Words(bs[k].tokens)
          /\ Kept(bs, k) = IF bs[k].type = "HEADING" THEN Kept(bs, k - 1)
                           ELSE Kept(bs, k - 1) \cup Words(bs[k].tokens)
          /\ Before(Read(bs, k - 1), Words(bs[k].tokens))
      BY ReadGrows
    <2>4. Rising(bs[k].tokens) /\ Words(bs[k].tokens) # {} /\ Read(bs, k - 1) \subseteq Nat
      BY DEF InSequence, Read
    <2>5. Chunked(C!ChunkNext(x, bs[k], o), Read(bs, k - 1) \cup Words(bs[k].tokens),
                  IF bs[k].type = "HEADING" THEN Kept(bs, k - 1)
                  ELSE Kept(bs, k - 1) \cup Words(bs[k].tokens), o)
      BY <2>2, <2>3, <2>4, TurnKeeps
    <2>6. Chunked(C!ChunkNext(x, bs[k], o), Read(bs, k), Kept(bs, k), o)
      BY <2>3, <2>5, Zenon
    <2>7. C!ChunkNext(x, bs[k], o) \in X
      BY <2>6 DEF Chunked
    <2> HIDE DEF X
    <2> QED
      BY <2>1, <2>2, <2>6, <2>7
  <1>3. PICK f : Stays(f, step, n, base, good)
    <2>1. \A k \in 1..n : \A x \in good[k - 1] : step[k][x] \in good[k]
      <3> HIDE DEF step, good
      <3> QED
        BY <1>2
    <2> HIDE DEF step, good, base, n
    <2> QED
      BY <1>0, <1>1, <2>1, RunStays
  <1>4. /\ f = [k \in 0..n |-> f[k]] /\ f[0] = base
        /\ \A k \in 1..n : f[k] = step[k][f[k - 1]]
        /\ \A k \in 0..n : f[k] \in good[k]
    BY <1>3, Zenon DEF Stays
  <1>5. Recurs(f)
    <2>1. ASSUME NEW k \in 1..n PROVE f[k] = C!ChunkNext(f[k - 1], bs[k], o)
      <3>1. k - 1 \in 0..n
        BY <1>0
      <3> HIDE DEF step, good
      <3>2. f[k - 1] \in good[k - 1]
        BY <1>4, <3>1
      <3> QED
        BY <1>2, <1>4, <3>2
    <2> HIDE DEF base, step, good, n
    <2>2. \A k \in 0..n : f[k] = IF k = 0 THEN base ELSE C!ChunkNext(f[k - 1], bs[k], o)
      <3>1. ASSUME NEW k \in 0..n, k # 0 PROVE k \in 1..n
        BY <1>0, <3>1
      <3> QED
        BY <1>4, <2>1, <3>1, Zenon
    <2>3. [k \in 0..n |-> f[k]] =
            [k \in 0..n |-> IF k = 0 THEN base ELSE C!ChunkNext(f[k - 1], bs[k], o)]
      BY <2>2
    <2> QED
      BY <1>4, <2>3, Zenon
  <1>6. Recurs(chunked)
    <2> HIDE DEF Recurs
    <2> QED
      BY <1>5, Zenon
  <1>7. C!ChildGroups(bs, o) = C!Flush(chunked[n]).out
    BY Zenon DEF C!ChildGroups
  <1> HIDE DEF chunked
  <1>8. chunked[0] = base /\ \A k \in 1..n : chunked[k] = C!ChunkNext(chunked[k - 1], bs[k], o)
    <2> HIDE DEF base, n
    <2>1. \A k \in 0..n : chunked[k] = IF k = 0 THEN base ELSE C!ChunkNext(chunked[k - 1], bs[k], o)
      BY <1>6
    <2>2. 0 \in 0..n /\ \A k \in 1..n : k \in 0..n /\ k # 0
      BY <1>0
    <2> QED
      BY <2>1, <2>2, Zenon
  <1> DEFINE T == {k \in 0..n : chunked[k] \in good[k]}
  <1>9. \A k \in 0..n : k \in T
    <2> HIDE DEF good, base, n
    <2>1. 0 \in T
      BY <1>0, <1>1, <1>8
    <2>2. ASSUME NEW k \in 1..n, k - 1 \in T PROVE k \in T
      <3>1. chunked[k - 1] \in good[k - 1] /\ k \in 0..n
        BY <1>0, <2>2
      <3>2. C!ChunkNext(chunked[k - 1], bs[k], o) \in good[k]
        BY <1>2, <3>1
      <3> QED
        BY <1>8, <3>1, <3>2
    <2> HIDE DEF T
    <2> QED
      BY <1>0, <2>1, <2>2, UpTo
  <1>10. Chunked(chunked[n], Read(bs, n), Kept(bs, n), o)
    <2>1. n \in 0..n
      BY <1>0
    <2>2. chunked[n] \in good[n]
      <3> HIDE DEF good, n
      <3> QED
        BY <1>9, <2>1
    <2> HIDE DEF n
    <2> QED
      BY <2>1, <2>2
  <1> HIDE DEF n
  <1>11. Sound(C!Flush(chunked[n]).out, Read(bs, n), Kept(bs, n), Room(o))
    BY <1>10 DEF Chunked
  <1>12. Sound(C!ChildGroups(bs, o), Read(bs, n), Kept(bs, n), Room(o))
    BY <1>7, <1>11, Zenon
  <1> QED
    BY <1>12 DEF n

-----------------------------------------------------------------------------
(* The lines of blocks.                                                    *)
Lines(bs) == Read(bs, Len(bs))

(* Groups that hold the first k blocks, in order.                          *)
Whole(groups, bs, k) ==
  /\ groups \in Seq(Seq(BlockType))
  /\ \A g \in 1..Len(groups) : InSequence(groups[g])
  /\ \A g \in 1..Len(groups) : \A i \in 1..Len(groups[g]) : \E j \in 1..k : groups[g][i] = bs[j]
  /\ \A g, h \in 1..Len(groups) : g < h => Before(Lines(groups[g]), Lines(groups[h]))
  /\ \A j \in 1..k : \E g \in 1..Len(groups) : \E i \in 1..Len(groups[g]) : groups[g][i] = bs[j]

(* The lines of blocks, block by block.                                    *)
LEMMA LinesAre ==
  ASSUME NEW bs \in Seq(BlockType)
  PROVE  \A x : x \in Lines(bs) <=> \E j \in 1..Len(bs) : x \in Words(bs[j].tokens)
  <1>1. ASSUME NEW j \in 1..Len(bs), NEW x \in Words(bs[j].tokens) PROVE x \in Nat
    <2>1. bs[j] \in BlockType
      OBVIOUS
    <2>2. bs[j].tokens \in Seq(Nat)
      BY <2>1 DEF BlockType
    <2>3. \A i \in 1..Len(bs[j].tokens) : bs[j].tokens[i] \in Nat
      BY <2>2
    <2> QED
      BY <1>1, <2>3 DEF Words
  <1> QED
    BY <1>1 DEF Lines, Read

LEMMA Appended ==
  ASSUME NEW X, NEW s \in Seq(X), NEW x \in X, NEW t, t = Append(s, x)
  PROVE  /\ t \in Seq(X) /\ Len(t) = Len(s) + 1 /\ t[Len(t)] = x
         /\ \A i \in 1..Len(s) : t[i] = s[i] /\ i \in 1..Len(t)
         /\ Len(t) \in 1..Len(t) /\ Len(s) \in Nat
         /\ \A i \in 1..Len(t) : i \in 1..Len(s) \/ i = Len(t)
  OBVIOUS

(* The lines of a group that holds nothing but blocks before the k-th.     *)
LEMMA LinesOfEarlier ==
  ASSUME NEW bs \in Seq(BlockType), InSequence(bs), NEW k \in 1..Len(bs),
         NEW group \in Seq(BlockType),
         \A i \in 1..Len(group) : \E j \in 1..(k - 1) : group[i] = bs[j]
  PROVE  Before(Lines(group), Words(bs[k].tokens))
  <1>1. ASSUME NEW x \in Lines(group), NEW y \in Words(bs[k].tokens) PROVE x < y
    <2>1. PICK i \in 1..Len(group) : x \in Words(group[i].tokens)
      BY <1>1, LinesAre
    <2>2. PICK j \in 1..(k - 1) : group[i] = bs[j]
      BY <2>1
    <2>3. j \in 1..Len(bs) /\ j < k
      BY <2>2
    <2>4. Before(Words(bs[j].tokens), Words(bs[k].tokens))
      BY <2>3 DEF InSequence
    <2> QED
      BY <1>1, <2>1, <2>2, <2>4 DEF Before
  <1> QED
    BY <1>1 DEF Before

(* Before the first block there is an empty group.                         *)
LEMMA WholeStarts ==
  ASSUME NEW bs
  PROVE  Whole(Append(<<>>, <<>>), bs, 0)
  <1> DEFINE groups == Append(<<>>, <<>>)
  <1>1. <<>> \in Seq(Seq(BlockType)) /\ <<>> \in Seq(BlockType)
    OBVIOUS
  <1>2. groups \in Seq(Seq(BlockType)) /\ Len(groups) = 1 /\ groups[1] = <<>>
    OBVIOUS
  <1>3. Len(<<>>) = 0
    OBVIOUS
  <1> HIDE DEF groups
  <1>4. \A g \in 1..Len(groups) : g = 1 /\ Len(groups[g]) = 0
    BY <1>2, <1>3
  <1>5. \A g \in 1..Len(groups) : InSequence(groups[g])
    BY <1>4 DEF InSequence
  <1>6. \A g, h \in 1..Len(groups) : ~(g < h)
    BY <1>2
  <1>7. \A g \in 1..Len(groups) : \A i \in 1..Len(groups[g]) : FALSE
    BY <1>4
  <1>8. \A j \in 1..0 : FALSE
    OBVIOUS
  <1>9. Whole(groups, bs, 0)
    BY <1>2, <1>5, <1>6, <1>7, <1>8 DEF Whole
  <1> QED
    BY <1>9 DEF groups

(* The next block opens a group.                                           *)
LEMMA WholeOpens ==
  ASSUME NEW bs \in Seq(BlockType), InSequence(bs), NEW k \in 1..Len(bs),
         NEW old \in Seq(Seq(BlockType)), Whole(old, bs, k - 1),
         NEW last, last = <<bs[k]>>, NEW new, new = Append(old, last)
  PROVE  Whole(new, bs, k)
  <1>1. PICK b \in BlockType : b = bs[k]
    OBVIOUS
  <1>2. last \in Seq(BlockType) /\ Len(last) = 1 /\ last[1] = b
    <2>1. <<b>> \in Seq(BlockType)
      BY TextOfOne
    <2>2. Len(<<b>>) = 1 /\ <<b>>[1] = b
      OBVIOUS
    <2>3. last = <<b>>
      BY <1>1, Zenon
    <2> QED
      BY <2>1, <2>2, <2>3, Zenon
  <1>3. /\ old \in Seq(Seq(BlockType))
        /\ \A g \in 1..Len(old) : InSequence(old[g])
        /\ \A g \in 1..Len(old) : \A i \in 1..Len(old[g]) : \E j \in 1..(k - 1) : old[g][i] = bs[j]
        /\ \A g, h \in 1..Len(old) : g < h => Before(Lines(old[g]), Lines(old[h]))
        /\ \A j \in 1..(k - 1) :
             \E g \in 1..Len(old) : \E i \in 1..Len(old[g]) : old[g][i] = bs[j]
    BY DEF Whole
  <1>5. PICK m \in Nat \ {0} : m = Len(old) + 1
    BY <1>3
  <1>6. /\ new \in Seq(Seq(BlockType)) /\ Len(new) = m /\ new[m] = last
        /\ \A g \in 1..Len(old) : new[g] = old[g] /\ g \in 1..m
        /\ \A g \in 1..m : g \in 1..Len(old) \/ g = m
        /\ Len(old) \in Nat
    <2>1. old \in Seq(Seq(BlockType)) /\ Len(old) \in Nat
      BY <1>3
    <2>2. /\ new \in Seq(Seq(BlockType)) /\ Len(new) = Len(old) + 1 /\ new[Len(new)] = last
          /\ \A g \in 1..Len(old) : new[g] = old[g] /\ g \in 1..Len(new)
          /\ \A g \in 1..Len(new) : g \in 1..Len(old) \/ g = Len(new)
      BY <1>2, Appended
    <2> QED
      BY <1>5, <2>1, <2>2
  <1>7. Lines(last) = Words(b.tokens)
    <2>1. \A x : x \in Lines(last) <=> \E j \in 1..Len(last) : x \in Words(last[j].tokens)
      BY <1>2, LinesAre
    <2>2. \A x : (\E j \in 1..1 : x \in Words(last[j].tokens)) <=> x \in Words(b.tokens)
      BY <1>2
    <2> QED
      BY <1>2, <2>1, <2>2
  <1>8. InSequence(last)
    <2>1. Rising(b.tokens)
      BY <1>1 DEF InSequence
    <2>2. \A i, j \in 1..Len(last) : i = 1 /\ ~(i < j)
      BY <1>2
    <2> QED
      BY <1>2, <2>1, <2>2 DEF InSequence
  <1>9. \A g \in 1..m : InSequence(new[g])
    BY <1>3, <1>6, <1>8
  <1>10. ASSUME NEW g \in 1..m, NEW i \in 1..Len(new[g]) PROVE \E j \in 1..k : new[g][i] = bs[j]
    <2>1. CASE g \in 1..Len(old)
      <3>1. new[g] = old[g]
        BY <1>6, <2>1
      <3>2. i \in 1..Len(old[g])
        BY <1>10, <3>1
      <3>3. PICK j \in 1..(k - 1) : old[g][i] = bs[j]
        BY <1>3, <2>1, <3>2
      <3>4. j \in 1..k
        BY <3>3
      <3>5. new[g][i] = bs[j]
        BY <3>1, <3>3, Zenon
      <3> QED
        BY <3>4, <3>5, Zenon
    <2>2. CASE g = m
      <3>1. i = 1 /\ new[g][i] = bs[k] /\ k \in 1..k
        BY <1>1, <1>2, <1>6, <1>10, <2>2
      <3> QED
        BY <3>1, Zenon
    <2> QED
      BY <1>6, <2>1, <2>2
  <1>11. ASSUME NEW g \in 1..m, NEW h \in 1..m, g < h
         PROVE  Before(Lines(new[g]), Lines(new[h]))
    <2>1. g \in 1..Len(old)
      BY <1>6, <1>11
    <2>2. CASE h \in 1..Len(old)
      BY <1>3, <1>6, <1>11, <2>1, <2>2
    <2>3. CASE h = m
      <3>1. old[g] \in Seq(BlockType)
        BY <1>3, <2>1
      <3>2. \A i \in 1..Len(old[g]) : \E j \in 1..(k - 1) : old[g][i] = bs[j]
        BY <1>3, <2>1
      <3>3. Before(Lines(old[g]), Words(bs[k].tokens))
        BY <3>1, <3>2, LinesOfEarlier
      <3> QED
        BY <1>1, <1>6, <1>7, <2>1, <2>3, <3>3
    <2> QED
      BY <1>6, <2>2, <2>3
  <1>12. ASSUME NEW j \in 1..k PROVE \E g \in 1..m : \E i \in 1..Len(new[g]) : new[g][i] = bs[j]
    <2>1. CASE j = k
      <3>1. m \in 1..m /\ 1 \in 1..Len(new[m]) /\ new[m][1] = bs[j]
        BY <1>1, <1>2, <1>6, <2>1
      <3> QED
        BY <3>1
    <2>2. CASE j # k
      <3>1. j \in 1..(k - 1)
        BY <2>2
      <3>2. PICK g \in 1..Len(old) : \E i \in 1..Len(old[g]) : old[g][i] = bs[j]
        BY <1>3, <3>1
      <3> QED
        BY <1>6, <3>2
    <2> QED
      BY <2>1, <2>2
  <1> QED
    BY <1>6, <1>9, <1>10, <1>11, <1>12, Zenon DEF Whole

(* The next block goes on with the last group.                             *)
LEMMA WholeGoesOn ==
  ASSUME NEW bs \in Seq(BlockType), InSequence(bs), NEW k \in 1..Len(bs),
         NEW gs \in Seq(Seq(BlockType)), NEW c \in Seq(BlockType),
         Whole(Append(gs, c), bs, k - 1), NEW new, new = Append(gs, Append(c, bs[k]))
  PROVE  Whole(new, bs, k)
  <1>1. PICK b \in BlockType : b = bs[k]
    OBVIOUS
  <1>2. PICK last \in Seq(BlockType) : last = Append(c, b)
    BY OneLonger, Zenon
  <1>3. PICK old \in Seq(Seq(BlockType)) : old = Append(gs, c)
    BY OneLonger, Zenon
  <1>4. /\ \A g \in 1..Len(old) : InSequence(old[g])
        /\ \A g \in 1..Len(old) : \A i \in 1..Len(old[g]) : \E j \in 1..(k - 1) : old[g][i] = bs[j]
        /\ \A g, h \in 1..Len(old) : g < h => Before(Lines(old[g]), Lines(old[h]))
        /\ \A j \in 1..(k - 1) :
             \E g \in 1..Len(old) : \E i \in 1..Len(old[g]) : old[g][i] = bs[j]
    BY <1>3 DEF Whole
  <1>5. new = Append(gs, last)
    BY <1>1, <1>2, Zenon
  <1>6. PICK m \in Nat \ {0} : m = Len(gs) + 1
    OBVIOUS
  <1>7. /\ Len(old) = m /\ old[m] = c /\ \A g \in 1..Len(gs) : old[g] = gs[g] /\ g \in 1..m
    BY <1>3, <1>6, Appended
  <1>8. /\ new \in Seq(Seq(BlockType)) /\ Len(new) = m /\ new[m] = last
        /\ \A g \in 1..Len(gs) : new[g] = gs[g]
        /\ \A g \in 1..m : g \in 1..Len(gs) \/ g = m
    BY <1>5, <1>6, Appended
  <1>9. /\ Len(last) = Len(c) + 1 /\ last[Len(last)] = b /\ Len(c) \in Nat
        /\ Len(last) \in 1..Len(last)
        /\ \A i \in 1..Len(c) : last[i] = c[i] /\ i \in 1..Len(last)
        /\ \A i \in 1..Len(last) : i \in 1..Len(c) \/ i = Len(last)
    BY <1>2, Appended
  <1>10. m \in 1..m
    OBVIOUS
  <1>11. \A i \in 1..Len(c) : \E j \in 1..(k - 1) : c[i] = bs[j]
    BY <1>4, <1>7, <1>10
  <1>12. Before(Lines(c), Words(b.tokens))
    BY <1>1, <1>11, LinesOfEarlier
  <1>13. Lines(last) = Lines(c) \cup Words(b.tokens)
    <2>1. \A x : x \in Lines(last) <=> \E j \in 1..Len(last) : x \in Words(last[j].tokens)
      BY LinesAre
    <2>2. \A x : x \in Lines(c) <=> \E j \in 1..Len(c) : x \in Words(c[j].tokens)
      BY LinesAre
    <2> QED
      BY <1>9, <2>1, <2>2
  <1>14. InSequence(last)
    <2>1. InSequence(c)
      BY <1>4, <1>7, <1>10
    <2>2. Rising(b.tokens)
      BY <1>1 DEF InSequence
    <2>3. \A i \in 1..Len(last) : Rising(last[i].tokens)
      BY <1>9, <2>1, <2>2 DEF InSequence
    <2>4. ASSUME NEW i \in 1..Len(last), NEW j \in 1..Len(last), i < j
          PROVE  Before(Words(last[i].tokens), Words(last[j].tokens))
      <3>1. i \in 1..Len(c)
        BY <1>9, <2>4
      <3>2. CASE j \in 1..Len(c)
        BY <1>9, <2>1, <2>4, <3>1, <3>2 DEF InSequence
      <3>3. CASE j = Len(last)
        <4>1. Words(c[i].tokens) \subseteq Lines(c)
          BY <3>1, LinesAre
        <4> QED
          BY <1>9, <1>12, <3>1, <3>3, <4>1 DEF Before
      <3> QED
        BY <1>9, <3>2, <3>3
    <2> QED
      BY <2>3, <2>4 DEF InSequence
  <1>15. \A g \in 1..m : InSequence(new[g])
    BY <1>4, <1>7, <1>8, <1>14
  <1>16. ASSUME NEW g \in 1..m, NEW i \in 1..Len(new[g]) PROVE \E j \in 1..k : new[g][i] = bs[j]
    <2>1. \A j \in 1..(k - 1) : j \in 1..k
      OBVIOUS
    <2>2. CASE g \in 1..Len(gs)
      <3>1. new[g] = old[g] /\ g \in 1..Len(old)
        BY <1>7, <1>8, <2>2
      <3>2. i \in 1..Len(old[g])
        BY <1>16, <3>1
      <3>3. \E j \in 1..(k - 1) : old[g][i] = bs[j]
        BY <1>4, <3>1, <3>2
      <3> QED
        BY <2>1, <3>1, <3>3
    <2>3. CASE g = m
      <3>1. CASE i \in 1..Len(c)
        <4>1. new[g][i] = c[i]
          BY <1>8, <1>9, <2>3, <3>1
        <4>2. \E j \in 1..(k - 1) : new[g][i] = bs[j]
          BY <1>11, <3>1, <4>1
        <4> QED
          BY <2>1, <4>2
      <3>2. CASE i = Len(last)
        <4>1. new[g][i] = bs[k] /\ k \in 1..k
          BY <1>1, <1>8, <1>9, <2>3, <3>2
        <4> QED
          BY <4>1
      <3> QED
        BY <1>8, <1>9, <1>16, <2>3, <3>1, <3>2
    <2> QED
      BY <1>8, <2>2, <2>3
  <1>17. ASSUME NEW g \in 1..m, NEW h \in 1..m, g < h
         PROVE  Before(Lines(new[g]), Lines(new[h]))
    <2>1. g \in 1..Len(gs) /\ new[g] = old[g]
      <3>1. g \in 1..Len(gs)
        BY <1>7, <1>8, <1>17
      <3> QED
        BY <1>7, <1>8, <3>1
    <2>2. Before(Lines(old[g]), Lines(old[h]))
      BY <1>4, <1>7, <1>17
    <2>3. CASE h \in 1..Len(gs)
      BY <1>7, <1>8, <2>1, <2>2, <2>3
    <2>4. CASE h = m
      <3>1. Before(Lines(old[g]), Lines(c))
        BY <1>7, <2>2, <2>4
      <3>2. Before(Lines(old[g]), Words(b.tokens))
        <4>1. \A i \in 1..Len(old[g]) : \E j \in 1..(k - 1) : old[g][i] = bs[j]
          BY <1>4, <1>7, <1>17
        <4>2. old[g] \in Seq(BlockType)
          BY <1>7, <1>17
        <4> QED
          BY <1>1, <4>1, <4>2, LinesOfEarlier
      <3>3. Before(Lines(old[g]), Lines(last))
        BY <1>13, <3>1, <3>2 DEF Before
      <3> QED
        BY <1>8, <2>1, <2>4, <3>3
    <2> QED
      BY <1>8, <2>3, <2>4
  <1>18. ASSUME NEW j \in 1..k PROVE \E g \in 1..m : \E i \in 1..Len(new[g]) : new[g][i] = bs[j]
    <2>1. CASE j = k
      <3>1. Len(last) \in 1..Len(new[m]) /\ new[m][Len(last)] = bs[j]
        BY <1>1, <1>8, <1>9, <2>1
      <3> QED
        BY <1>10, <3>1
    <2>2. CASE j # k
      <3>1. j \in 1..(k - 1)
        BY <2>2
      <3>2. PICK g \in 1..m : \E i \in 1..Len(old[g]) : old[g][i] = bs[j]
        BY <1>4, <1>7, <3>1
      <3>3. PICK i \in 1..Len(old[g]) : old[g][i] = bs[j]
        BY <3>2
      <3>4. i \in 1..Len(new[g]) /\ new[g][i] = bs[j]
        <4>1. CASE g \in 1..Len(gs)
          BY <1>7, <1>8, <3>3, <4>1
        <4>2. CASE g = m
          BY <1>7, <1>8, <1>9, <3>3, <4>2
        <4> QED
          BY <1>8, <4>1, <4>2
      <3> QED
        BY <3>2, <3>4
    <2> QED
      BY <2>1, <2>2
  <1> QED
    BY <1>8, <1>15, <1>16, <1>17, <1>18, Zenon DEF Whole

-----------------------------------------------------------------------------
(* A turn of _split_parent_groups.                                         *)
Grouped(acc, bs, k) ==
  /\ acc \in [groups : Seq(Seq(BlockType)), current : Seq(BlockType)]
  /\ Whole(Append(acc.groups, acc.current), bs, k)

LEMMA PairIs ==
  ASSUME NEW gs \in Seq(Seq(BlockType)), NEW c \in Seq(BlockType),
         NEW acc, acc = [groups |-> gs, current |-> c]
  PROVE  /\ acc \in [groups : Seq(Seq(BlockType)), current : Seq(BlockType)]
         /\ acc.groups = gs /\ acc.current = c
  OBVIOUS

(* A block opens a group or goes on with the last one.                     *)
LEMMA GroupKeeps ==
  ASSUME NEW bs \in Seq(BlockType), InSequence(bs), NEW k \in 1..Len(bs), NEW max,
         NEW acc, Grouped(acc, bs, k - 1)
  PROVE  Grouped(C!Group(acc, bs[k], max), bs, k)
  <1> DEFINE new == C!Group(acc, bs[k], max)
  <1>1. PICK b \in BlockType : b = bs[k]
    OBVIOUS
  <1>2. /\ acc \in [groups : Seq(Seq(BlockType)), current : Seq(BlockType)]
        /\ Whole(Append(acc.groups, acc.current), bs, k - 1)
    BY DEF Grouped
  <1>3. PICK gs \in Seq(Seq(BlockType)), c \in Seq(BlockType) : gs = acc.groups /\ c = acc.current
    BY <1>2
  <1>4. acc = [groups |-> gs, current |-> c]
    BY <1>2, <1>3
  <1>5. PICK old \in Seq(Seq(BlockType)) : old = Append(gs, c)
    BY OneLonger, Zenon
  <1>6. Whole(old, bs, k - 1)
    BY <1>2, <1>3, <1>5, Zenon
  <1>7. PICK one \in Seq(BlockType) : one = <<bs[k]>>
    BY <1>1, TextOfOne
  <1>8. PICK more \in Seq(BlockType) : more = Append(c, bs[k])
    BY <1>1, OneLonger, Zenon
  <1>9. \/ new = [groups |-> Append(acc.groups, acc.current), current |-> <<bs[k]>>]
        \/ new = [acc EXCEPT !.current = Append(@, bs[k])]
    BY Zenon DEF C!Group
  <1> HIDE DEF new
  <1>10. CASE new = [groups |-> Append(acc.groups, acc.current), current |-> <<bs[k]>>]
    <2>1. new = [groups |-> old, current |-> one]
      BY <1>3, <1>5, <1>7, <1>10, Zenon
    <2>2. /\ new \in [groups : Seq(Seq(BlockType)), current : Seq(BlockType)]
          /\ new.groups = old /\ new.current = one
      BY <2>1, PairIs, Zenon
    <2>3. Whole(Append(old, one), bs, k)
      BY <1>6, <1>7, WholeOpens, Zenon
    <2>4. Grouped(new, bs, k)
      BY <2>2, <2>3, Zenon DEF Grouped
    <2> QED
      BY <2>4 DEF new
  <1>11. CASE new = [acc EXCEPT !.current = Append(@, bs[k])]
    <2>1. new = [groups |-> gs, current |-> more]
      <3>1. new = [acc EXCEPT !.current = Append(acc.current, bs[k])]
        BY <1>11
      <3>2. new = [acc EXCEPT !.current = more]
        BY <1>3, <1>8, <3>1, Zenon
      <3> QED
        BY <1>4, <3>2
    <2>2. /\ new \in [groups : Seq(Seq(BlockType)), current : Seq(BlockType)]
          /\ new.groups = gs /\ new.current = more
      BY <2>1, PairIs, Zenon
    <2>3. Whole(Append(gs, more), bs, k)
      <3>1. Whole(Append(gs, c), bs, k - 1)
        BY <1>5, <1>6, Zenon
      <3>2. Append(gs, more) = Append(gs, Append(c, bs[k]))
        BY <1>8, Zenon
      <3> QED
        BY <3>1, <3>2, WholeGoesOn, Zenon
    <2>4. Grouped(new, bs, k)
      BY <2>2, <2>3, Zenon DEF Grouped
    <2> QED
      BY <2>4 DEF new
  <1> QED
    BY <1>9, <1>10, <1>11

(* The groups that are made of the blocks.                                 *)
LEMMA ParentGroupsAreWhole ==
  ASSUME NEW bs, bs = v5, bs \in Seq(BlockType), InSequence(bs), NEW max
  PROVE  Whole(C!ParentGroups(max), bs, Len(bs))
  <1> DEFINE n == Len(bs)
             X == [groups : Seq(Seq(BlockType)), current : Seq(BlockType)]
             base == [groups |-> <<>>, current |-> <<>>]
             step == [k \in 1..n |-> [x \in X |-> C!Group(x, bs[k], max)]]
             good == [k \in 0..n |-> {x \in X : Grouped(x, bs, k)}]
             Recurs(f) == f = [k \in 0..n |-> IF k = 0 THEN base ELSE C!Group(f[k - 1], bs[k], max)]
             grouped == CHOOSE f : Recurs(f)
  <1>0. n \in Nat
    OBVIOUS
  <1>1. base \in good[0]
    <2>1. <<>> \in Seq(Seq(BlockType)) /\ <<>> \in Seq(BlockType)
      OBVIOUS
    <2>2. base \in X /\ base.groups = <<>> /\ base.current = <<>>
      BY <2>1, PairIs
    <2> HIDE DEF base
    <2>3. Whole(Append(<<>>, <<>>), bs, 0)
      BY WholeStarts
    <2>4. Grouped(base, bs, 0)
      BY <2>2, <2>3, Zenon DEF Grouped
    <2> HIDE DEF n
    <2>5. 0 \in 0..n
      BY <1>0
    <2> QED
      BY <2>2, <2>4, <2>5
  <1>2. ASSUME NEW k \in 1..n, NEW x \in good[k - 1]
        PROVE  /\ x \in X /\ C!Group(x, bs[k], max) \in good[k]
               /\ step[k][x] = C!Group(x, bs[k], max)
    <2>1. k - 1 \in 0..n /\ k \in 0..n
      BY <1>0
    <2>2. x \in X /\ Grouped(x, bs, k - 1)
      BY <2>1
    <2>3. Grouped(C!Group(x, bs[k], max), bs, k)
      BY <2>2, GroupKeeps
    <2>4. C!Group(x, bs[k], max) \in X
      BY <2>3 DEF Grouped
    <2> HIDE DEF X
    <2> QED
      BY <2>1, <2>2, <2>3, <2>4
  <1>3. PICK f : Stays(f, step, n, base, good)
    <2>1. \A k \in 1..n : \A x \in good[k - 1] : step[k][x] \in good[k]
      <3> HIDE DEF step, good
      <3> QED
        BY <1>2
    <2> HIDE DEF step, good, base, n
    <2> QED
      BY <1>0, <1>1, <2>1, RunStays
  <1>4. /\ f = [k \in 0..n |-> f[k]] /\ f[0] = base
        /\ \A k \in 1..n : f[k] = step[k][f[k - 1]]
        /\ \A k \in 0..n : f[k] \in good[k]
    BY <1>3, Zenon DEF Stays
  <1>5. Recurs(f)
    <2>1. ASSUME NEW k \in 1..n PROVE f[k] = C!Group(f[k - 1], bs[k], max)
      <3>1. k - 1 \in 0..n
        BY <1>0
      <3> HIDE DEF step, good
      <3>2. f[k - 1] \in good[k - 1]
        BY <1>4, <3>1
      <3> QED
        BY <1>2, <1>4, <3>2
    <2> HIDE DEF base, step, good, n
    <2>2. \A k \in 0..n : f[k] = IF k = 0 THEN base ELSE C!Group(f[k - 1], bs[k], max)
      <3>1. ASSUME NEW k \in 0..n, k # 0 PROVE k \in 1..n
        BY <1>0, <3>1
      <3> QED
        BY <1>4, <2>1, <3>1, Zenon
    <2>3. [k \in 0..n |-> f[k]] =
            [k \in 0..n |-> IF k = 0 THEN base ELSE C!Group(f[k - 1], bs[k], max)]
      BY <2>2
    <2> QED
      BY <1>4, <2>3, Zenon
  <1>6. Recurs(grouped)
    <2> HIDE DEF Recurs
    <2> QED
      BY <1>5, Zenon
  <1>7. C!ParentGroups(max) = Append(grouped[n].groups, grouped[n].current)
    BY Zenon DEF C!ParentGroups
  <1> HIDE DEF grouped
  <1>8. grouped[0] = base /\ \A k \in 1..n : grouped[k] = C!Group(grouped[k - 1], bs[k], max)
    <2> HIDE DEF base, n
    <2>1. \A k \in 0..n : grouped[k] = IF k = 0 THEN base ELSE C!Group(grouped[k - 1], bs[k], max)
      BY <1>6
    <2>2. 0 \in 0..n /\ \A k \in 1..n : k \in 0..n /\ k # 0
      BY <1>0
    <2> QED
      BY <2>1, <2>2, Zenon
  <1> DEFINE T == {k \in 0..n : grouped[k] \in good[k]}
  <1>9. \A k \in 0..n : k \in T
    <2> HIDE DEF good, base, n
    <2>1. 0 \in T
      BY <1>0, <1>1, <1>8
    <2>2. ASSUME NEW k \in 1..n, k - 1 \in T PROVE k \in T
      <3>1. grouped[k - 1] \in good[k - 1] /\ k \in 0..n
        BY <1>0, <2>2
      <3>2. C!Group(grouped[k - 1], bs[k], max) \in good[k]
        BY <1>2, <3>1
      <3> QED
        BY <1>8, <3>1, <3>2
    <2> HIDE DEF T
    <2> QED
      BY <1>0, <2>1, <2>2, UpTo
  <1>10. Grouped(grouped[n], bs, n)
    <2>1. n \in 0..n
      BY <1>0
    <2>2. grouped[n] \in good[n]
      <3> HIDE DEF good, n
      <3> QED
        BY <1>9, <2>1
    <2> HIDE DEF n
    <2> QED
      BY <2>1, <2>2
  <1> HIDE DEF n
  <1>11. Whole(C!ParentGroups(max), bs, n)
    BY <1>7, <1>10, Zenon DEF Grouped
  <1> QED
    BY <1>11 DEF n

-----------------------------------------------------------------------------
(* Children with the number of their parent, and their texts.              *)
ChildType == [parent : Nat, text : Seq(Nat)]

TextsOf(kids) == [n \in 1..Len(kids) |-> kids[n].text]

(* What the first k groups hold, with and without the headings.            *)
LinesUpTo(groups, k) == {x \in Nat : \E g \in 1..k : x \in Lines(groups[g])}

KeptUpTo(groups, k) == {x \in Nat : \E g \in 1..k : x \in Kept(groups[g], Len(groups[g]))}

(* The children of the first k groups.                                     *)
Owns(kids, groups, k, o) ==
  /\ kids \in Seq(ChildType)
  /\ Sound(TextsOf(kids), LinesUpTo(groups, k), KeptUpTo(groups, k), Room(o))
  /\ \A n \in 1..Len(kids) :
       kids[n].parent \in 1..k /\ Words(kids[n].text) \subseteq Lines(groups[kids[n].parent])

LEMMA SameSeq ==
  ASSUME NEW X, NEW s \in Seq(X), NEW t \in Seq(X), Len(s) = Len(t),
         \A i \in 1..Len(s) : s[i] = t[i]
  PROVE  s = t
  OBVIOUS

(* The texts of children one after the other.                              *)
LEMMA TextsJoin ==
  ASSUME NEW kids \in Seq(ChildType), NEW more \in Seq(ChildType)
  PROVE  /\ TextsOf(kids) \in Seq(Seq(Nat)) /\ Len(TextsOf(kids)) = Len(kids)
         /\ TextsOf(kids \o more) = TextsOf(kids) \o TextsOf(more)
  <1>1. ASSUME NEW s \in Seq(ChildType)
        PROVE  /\ TextsOf(s) \in Seq(Seq(Nat)) /\ Len(TextsOf(s)) = Len(s)
               /\ \A n \in 1..Len(s) : TextsOf(s)[n] = s[n].text
    <2>1. \A n \in 1..Len(s) : s[n] \in ChildType
      OBVIOUS
    <2>2. \A n \in 1..Len(s) : s[n].text \in Seq(Nat)
      BY <2>1 DEF ChildType
    <2>3. Len(s) \in Nat
      OBVIOUS
    <2> QED
      BY <2>2, <2>3 DEF TextsOf
  <1>2. PICK all \in Seq(ChildType) : all = kids \o more
    BY Joint, Zenon
  <1>3. /\ Len(all) = Len(kids) + Len(more) /\ Len(kids) \in Nat /\ Len(more) \in Nat
        /\ \A i \in 1..Len(kids) : all[i] = kids[i]
        /\ \A i \in 1..Len(more) : all[Len(kids) + i] = more[i]
    BY <1>2, Joint
  <1>4. PICK s \in Seq(Seq(Nat)), t \in Seq(Seq(Nat)), a \in Seq(Seq(Nat)) :
          s = TextsOf(kids) /\ t = TextsOf(more) /\ a = TextsOf(all)
    BY <1>1
  <1>5. /\ Len(s) = Len(kids) /\ Len(t) = Len(more) /\ Len(a) = Len(all)
        /\ \A n \in 1..Len(kids) : s[n] = kids[n].text
        /\ \A n \in 1..Len(more) : t[n] = more[n].text
        /\ \A n \in 1..Len(all) : a[n] = all[n].text
    BY <1>1, <1>4
  <1>6. /\ s \o t \in Seq(Seq(Nat)) /\ Len(s \o t) = Len(s) + Len(t)
        /\ \A i \in 1..Len(s) : (s \o t)[i] = s[i]
        /\ \A i \in 1..Len(t) : (s \o t)[Len(s) + i] = t[i]
    BY Joint
  <1>7. PICK j \in Seq(Seq(Nat)) : j = s \o t
    BY <1>6
  <1>8. ASSUME NEW i \in 1..Len(all) PROVE a[i] = j[i]
    <2>1. CASE i \in 1..Len(kids)
      BY <1>3, <1>5, <1>6, <1>7, <2>1
    <2>2. CASE i \notin 1..Len(kids)
      <3>1. PICK d \in 1..Len(more) : i = Len(kids) + d
        <4>1. i - Len(kids) \in 1..Len(more) /\ i = Len(kids) + (i - Len(kids))
          BY <1>3, <1>8, <2>2
        <4> QED
          BY <4>1
      <3>2. a[i] = more[d].text
        BY <1>3, <1>5, <3>1
      <3>3. j[i] = t[d]
        BY <1>5, <1>6, <1>7, <3>1
      <3> QED
        BY <1>5, <3>2, <3>3
    <2> QED
      BY <2>1, <2>2
  <1>9. Len(a) = Len(j)
    BY <1>3, <1>5, <1>6, <1>7
  <1>10. a = j
    <2>1. \A i \in 1..Len(a) : a[i] = j[i]
      BY <1>5, <1>8
    <2> QED
      BY <1>9, <2>1, SameSeq, Zenon
  <1> QED
    BY <1>1, <1>2, <1>4, <1>7, <1>10, Zenon

(* The children of one parent.                                             *)
Labelled(k, texts) == [n \in DOMAIN texts |-> [parent |-> k, text |-> texts[n]]]

LEMMA ChildrenOfOne ==
  ASSUME NEW k \in Nat, NEW texts \in Seq(Seq(Nat)),
         NEW more, more = Labelled(k, texts)
  PROVE  /\ more \in Seq(ChildType) /\ TextsOf(more) = texts
         /\ \A n \in 1..Len(more) : more[n].parent = k
  <1>1. Len(texts) \in Nat /\ DOMAIN texts = 1..Len(texts)
        /\ \A n \in 1..Len(texts) : texts[n] \in Seq(Nat)
    OBVIOUS
  <1> DEFINE kid(n) == [parent |-> k, text |-> texts[n]]
  <1>2. \A n \in 1..Len(texts) : kid(n) \in ChildType /\ kid(n).parent = k /\ kid(n).text = texts[n]
    BY <1>1 DEF ChildType
  <1>3. more = [n \in 1..Len(texts) |-> kid(n)]
    BY <1>1 DEF Labelled
  <1> HIDE DEF kid
  <1>4. /\ more \in Seq(ChildType) /\ Len(more) = Len(texts)
        /\ \A n \in 1..Len(texts) : more[n] = kid(n)
    BY <1>1, <1>2, <1>3
  <1>5. \A n \in 1..Len(texts) : more[n].parent = k /\ more[n].text = texts[n]
    BY <1>2, <1>4
  <1>6. TextsOf(more) = [n \in 1..Len(texts) |-> texts[n]]
    BY <1>4, <1>5 DEF TextsOf
  <1>7. texts = [n \in 1..Len(texts) |-> texts[n]]
    OBVIOUS
  <1>8. TextsOf(more) = texts
    BY <1>6, <1>7, Zenon
  <1> QED
    BY <1>4, <1>5, <1>8

(* One more group and its children.                                        *)
LEMMA OwnedGrow ==
  ASSUME NEW o, NEW groups \in Seq(Seq(BlockType)),
         \A g, h \in 1..Len(groups) : g < h => Before(Lines(groups[g]), Lines(groups[h])),
         NEW k \in 1..Len(groups), NEW kids, Owns(kids, groups, k - 1, o),
         NEW own, Sound(own, Lines(groups[k]), Kept(groups[k], Len(groups[k])), Room(o)),
         NEW more \in Seq(ChildType), TextsOf(more) = own, \A n \in 1..Len(more) : more[n].parent = k
  PROVE  Owns(kids \o more, groups, k, o)
  <1>1. /\ kids \in Seq(ChildType)
        /\ Sound(TextsOf(kids), LinesUpTo(groups, k - 1), KeptUpTo(groups, k - 1), Room(o))
        /\ \A n \in 1..Len(kids) :
             /\ kids[n].parent \in 1..(k - 1)
             /\ Words(kids[n].text) \subseteq Lines(groups[kids[n].parent])
    BY DEF Owns
  <1>5. /\ LinesUpTo(groups, k) = LinesUpTo(groups, k - 1) \cup Lines(groups[k])
        /\ KeptUpTo(groups, k) = KeptUpTo(groups, k - 1) \cup Kept(groups[k], Len(groups[k]))
        /\ Before(LinesUpTo(groups, k - 1), Lines(groups[k]))
    <2> DEFINE L1(g) == Lines(groups[g])
               L2(g) == Kept(groups[g], Len(groups[g]))
    <2>1. \A g : g \in 1..k <=> g \in 1..(k - 1) \/ g = k
      OBVIOUS
    <2>2. L1(k) \subseteq Nat /\ L2(k) \subseteq Nat
      BY DEF Lines, Read, Kept
    <2>3. ASSUME NEW g \in 1..(k - 1) PROVE Before(L1(g), L1(k))
      <3>1. g \in 1..Len(groups) /\ g < k
        OBVIOUS
      <3> QED
        BY <3>1
    <2>4. /\ LinesUpTo(groups, k) = {x \in Nat : \E g \in 1..k : x \in L1(g)}
          /\ LinesUpTo(groups, k - 1) = {x \in Nat : \E g \in 1..(k - 1) : x \in L1(g)}
      BY DEF LinesUpTo
    <2>5. /\ KeptUpTo(groups, k) = {x \in Nat : \E g \in 1..k : x \in L2(g)}
          /\ KeptUpTo(groups, k - 1) = {x \in Nat : \E g \in 1..(k - 1) : x \in L2(g)}
      BY DEF KeptUpTo
    <2> HIDE DEF L1, L2
    <2>6. LinesUpTo(groups, k) = LinesUpTo(groups, k - 1) \cup L1(k)
      BY <2>1, <2>2, <2>4
    <2>7. KeptUpTo(groups, k) = KeptUpTo(groups, k - 1) \cup L2(k)
      BY <2>1, <2>2, <2>5
    <2>8. Before(LinesUpTo(groups, k - 1), L1(k))
      BY <2>3, <2>4 DEF Before
    <2> QED
      BY <2>6, <2>7, <2>8 DEF L1, L2
  <1>6. PICK all \in Seq(ChildType) : all = kids \o more
    BY <1>1, Joint
  <1>7. TextsOf(all) = TextsOf(kids) \o own
    BY <1>1, <1>6, TextsJoin, Zenon
  <1>8. Sound(TextsOf(all), LinesUpTo(groups, k), KeptUpTo(groups, k), Room(o))
    <2>1. Sound(TextsOf(kids) \o own, LinesUpTo(groups, k - 1) \cup Lines(groups[k]),
                KeptUpTo(groups, k - 1) \cup Kept(groups[k], Len(groups[k])), Room(o))
      BY <1>1, <1>5, SoundJoins
    <2> QED
      BY <1>5, <1>7, <2>1, Zenon
  <1>9. /\ Len(all) = Len(kids) + Len(more) /\ Len(kids) \in Nat /\ Len(more) \in Nat
        /\ \A i \in 1..Len(kids) : all[i] = kids[i]
        /\ \A i \in 1..Len(more) : all[Len(kids) + i] = more[i]
    BY <1>1, <1>6, Joint
  <1>10. ASSUME NEW n \in 1..Len(all)
         PROVE  all[n].parent \in 1..k /\ Words(all[n].text) \subseteq Lines(groups[all[n].parent])
    <2>1. CASE n \in 1..Len(kids)
      <3>1. all[n] = kids[n]
        BY <1>9, <2>1
      <3>2. /\ all[n].parent \in 1..(k - 1)
            /\ Words(all[n].text) \subseteq Lines(groups[all[n].parent])
        BY <1>1, <2>1, <3>1
      <3> QED
        BY <3>2
    <2>2. CASE n \notin 1..Len(kids)
      <3>1. PICK d \in 1..Len(more) : n = Len(kids) + d
        <4>1. n - Len(kids) \in 1..Len(more) /\ n = Len(kids) + (n - Len(kids))
          BY <1>9, <1>10, <2>2
        <4> QED
          BY <4>1
      <3>2. all[n].parent = k /\ all[n].text = own[d]
        BY <1>9, <3>1 DEF TextsOf
      <3>3. Len(own) = Len(more)
        BY TextsJoin
      <3>4. Words(own[d]) \subseteq Lines(groups[k])
        BY <3>1, <3>3 DEF Sound
      <3> QED
        BY <3>2, <3>4
    <2> QED
      BY <2>1, <2>2
  <1>11. Owns(all, groups, k, o)
    BY <1>8, <1>10 DEF Owns
  <1> QED
    BY <1>6, <1>11

(* The children of all groups.                                             *)
LEMMA ChildrenOfGroups ==
  ASSUME NEW o, Allowed(o), NEW bs \in Seq(BlockType), \A k \in 1..Len(bs) : Words(bs[k].tokens) # {},
         NEW groups, Whole(groups, bs, Len(bs)),
         NEW kids, kids = C!FlattenSeq([k \in DOMAIN groups |->
                            LET own == C!ChildGroups(groups[k], o)
                            IN  [n \in DOMAIN own |-> [parent |-> k, text |-> own[n]]]])
  PROVE  Owns(kids, groups, Len(groups), o)
  <1> DEFINE m == Len(groups)
             own(k) == C!ChildGroups(groups[k], o)
             of(k) == Labelled(k, own(k))
             seqs == [k \in 1..m |-> of(k)]
  <1>1. /\ groups \in Seq(Seq(BlockType))
        /\ \A g \in 1..m : InSequence(groups[g])
        /\ \A g \in 1..m : \A i \in 1..Len(groups[g]) : \E j \in 1..Len(bs) : groups[g][i] = bs[j]
        /\ \A g, h \in 1..m : g < h => Before(Lines(groups[g]), Lines(groups[h]))
    BY DEF Whole
  <1>2. m \in Nat /\ DOMAIN groups = 1..m
    BY <1>1
  <1>3. kids = C!FlattenSeq(seqs)
    BY <1>2, Zenon DEF Labelled
  <1>4. ASSUME NEW k \in 1..m
        PROVE  Sound(own(k), Lines(groups[k]), Kept(groups[k], Len(groups[k])), Room(o))
    <2>1. groups[k] \in Seq(BlockType)
      BY <1>1, <1>4
    <2>2. \A i \in 1..Len(groups[k]) : Words(groups[k][i].tokens) # {}
      BY <1>1, <1>4
    <2>3. InSequence(groups[k])
      BY <1>1, <1>4
    <2> QED
      BY <2>1, <2>2, <2>3, ChildrenOfGroup DEF Lines
  <1> HIDE DEF own
  <1>5. ASSUME NEW k \in 1..m
        PROVE  /\ of(k) \in Seq(ChildType) /\ TextsOf(of(k)) = own(k)
               /\ \A n \in 1..Len(of(k)) : of(k)[n].parent = k
    <2>1. own(k) \in Seq(Seq(Nat)) /\ k \in Nat
      BY <1>2, <1>4, <1>5 DEF Sound
    <2> QED
      BY <2>1, ChildrenOfOne, Zenon
  <1>6. ASSUME NEW k \in 1..m, NEW some, Owns(some, groups, k - 1, o)
        PROVE  Owns(some \o of(k), groups, k, o)
    <2> HIDE DEF of
    <2> QED
      BY <1>1, <1>4, <1>5, <1>6, OwnedGrow
  <1> HIDE DEF of, m
  <1>7. seqs \in Seq(Seq(ChildType)) /\ Len(seqs) = m /\ \A k \in 1..m : seqs[k] = of(k)
    BY <1>2, <1>5
  <1> HIDE DEF seqs
  <1>8. PICK f : Flattened(f, seqs, ChildType) /\ C!FlattenSeq(seqs) = f[m]
    BY <1>7, FlattenUnfolds
  <1>9. f[0] = <<>> /\ \A k \in 1..m : f[k] = f[k - 1] \o of(k)
    BY <1>7, <1>8 DEF Flattened
  <1> DEFINE T == {k \in 0..m : Owns(f[k], groups, k, o)}
  <1>10. 0 \in T
    <2>1. Owns(<<>>, groups, 0, o)
      <3>1. LinesUpTo(groups, 0) = {} /\ KeptUpTo(groups, 0) = {}
        BY DEF LinesUpTo, KeptUpTo
      <3>2. TextsOf(<<>>) = <<>>
        BY DEF TextsOf
      <3>3. Sound(<<>>, {}, {}, Room(o))
        BY DEF Sound, Climbs
      <3>4. <<>> \in Seq(ChildType) /\ \A n \in 1..Len(<<>>) : FALSE
        OBVIOUS
      <3> QED
        BY <3>1, <3>2, <3>3, <3>4 DEF Owns
    <2> QED
      BY <1>2, <1>9, <2>1
  <1>11. ASSUME NEW k \in 1..m, k - 1 \in T PROVE k \in T
    <2>1. Owns(f[k - 1] \o of(k), groups, k, o)
      BY <1>6, <1>11
    <2>2. k \in 0..m
      BY <1>2
    <2> QED
      BY <1>9, <2>1, <2>2
  <1>12. \A k \in 0..m : k \in T
    <2> HIDE DEF T
    <2> QED
      BY <1>2, <1>10, <1>11, UpTo
  <1>13. Owns(f[m], groups, m, o)
    <2>1. m \in 0..m
      BY <1>2
    <2> QED
      BY <1>12, <2>1
  <1>14. Owns(kids, groups, m, o)
    BY <1>3, <1>8, <1>13, Zenon
  <1> QED
    BY <1>14 DEF m

-----------------------------------------------------------------------------
(* What a sequence holds.                                                  *)
LEMMA ToSetIs ==
  ASSUME NEW X, NEW t \in Seq(X)
  PROVE  /\ C!ToSet(t) = {t[i] : i \in 1..Len(t)} /\ IsFiniteSet(C!ToSet(t))
         /\ C!ToSet(t) \subseteq X
  <1>1. DOMAIN t = 1..Len(t) /\ Len(t) \in Nat /\ t \in [1..Len(t) -> X]
    OBVIOUS
  <1>2. C!ToSet(t) = {t[i] : i \in 1..Len(t)}
    BY <1>1 DEF C!ToSet
  <1>3. IsFiniteSet(1..Len(t))
    BY <1>1, FS_Interval
  <1>4. IsFiniteSet({t[i] : i \in 1..Len(t)})
    <2> DEFINE I == 1..Len(t)
    <2>1. IsFiniteSet(I) /\ \A i \in I : t[i] \in X
      BY <1>1, <1>3
    <2> DEFINE f == [i \in I |-> t[i]]
               Y == {t[i] : i \in I}
    <2>2. f \in Surjection(I, Y)
      BY DEF Surjection
    <2> HIDE DEF I, f, Y
    <2>3. IsFiniteSet(Y)
      BY <2>1, <2>2, FS_Surjection
    <2> QED
      BY <2>3 DEF Y, I
  <1> QED
    BY <1>1, <1>2, <1>4

(* How far a text reaches.                                                 *)
LEMMA ReachIs ==
  ASSUME NEW t \in Seq(Nat), NEW r, r = C!Max(C!ToSet(t) \cup {C!Mark})
  PROVE  /\ r \in Nat /\ (r # 0 => r \in Words(t))
         /\ \A x \in Words(t) : x <= r
  <1> DEFINE U == C!ToSet(t) \cup {0}
  <1>1. /\ C!ToSet(t) = {t[i] : i \in 1..Len(t)} /\ IsFiniteSet(C!ToSet(t))
        /\ C!ToSet(t) \subseteq Nat
    BY ToSetIs
  <1>2. IsFiniteSet(U)
    <2> HIDE DEF C!ToSet
    <2>1. IsFiniteSet({0})
      BY FS_Singleton
    <2> QED
      BY <1>1, <2>1, FS_Union
  <1>3. r = C!Max(U)
    BY DEF C!Mark
  <1>4. U \subseteq Int /\ U # {}
    BY <1>1
  <1>5. \A x : x \in U <=> x = 0 \/ x \in Words(t)
    BY <1>1 DEF Words
  <1> HIDE DEF U
  <1>6. r \in U /\ \A i \in U : i <= r
    BY <1>2, <1>3, <1>4, MaxOfSome
  <1>7. U \subseteq Nat
    BY <1>1 DEF U
  <1> QED
    BY <1>5, <1>6, <1>7

(* Who leads reaches no less far.                                          *)
LEMMA LeadersReach ==
  ASSUME NEW t \in Seq(Nat), NEW u \in Seq(Nat), GoesBefore(t, u),
         NEW r, r = C!Max(C!ToSet(t) \cup {C!Mark}), NEW q, q = C!Max(C!ToSet(u) \cup {C!Mark}), q # 0
  PROVE  r <= q
  <1>1. r \in Nat /\ (r # 0 => r \in Words(t))
    BY ReachIs
  <1>2. q \in Nat /\ q \in Words(u) /\ \A x \in Words(u) : x <= q
    BY ReachIs
  <1>3. CASE r = 0
    BY <1>2, <1>3
  <1>4. CASE r # 0
    <2>1. PICK y \in Words(u) : r <= y
      BY <1>1, <1>2, <1>4 DEF GoesBefore
    <2>2. y \in Nat
      BY DEF Words
    <2>3. y <= q
      BY <1>2
    <2> QED
      BY <1>1, <1>2, <2>1, <2>2, <2>3
  <1> QED
    BY <1>3, <1>4

(* The lines a text holds are in it, and all else in it are marks.         *)
LEMMA WordsAreThere ==
  ASSUME NEW t \in Seq(Nat)
  PROVE  Words(t) \subseteq C!ToSet(t) /\ C!ToSet(t) \ {0} = Words(t)
  BY ToSetIs DEF Words

(* The blocks that have been read, as the lemmas above take them.          *)
LEMMA BlocksInSequence ==
  ASSUME v5 \in Seq(BlockType), v3 \in Nat, C!BlocksAreInOrder
  PROVE  /\ InSequence(v5)
         /\ \A k \in 1..Len(v5) :
              /\ Words(v5[k].tokens) # {} /\ Words(v5[k].tokens) = C!ToSet(v5[k].tokens)
              /\ v5[k].tokens \in Seq(Nat)
  <1>1. DOMAIN v5 = 1..Len(v5)
    OBVIOUS
  <1>2. ASSUME NEW k \in 1..Len(v5)
        PROVE  /\ v5[k].tokens \in Seq(Nat) /\ Rising(v5[k].tokens)
               /\ Words(v5[k].tokens) # {} /\ Words(v5[k].tokens) = C!ToSet(v5[k].tokens)
    <2>1. v5[k] \in BlockType
      BY <1>2
    <2>2. PICK t \in Seq(Nat) : t = v5[k].tokens
      BY <2>1 DEF BlockType
    <2>3. /\ t # <<>> /\ C!ToSet(t) \subseteq 1..(v3 - 1)
          /\ \A m, n \in DOMAIN t : m < n => t[m] < t[n]
      BY <1>1, <1>2, <2>2 DEF C!BlocksAreInOrder
    <2>4. C!ToSet(t) = {t[i] : i \in 1..Len(t)}
      BY ToSetIs
    <2>5. DOMAIN t = 1..Len(t) /\ Len(t) \in Nat /\ Len(t) # 0 /\ \A i \in 1..Len(t) : t[i] \in Nat
      BY <2>3
    <2>6. Rising(t)
      <3>1. \A i, j \in 1..Len(t) : i < j => t[i] < t[j]
        BY <2>3, <2>5
      <3>2. \A i, j \in 1..Len(t) : t[i] < t[j] => t[i] <= t[j]
        BY <2>5
      <3> QED
        BY <3>1, <3>2, Zenon DEF Rising
    <2>7. ASSUME NEW i \in 1..Len(t) PROVE t[i] # 0
      <3>1. t[i] \in C!ToSet(t)
        BY <2>4
      <3>2. t[i] \in 1..(v3 - 1)
        BY <2>3, <3>1, Zenon
      <3> QED
        BY <3>2
    <2>8. Words(t) = C!ToSet(t)
      BY <2>4, <2>7 DEF Words
    <2>9. Words(t) # {}
      <3>1. 1 \in 1..Len(t)
        BY <2>5
      <3> QED
        BY <2>4, <2>8, <3>1
    <2> QED
      BY <2>2, <2>6, <2>8, <2>9
  <1>3. ASSUME NEW j \in 1..Len(v5), NEW k \in 1..Len(v5), j < k
        PROVE  Before(Words(v5[j].tokens), Words(v5[k].tokens))
    <2>1. \A x \in C!ToSet(v5[j].tokens), y \in C!ToSet(v5[k].tokens) : x < y
      BY <1>1, <1>3 DEF C!BlocksAreInOrder
    <2> QED
      BY <1>2, <2>1 DEF Before
  <1> QED
    BY <1>2, <1>3 DEF InSequence

-----------------------------------------------------------------------------
(* The children of a plan, with their parents.                             *)
Delivered(kids, texts, bs, o) ==
  /\ kids \in Seq(ChildType)
  /\ Sound(TextsOf(kids), Lines(bs), Kept(bs, Len(bs)), Room(o))
  /\ \A n \in 1..Len(kids) : kids[n].parent # 0 =>
       /\ texts[kids[n].parent] \in Seq(Nat)
       /\ Words(kids[n].text) \subseteq Words(texts[kids[n].parent])

(* The text of all blocks, that a legacy plan cuts.                        *)
LEMMA TextOfBlocks ==
  ASSUME NEW bs \in Seq(BlockType)
  PROVE  /\ C!Text(bs) \in Seq(Nat) /\ Words(C!Text(bs)) = Lines(bs)
         /\ InSequence(bs) => Rising(C!Text(bs))
  <1>1. /\ C!Text(bs) \in Seq(Nat) /\ (InSequence(bs) => Rising(C!Text(bs)))
        /\ \A x : x \in Words(C!Text(bs)) <=> \E k \in 1..Len(bs) : x \in Words(bs[k].tokens)
    BY TextHolds
  <1>2. \A x : x \in Lines(bs) <=> \E j \in 1..Len(bs) : x \in Words(bs[j].tokens)
    BY LinesAre
  <1>3. Words(C!Text(bs)) = Lines(bs)
    BY <1>1, <1>2
  <1> QED
    BY <1>1, <1>3

LEMMA KeptAreLines ==
  ASSUME NEW bs
  PROVE  Kept(bs, Len(bs)) \subseteq Lines(bs)
  BY DEF Kept, Lines, Read

(* A legacy plan.                                                          *)
LEMMA PiecesAreSound ==
  ASSUME NEW o, Allowed(o), NEW bs \in Seq(BlockType), bs # <<>>, InSequence(bs),
         \A k \in 1..Len(bs) : Words(bs[k].tokens) # {},
         NEW ends, NEW pieces, pieces = C!SplitText(C!Text(bs), o.target, o.overlap, ends),
         NEW kids, kids = Labelled(0, pieces), NEW texts
  PROVE  Delivered(kids, texts, bs, o)
  <1>1. PICK t \in Seq(Nat) : t = C!Text(bs)
    BY TextOfBlocks
  <1>2. Words(t) = Lines(bs) /\ Rising(t)
    BY <1>1, TextOfBlocks
  <1>3. t # <<>>
    <2>1. 1 \in 1..Len(bs)
      OBVIOUS
    <2>2. PICK x : x \in Words(bs[1].tokens)
      BY <2>1
    <2>3. x \in Lines(bs)
      BY <2>1, <2>2, LinesAre
    <2> QED
      BY <1>2, <2>3, NoText
  <1>4. o.target \in Nat \ {0} /\ o.overlap \in Nat
    BY DEF Allowed
  <1>5. pieces = C!SplitText(t, o.target, o.overlap, ends)
    BY <1>1, Zenon
  <1>6. Divided(pieces, t) /\ Climbs(pieces) /\ \A n \in 1..Len(pieces) : Len(pieces[n]) <= o.target
    BY <1>2, <1>3, <1>4, <1>5, SplitTextDivides
  <1>7. Sound(pieces, Lines(bs), Lines(bs), Room(o))
    <2>1. ASSUME NEW n \in 1..Len(pieces) PROVE Len(pieces[n]) <= Room(o)
      <3>1. pieces[n] \in Seq(Nat) /\ Len(pieces[n]) \in Nat /\ Len(pieces[n]) <= o.target
        BY <1>6, <2>1 DEF Divided
      <3> QED
        BY <1>4, <3>1 DEF Room
    <2> QED
      BY <1>2, <1>6, <2>1 DEF Sound, Divided
  <1>8. pieces \in Seq(Seq(Nat))
    BY <1>6 DEF Divided
  <1>9. kids \in Seq(ChildType) /\ TextsOf(kids) = pieces /\ \A n \in 1..Len(kids) : kids[n].parent = 0
    <2>1. 0 \in Nat
      OBVIOUS
    <2> QED
      BY <1>8, <2>1, ChildrenOfOne
  <1>10. Sound(TextsOf(kids), Lines(bs), Kept(bs, Len(bs)), Room(o))
    <2>1. Kept(bs, Len(bs)) \subseteq Lines(bs)
      BY KeptAreLines
    <2>2. Sound(pieces, Lines(bs), Kept(bs, Len(bs)), Room(o))
      BY <1>7, <2>1, SoundNarrows
    <2> QED
      BY <1>9, <2>2
  <1> QED
    BY <1>9, <1>10 DEF Delivered

(* A plan with parents and children.                                       *)
LEMMA OwnedAreSound ==
  ASSUME NEW o, NEW bs \in Seq(BlockType),
         NEW groups, Whole(groups, bs, Len(bs)), NEW kids, Owns(kids, groups, Len(groups), o),
         NEW texts, \A g \in 1..Len(groups) : texts[g] = C!Text(groups[g])
  PROVE  Delivered(kids, texts, bs, o)
  <1> DEFINE m == Len(groups)
  <1>1. /\ groups \in Seq(Seq(BlockType))
        /\ \A g \in 1..m : \A i \in 1..Len(groups[g]) : \E j \in 1..Len(bs) : groups[g][i] = bs[j]
        /\ \A j \in 1..Len(bs) : \E g \in 1..m : \E i \in 1..Len(groups[g]) : groups[g][i] = bs[j]
    BY DEF Whole
  <1>2. \A g \in 1..m : groups[g] \in Seq(BlockType)
    BY <1>1
  <1>3. /\ kids \in Seq(ChildType)
        /\ Sound(TextsOf(kids), LinesUpTo(groups, m), KeptUpTo(groups, m), Room(o))
        /\ \A n \in 1..Len(kids) :
             kids[n].parent \in 1..m /\ Words(kids[n].text) \subseteq Lines(groups[kids[n].parent])
    BY DEF Owns
  <1> HIDE DEF m
  <1>4. ASSUME NEW x \in LinesUpTo(groups, m) PROVE x \in Lines(bs)
    <2>1. PICK g \in 1..m : x \in Lines(groups[g])
      BY <1>4 DEF LinesUpTo
    <2>2. PICK i \in 1..Len(groups[g]) : x \in Words(groups[g][i].tokens)
      BY <1>2, <2>1, LinesAre
    <2>3. PICK j \in 1..Len(bs) : groups[g][i] = bs[j]
      BY <1>1, <2>2
    <2>4. x \in Words(bs[j].tokens)
      BY <2>2, <2>3, Zenon
    <2> QED
      BY <2>4, LinesAre
  <1>5. ASSUME NEW x \in Kept(bs, Len(bs)) PROVE x \in KeptUpTo(groups, m)
    <2>1. PICK j \in 1..Len(bs) : x \in Words(bs[j].tokens) /\ bs[j].type # "HEADING"
      BY <1>5 DEF Kept
    <2>2. PICK g \in 1..m : \E i \in 1..Len(groups[g]) : groups[g][i] = bs[j]
      BY <1>1
    <2>3. PICK i \in 1..Len(groups[g]) : groups[g][i] = bs[j]
      BY <2>2
    <2>4. x \in Words(groups[g][i].tokens) /\ groups[g][i].type # "HEADING" /\ x \in Nat
      BY <1>5, <2>1, <2>3 DEF Kept
    <2>5. x \in Kept(groups[g], Len(groups[g]))
      BY <2>3, <2>4 DEF Kept
    <2> QED
      BY <2>4, <2>5 DEF KeptUpTo
  <1>6. Sound(TextsOf(kids), Lines(bs), KeptUpTo(groups, m), Room(o))
    <2>1. LinesUpTo(groups, m) \subseteq Lines(bs)
      BY <1>4
    <2> QED
      BY <1>3, <2>1, SoundWidens
  <1>7. Sound(TextsOf(kids), Lines(bs), Kept(bs, Len(bs)), Room(o))
    <2>1. Kept(bs, Len(bs)) \subseteq KeptUpTo(groups, m)
      BY <1>5
    <2> QED
      BY <1>6, <2>1, SoundNarrows
  <1>8. ASSUME NEW n \in 1..Len(kids)
        PROVE  /\ texts[kids[n].parent] \in Seq(Nat)
               /\ Words(kids[n].text) \subseteq Words(texts[kids[n].parent])
    <2>1. PICK g \in 1..m : g = kids[n].parent
      BY <1>3, <1>8
    <2>2. Words(kids[n].text) \subseteq Lines(groups[g])
      BY <1>3, <1>8, <2>1
    <2>3. groups[g] \in Seq(BlockType)
      BY <1>2, <2>1
    <2>4. Words(C!Text(groups[g])) = Lines(groups[g]) /\ C!Text(groups[g]) \in Seq(Nat)
      BY <2>3, TextOfBlocks
    <2>5. texts[g] = C!Text(groups[g])
      BY DEF m
    <2> QED
      BY <2>1, <2>2, <2>4, <2>5
  <1> QED
    BY <1>3, <1>7, <1>8 DEF Delivered

(* What a plan delivers.                                                   *)
LEMMA PlanDelivers ==
  ASSUME C!Plan, C!ConstantsAssumption, v5 \in Seq(BlockType), v3 \in Nat, C!BlocksAreInOrder,
         v5 # <<>>
  PROVE  Allowed(v6') /\ Delivered(v8', v7', v5, v6')
  <1>1. PICK o \in Options : /\ C!Admitted(o) /\ v6' = o
          /\ IF v5 = <<>> THEN UNCHANGED <<v7, v8>>
             ELSE IF o.strategy = "LEGACY"
             THEN LET ends == {Len(C!Text(SubSeq(v5, 1, k))) : k \in DOMAIN v5}
                      pieces == C!SplitText(C!Text(v5), o.target, o.overlap, ends)
                  IN /\ v7' = <<>>
                     /\ v8' = [k \in DOMAIN pieces |-> [parent |-> 0, text |-> pieces[k]]]
             ELSE LET groups == C!ParentGroups(o.parent)
                  IN /\ v7' = [k \in DOMAIN groups |-> C!Text(groups[k])]
                     /\ v8' = C!FlattenSeq([k \in DOMAIN groups |->
                          LET own == C!ChildGroups(groups[k], o)
                          IN [n \in DOMAIN own |-> [parent |-> k, text |-> own[n]]]])
    BY DEF C!Plan
  <1>2. Allowed(o)
    BY <1>1 DEF C!Admitted, C!ConstantsAssumption, Allowed
  <1>3. PICK bs \in Seq(BlockType) : bs = v5
    OBVIOUS
  <1>4. InSequence(bs) /\ \A k \in 1..Len(bs) : Words(bs[k].tokens) # {}
    BY <1>3, BlocksInSequence
  <1>5. CASE o.strategy = "LEGACY"
    <2> DEFINE ends == {Len(C!Text(SubSeq(v5, 1, k))) : k \in DOMAIN v5}
               pieces == C!SplitText(C!Text(v5), o.target, o.overlap, ends)
    <2>1. v8' = Labelled(0, pieces)
      BY <1>1, <1>5 DEF Labelled
    <2> HIDE DEF ends
    <2>2. pieces = C!SplitText(C!Text(bs), o.target, o.overlap, ends)
      BY <1>3
    <2> HIDE DEF pieces
    <2>3. Delivered(v8', v7', bs, o)
      BY <1>2, <1>3, <1>4, <2>1, <2>2, PiecesAreSound
    <2> QED
      BY <1>1, <1>2, <1>3, <2>3, Zenon
  <1>6. CASE o.strategy # "LEGACY"
    <2> DEFINE groups == C!ParentGroups(o.parent)
    <2>1. /\ v7' = [k \in DOMAIN groups |-> C!Text(groups[k])]
          /\ v8' = C!FlattenSeq([k \in DOMAIN groups |->
                     LET own == C!ChildGroups(groups[k], o)
                     IN [n \in DOMAIN own |-> [parent |-> k, text |-> own[n]]]])
      BY <1>1, <1>6
    <2>2. Whole(groups, bs, Len(bs))
      BY <1>3, <1>4, ParentGroupsAreWhole
    <2> HIDE DEF groups
    <2>3. Owns(v8', groups, Len(groups), o)
      BY <1>2, <1>4, <2>1, <2>2, ChildrenOfGroups
    <2>4. \A g \in 1..Len(groups) : v7'[g] = C!Text(groups[g])
      <3>1. DOMAIN groups = 1..Len(groups)
        BY <2>2 DEF Whole
      <3> QED
        BY <2>1, <3>1
    <2>5. Delivered(v8', v7', bs, o)
      BY <2>2, <2>3, <2>4, OwnedAreSound
    <2> QED
      BY <1>1, <1>2, <1>3, <2>5, Zenon
  <1> QED
    BY <1>5, <1>6

-----------------------------------------------------------------------------
(* A plan loses no line, puts none out of order, and no child is oversized *)
(* or holds what its parent does not.                                      *)
LEMMA PlanKeeps ==
  ASSUME C!Plan, C!ConstantsAssumption, C!IInv
  PROVE  C!NothingIsLost' /\ C!ChildrenFit'
  <1>1. /\ v5 \in Seq(BlockType) /\ v3 \in 1..(Len(v2) + 1) /\ v2 \in Seq(C!Kinds)
        /\ C!BlocksAreInOrder /\ C!ReadIsKept
        /\ v1 \in {"start", "parsing"} => v8 = <<>>
    BY DEF C!IInv, BlockType
  <1>2. /\ v1 = "parsing" /\ v3 > Len(v2)
        /\ v1' = IF v8' = <<>> THEN "refused" ELSE "planned"
        /\ v2' = v2 /\ v3' = v3 /\ v4' = v4 /\ v5' = v5
        /\ v5 = <<>> => v8' = v8
    BY DEF C!Plan
  <1>3. Len(v2) \in Nat /\ v3 = Len(v2) + 1 /\ DOMAIN v2 = 1..Len(v2)
    BY <1>1, <1>2
  <1>4. SUFFICES ASSUME v1' = "planned" PROVE C!NothingIsLost' /\ C!ChildrenFit'
    BY DEF C!NothingIsLost, C!ChildrenFit
  <1>5. v8' # <<>>
    BY <1>2, <1>4
  <1>6. v5 # <<>>
    BY <1>1, <1>2, <1>5
  <1>7. v3 \in Nat
    BY <1>3
  <1>8. Allowed(v6') /\ Delivered(v8', v7', v5, v6')
    BY <1>1, <1>6, <1>7, PlanDelivers
  <1>20. PICK o, ps : o = v6' /\ ps = v7'
    OBVIOUS
  <1>9. PICK kids \in Seq(ChildType) : kids = v8' /\ o = v6' /\ ps = v7'
    BY <1>8, <1>20 DEF Delivered
  <1>10. /\ Sound(TextsOf(kids), Lines(v5), Kept(v5, Len(v5)), Room(o))
         /\ \A n \in 1..Len(kids) : kids[n].parent # 0 =>
              /\ ps[kids[n].parent] \in Seq(Nat)
              /\ Words(kids[n].text) \subseteq Words(ps[kids[n].parent])
    BY <1>8, <1>9 DEF Delivered
  <1>11. DOMAIN kids = 1..Len(kids) /\ Len(TextsOf(kids)) = Len(kids)
    BY TextsJoin
  <1>12. ASSUME NEW n \in 1..Len(kids)
         PROVE  /\ kids[n].text \in Seq(Nat) /\ kids[n].text = TextsOf(kids)[n]
                /\ Len(kids[n].text) <= Room(o)
    <2>1. kids[n] \in ChildType
      OBVIOUS
    <2>2. kids[n].text = TextsOf(kids)[n]
      BY DEF TextsOf
    <2>3. Len(TextsOf(kids)[n]) <= Room(o)
      BY <1>10, <1>11 DEF Sound
    <2> QED
      BY <2>1, <2>2, <2>3 DEF ChildType
  <1>13. /\ InSequence(v5)
         /\ \A k \in 1..Len(v5) :
              /\ Words(v5[k].tokens) = C!ToSet(v5[k].tokens)
              /\ v5[k].tokens \in Seq(Nat)
    BY <1>1, <1>7, BlocksInSequence
  <1>14. DOMAIN v5 = 1..Len(v5)
    BY <1>1
  <1>15. ASSUME NEW i \in 1..Len(v2), v2[i] \notin {"blank", "fence"}
         PROVE  \E k \in 1..Len(v5) :
                  /\ i \in C!ToSet(v5[k].tokens)
                  /\ v5[k].type # "HEADING" =>
                       \E n \in 1..Len(kids) : i \in C!ToSet(kids[n].text)
    <2>1. i \in 1..(v3 - 1)
      BY <1>3
    <2>2. PICK k \in 1..Len(v5) : i \in C!ToSet(v5[k].tokens)
      BY <1>1, <1>14, <1>15, <2>1 DEF C!ReadIsKept
    <2>3. ASSUME v5[k].type # "HEADING" PROVE \E n \in 1..Len(kids) : i \in C!ToSet(kids[n].text)
      <3>1. i \in Words(v5[k].tokens) /\ i \in Nat
        BY <1>3, <1>13, <2>2
      <3>2. i \in Kept(v5, Len(v5))
        BY <2>3, <3>1 DEF Kept
      <3>3. PICK n \in 1..Len(kids) : i \in Words(TextsOf(kids)[n])
        BY <1>10, <1>11, <3>2 DEF Sound
      <3>4. i \in Words(kids[n].text)
        BY <1>12, <3>3
      <3>5. Words(kids[n].text) \subseteq C!ToSet(kids[n].text)
        BY <1>12, WordsAreThere
      <3> QED
        BY <3>4, <3>5
    <2> QED
      BY <2>2, <2>3
  <1>16. ASSUME NEW m \in 1..Len(kids), NEW n \in 1..Len(kids), m < n,
                C!Reach(kids[n]) # C!Mark
         PROVE  C!Reach(kids[m]) <= C!Reach(kids[n])
    <2>1. PICK t \in Seq(Nat), u \in Seq(Nat) : t = kids[m].text /\ u = kids[n].text
      BY <1>12
    <2>2. GoesBefore(t, u)
      BY <1>10, <1>11, <1>12, <1>16, <2>1 DEF Sound, Climbs
    <2>3. /\ C!Reach(kids[m]) = C!Max(C!ToSet(t) \cup {C!Mark})
          /\ C!Reach(kids[n]) = C!Max(C!ToSet(u) \cup {C!Mark})
      BY <2>1, Zenon DEF C!Reach
    <2>4. C!Reach(kids[n]) # 0
      BY <1>16 DEF C!Mark
    <2> QED
      BY <2>2, <2>3, <2>4, LeadersReach
  <1>17. ASSUME NEW n \in 1..Len(kids)
         PROVE  /\ Len(kids[n].text) <= o.target + o.overlap + 2
                /\ kids[n].parent # 0 =>
                     C!ToSet(kids[n].text) \ {C!Mark} \subseteq C!ToSet(ps[kids[n].parent])
    <2>1. Len(kids[n].text) <= o.target + o.overlap + 2
      BY <1>12 DEF Room
    <2>2. ASSUME kids[n].parent # 0
          PROVE  C!ToSet(kids[n].text) \ {C!Mark} \subseteq C!ToSet(ps[kids[n].parent])
      <3>1. PICK p \in Seq(Nat) : p = ps[kids[n].parent]
        BY <1>10, <2>2
      <3>2. Words(kids[n].text) \subseteq Words(p)
        BY <1>10, <2>2, <3>1
      <3>3. C!ToSet(kids[n].text) \ {0} = Words(kids[n].text)
        BY <1>12, WordsAreThere
      <3>4. Words(p) \subseteq C!ToSet(p)
        BY WordsAreThere
      <3> QED
        BY <3>1, <3>2, <3>3, <3>4 DEF C!Mark
    <2> QED
      BY <2>1, <2>2
  <1>18. C!NothingIsLost'
    BY <1>2, <1>3, <1>9, <1>11, <1>14, <1>15, <1>16, Zenon DEF C!NothingIsLost
  <1>19. C!ChildrenFit'
    BY <1>9, <1>11, <1>17, Zenon DEF C!ChildrenFit
  <1> QED
    BY <1>18, <1>19

-----------------------------------------------------------------------------
LEMMA ChunkCounts ==
  \A U : C!Cardinality(U) = Cardinality(U)
  BY DEF C!Cardinality, Cardinality, C!IsFiniteSet, IsFiniteSet

(* Numbers in order.                                                       *)
Rises(s, T) ==
  /\ s \in [1..Cardinality(T) -> T]
  /\ \A j, k \in 1..Cardinality(T) : j < k => s[j] < s[k]

LEMMA FunctionIsSeq ==
  ASSUME NEW X, NEW n \in Nat, NEW s, s \in [1..n -> X]
  PROVE  s \in Seq(X) /\ Len(s) = n
  OBVIOUS

(* There is one way to put numbers in order, and it holds them all.        *)
LEMMA InOrderIs ==
  ASSUME NEW T, IsFiniteSet(T), T \subseteq Nat, NEW s, s = C!InOrder(T)
  PROVE  /\ s \in Seq(Nat) /\ Len(s) = Cardinality(T) /\ C!ToSet(s) = T
         /\ \A j, k \in 1..Len(s) : j < k => s[j] < s[k]
         /\ \A i \in 1..Len(s) : s[i] \in T
  <1> DEFINE N == Cardinality(T)
             before == {p \in T \X T : p[1] < p[2]}
  <1>1. N \in Nat
    BY FS_CardinalityType
  <1>2. \A i, j \in T : <<i, j>> \in before <=> i < j
    OBVIOUS
  <1>3. Orders(before, T)
    <2> HIDE DEF before
    <2>1. \A i \in T : <<i, i>> \notin before
      BY <1>2
    <2>2. \A i, j, k \in T : <<i, j>> \in before /\ <<j, k>> \in before => <<i, k>> \in before
      BY <1>2
    <2>3. \A i, j \in T : i # j => <<i, j>> \in before \/ <<j, i>> \in before
      BY <1>2
    <2> QED
      BY <2>1, <2>2, <2>3, Zenon DEF Orders
  <1>4. PICK f : Sorts(f, before, T)
    <2> HIDE DEF before
    <2> QED
      BY <1>3, SortedExists
  <1>5. Rises(f, T)
    <2> HIDE DEF before
    <2>1. f \in [1..N -> T] /\ \A m, n \in 1..N : m < n => <<f[m], f[n]>> \in before
      BY <1>4 DEF Sorts
    <2>2. \A j, k \in 1..N : j < k => f[j] < f[k]
      BY <1>2, <2>1
    <2> QED
      BY <2>1, <2>2 DEF Rises
  <1>6. s = CHOOSE q \in [1..N -> T] : \A j, k \in 1..N : j < k => q[j] < q[k]
    BY ChunkCounts, Zenon DEF C!InOrder
  <1>7. s \in [1..N -> T] /\ \A j, k \in 1..N : j < k => s[j] < s[k]
    <2>1. f \in [1..N -> T] /\ \A j, k \in 1..N : j < k => f[j] < f[k]
      BY <1>5 DEF Rises
    <2> HIDE DEF N
    <2> QED
      BY <1>6, <2>1, Zenon
  <1> HIDE DEF N
  <1>8. s \in Seq(Nat) /\ Len(s) = N
    <2>1. s \in [1..N -> Nat]
      BY <1>7
    <2> QED
      BY <1>1, <2>1, FunctionIsSeq
  <1>9. s \in Injection(1..N, T)
    <2>1. \A j, k \in 1..N : j # k => s[j] # s[k]
      <3> SUFFICES ASSUME NEW j \in 1..N, NEW k \in 1..N, j # k PROVE s[j] # s[k]
        OBVIOUS
      <3>1. j < k \/ k < j
        BY <1>1
      <3>2. s[j] \in Nat /\ s[k] \in Nat /\ (s[j] < s[k] \/ s[k] < s[j])
        BY <1>7, <3>1
      <3> QED
        BY <3>2
    <2> QED
      BY <1>7, <2>1, Zenon DEF Injection, IsInjective
  <1>10. s \in Surjection(1..N, T)
    <2>1. IsFiniteSet(1..N) /\ Cardinality(1..N) = N
      BY <1>1, FS_Interval
    <2> QED
      BY <1>9, <2>1, FS_Injection DEF N
  <1>11. T = {s[i] : i \in 1..N}
    BY <1>7, <1>10 DEF Surjection
  <1>12. C!ToSet(s) = {s[i] : i \in 1..Len(s)}
    BY <1>8, ToSetIs
  <1> QED
    BY <1>7, <1>8, <1>11, <1>12 DEF N

(* The blocks read before the line next of a document.                     *)
Ordered(bs, next, document) ==
  /\ \A k \in DOMAIN bs :
       /\ bs[k].tokens # <<>> /\ C!ToSet(bs[k].tokens) \subseteq 1..(next - 1)
       /\ \A m, n \in DOMAIN bs[k].tokens : m < n => bs[k].tokens[m] < bs[k].tokens[n]
       /\ bs[k].type = "HEADING" =>
            Len(bs[k].tokens) = 1 /\ document[bs[k].tokens[1]] \in C!Headings
  /\ \A j, k \in DOMAIN bs :
       j < k => \A x \in C!ToSet(bs[j].tokens), y \in C!ToSet(bs[k].tokens) : x < y

(* Every line of text before next is in a block.                           *)
HeldSoFar(bs, next, document) ==
  \A i \in 1..(next - 1) : document[i] \notin {"blank", "fence"} =>
    \E k \in DOMAIN bs : i \in C!ToSet(bs[k].tokens)

LEMMA OrderedLater ==
  ASSUME NEW bs, NEW from \in Nat, NEW document, Ordered(bs, from, document),
         NEW next \in Nat, from <= next
  PROVE  Ordered(bs, next, document)
  <1>1. 1..(from - 1) \subseteq 1..(next - 1)
    OBVIOUS
  <1> QED
    BY <1>1 DEF Ordered

LEMMA HeldLater ==
  ASSUME NEW bs, NEW from \in Nat, NEW document, HeldSoFar(bs, from, document),
         NEW next \in Nat, from <= next,
         \A i \in from..(next - 1) : document[i] \in {"blank", "fence"}
  PROVE  HeldSoFar(bs, next, document)
  <1>1. \A i \in 1..(next - 1) : i \in 1..(from - 1) \/ i \in from..(next - 1)
    OBVIOUS
  <1> QED
    BY <1>1 DEF HeldSoFar

-----------------------------------------------------------------------------
(* The block of the lines from .. next - 1.                                *)
TextsIn(from, next, document) == {j \in from..(next - 1) : document[j] \notin {"blank", "fence"}}

(* A block of the lines T.                                                 *)
Made(b, type, T, path) == b = [type |-> type, tokens |-> C!InOrder(T), path |-> path]

Added(new, bs, b) == new = Append(bs, b)

(* Its type, path and lines.                                               *)
LEMMA BlockIs ==
  ASSUME NEW from \in Nat, from > 0, NEW next \in Nat, NEW document,
         NEW T, T = TextsIn(from, next, document),
         NEW type \in C!Types, NEW under \in Seq(Nat),
         NEW b, Made(b, type, T, under)
  PROVE  /\ b \in BlockType /\ b.type = type /\ b.path = under
         /\ C!ToSet(b.tokens) = T /\ T \subseteq from..(next - 1)
         /\ \A m, n \in 1..Len(b.tokens) : m < n => b.tokens[m] < b.tokens[n]
         /\ \A n \in 1..Len(b.tokens) : b.tokens[n] \in T
         /\ T # {} => b.tokens # <<>>
         /\ T = {from} => Len(b.tokens) = 1 /\ b.tokens[1] = from
  <1> USE DEF Made
  <1>1. T \subseteq from..(next - 1) /\ T \subseteq Nat
    BY DEF TextsIn
  <1>2. IsFiniteSet(T)
    <2>1. from \in Int /\ next - 1 \in Int
      OBVIOUS
    <2>2. IsFiniteSet(from..(next - 1))
      BY <2>1, FS_Interval
    <2> QED
      BY <1>1, <2>2, FS_Subset
  <1>3. PICK s : s = C!InOrder(T)
    OBVIOUS
  <1>4. /\ s \in Seq(Nat) /\ Len(s) = Cardinality(T) /\ C!ToSet(s) = T
        /\ \A j, k \in 1..Len(s) : j < k => s[j] < s[k]
        /\ \A i \in 1..Len(s) : s[i] \in T
    BY <1>1, <1>2, <1>3, InOrderIs
  <1>5. b = [type |-> type, tokens |-> s, path |-> under]
    BY <1>3, Zenon
  <1>6. b \in BlockType /\ b.type = type /\ b.path = under /\ b.tokens = s
    BY <1>4, <1>5 DEF BlockType
  <1>7. ASSUME T # {} PROVE s # <<>>
    <2>1. C!ToSet(s) = {s[i] : i \in 1..Len(s)}
      BY <1>4, ToSetIs
    <2>2. PICK i \in 1..Len(s) : TRUE
      BY <1>4, <1>7, <2>1
    <2> QED
      BY <1>4, <2>2
  <1>8. ASSUME T = {from} PROVE Len(s) = 1 /\ s[1] = from
    <2>1. Cardinality(T) = 1
      BY <1>8, FS_Singleton
    <2>2. Len(s) = 1
      BY <1>4, <2>1
    <2>3. s[1] \in T
      BY <1>4, <2>2
    <2> QED
      BY <1>8, <2>2, <2>3
  <1> QED
    BY <1>1, <1>4, <1>6, <1>7, <1>8, Zenon

(* A block of the lines that follow keeps the blocks in order, with all    *)
(* that has been read.                                                     *)
LEMMA BlockFollows ==
  ASSUME NEW document, NEW from \in Nat, from > 0, NEW next \in Nat, from <= next,
         NEW bs \in Seq(BlockType), Ordered(bs, from, document), HeldSoFar(bs, from, document),
         NEW T, T = TextsIn(from, next, document), T # {},
         NEW type \in C!Types, NEW under \in Seq(Nat),
         type = "HEADING" => next = from + 1 /\ document[from] \in C!Headings,
         NEW b, Made(b, type, T, under),
         NEW new, Added(new, bs, b)
  PROVE  /\ b \in BlockType /\ b.type = type /\ b.path = under
         /\ b.tokens[1] \in T /\ (type = "HEADING" => b.tokens[1] = from)
         /\ Ordered(new, next, document) /\ HeldSoFar(new, next, document)
  <1> USE DEF Added
  <1>1. /\ b \in BlockType /\ b.type = type /\ b.path = under
        /\ C!ToSet(b.tokens) = T /\ T \subseteq from..(next - 1)
        /\ \A m, n \in 1..Len(b.tokens) : m < n => b.tokens[m] < b.tokens[n]
        /\ \A n \in 1..Len(b.tokens) : b.tokens[n] \in T
        /\ b.tokens # <<>>
        /\ T = {from} => Len(b.tokens) = 1 /\ b.tokens[1] = from
    BY BlockIs
  <1>2. b.tokens \in Seq(Nat) /\ DOMAIN b.tokens = 1..Len(b.tokens) /\ 1 \in 1..Len(b.tokens)
    <2>1. b.tokens \in Seq(Nat)
      BY <1>1 DEF BlockType
    <2> QED
      BY <1>1, <2>1
  <1>3. ASSUME type = "HEADING" PROVE T = {from}
    <2>1. next = from + 1 /\ T # {} /\ T \subseteq from..(next - 1)
      BY <1>1, <1>3
    <2> QED
      BY <2>1
  <1>4. PICK n \in Nat \ {0} : n = Len(new)
    BY <1>1, OneLonger
  <1>5. /\ new \in Seq(BlockType) /\ n = Len(bs) + 1 /\ new[n] = b /\ n \in 1..n
        /\ \A k \in 1..Len(bs) : new[k] = bs[k] /\ k \in 1..n
        /\ \A k \in 1..n : k \in 1..Len(bs) \/ k = n
        /\ Len(bs) \in Nat /\ DOMAIN new = 1..n /\ DOMAIN bs = 1..Len(bs)
    <2>1. /\ new \in Seq(BlockType) /\ Len(new) = Len(bs) + 1 /\ new[Len(new)] = b
          /\ \A i \in 1..Len(bs) : new[i] = bs[i] /\ i \in 1..Len(new)
          /\ Len(new) \in 1..Len(new) /\ Len(bs) \in Nat
          /\ \A i \in 1..Len(new) : i \in 1..Len(bs) \/ i = Len(new)
      BY <1>1, Appended
    <2>2. DOMAIN new = 1..Len(new) /\ DOMAIN bs = 1..Len(bs)
      BY <2>1
    <2> QED
      BY <1>4, <2>1, <2>2, Zenon
  <1>6. Ordered(bs, next, document)
    BY OrderedLater
  <1>7. ASSUME NEW k \in 1..n
        PROVE  /\ new[k].tokens # <<>> /\ C!ToSet(new[k].tokens) \subseteq 1..(next - 1)
               /\ \A i, j \in DOMAIN new[k].tokens : i < j => new[k].tokens[i] < new[k].tokens[j]
               /\ new[k].type = "HEADING" =>
                    Len(new[k].tokens) = 1 /\ document[new[k].tokens[1]] \in C!Headings
    <2>1. CASE k \in 1..Len(bs)
      <3>1. new[k] = bs[k]
        BY <1>5, <2>1
      <3>2. k \in DOMAIN bs
        BY <1>5, <2>1
      <3> QED
        BY <1>6, <3>1, <3>2, Zenon DEF Ordered
    <2>2. CASE k = n
      <3>1. new[k] = b
        BY <1>5, <2>2
      <3>2. T \subseteq 1..(next - 1)
        BY <1>1
      <3>3. b.type = "HEADING" => Len(b.tokens) = 1 /\ document[b.tokens[1]] \in C!Headings
        BY <1>1, <1>3
      <3>4. /\ b.tokens # <<>> /\ C!ToSet(b.tokens) \subseteq 1..(next - 1)
            /\ \A i, j \in DOMAIN b.tokens : i < j => b.tokens[i] < b.tokens[j]
        BY <1>1, <1>2, <3>2
      <3> QED
        BY <3>1, <3>3, <3>4, Zenon
    <2> QED
      BY <1>5, <2>1, <2>2
  <1>8. ASSUME NEW j \in 1..n, NEW k \in 1..n, j < k,
               NEW x \in C!ToSet(new[j].tokens), NEW y \in C!ToSet(new[k].tokens)
        PROVE  x < y
    <2>1. j \in 1..Len(bs) /\ new[j] = bs[j]
      BY <1>5, <1>8
    <2>2. CASE k \in 1..Len(bs)
      <3>1. new[k] = bs[k]
        BY <1>5, <2>2
      <3> QED
        BY <1>5, <1>6, <1>8, <2>1, <2>2, <3>1, Zenon DEF Ordered
    <2>3. CASE k = n
      <3>1. y \in T
        BY <1>1, <1>5, <1>8, <2>3
      <3>2. x \in 1..(from - 1)
        <4>1. C!ToSet(bs[j].tokens) \subseteq 1..(from - 1)
          BY <1>5, <2>1 DEF Ordered
        <4> QED
          BY <1>8, <2>1, <4>1
      <3> QED
        BY <1>1, <3>1, <3>2
    <2> QED
      BY <1>5, <2>2, <2>3
  <1>9. Ordered(new, next, document)
    <2>1. DOMAIN new = 1..n
      BY <1>5
    <2>2. ASSUME NEW k \in DOMAIN new
          PROVE  /\ new[k].tokens # <<>> /\ C!ToSet(new[k].tokens) \subseteq 1..(next - 1)
                 /\ \A i, j \in DOMAIN new[k].tokens : i < j => new[k].tokens[i] < new[k].tokens[j]
                 /\ new[k].type = "HEADING" =>
                      Len(new[k].tokens) = 1 /\ document[new[k].tokens[1]] \in C!Headings
      BY <1>7, <2>1, <2>2, Zenon
    <2>3. ASSUME NEW j \in DOMAIN new, NEW k \in DOMAIN new, j < k
          PROVE  \A x \in C!ToSet(new[j].tokens), y \in C!ToSet(new[k].tokens) : x < y
      BY <1>8, <2>1, <2>3, Zenon
    <2> QED
      BY <2>2, <2>3, Zenon DEF Ordered
  <1>10. ASSUME NEW i \in 1..(next - 1), document[i] \notin {"blank", "fence"}
         PROVE  \E k \in 1..n : i \in C!ToSet(new[k].tokens)
    <2>1. CASE i \in 1..(from - 1)
      <3>1. PICK k \in 1..Len(bs) : i \in C!ToSet(bs[k].tokens)
        BY <1>5, <1>10, <2>1 DEF HeldSoFar
      <3>2. new[k] = bs[k] /\ k \in 1..n
        BY <1>5
      <3> QED
        BY <3>1, <3>2, Zenon
    <2>2. CASE i \notin 1..(from - 1)
      <3>1. i \in from..(next - 1)
        BY <2>2
      <3>2. i \in T
        BY <1>10, <3>1 DEF TextsIn
      <3> QED
        BY <1>1, <1>5, <3>2
    <2> QED
      BY <2>1, <2>2
  <1>11. HeldSoFar(new, next, document)
    BY <1>5, <1>10, Zenon DEF HeldSoFar
  <1> QED
    BY <1>1, <1>2, <1>3, <1>9, <1>11

-----------------------------------------------------------------------------
(* The headings that a line is under, among the headings H of a document.  *)
Lev(document, h) == C!Level(document[h])

Under(H, document, i) ==
  {h \in H : h <= i /\ \A g \in H : h < g /\ g <= i => Lev(document, g) > Lev(document, h)}

Leaps(H, document) ==
  \E h \in H : Lev(document, h) > 1 /\
    ~ \E g \in H : g < h /\ Lev(document, g) = Lev(document, h) - 1
                   /\ \A f \in H : g < f /\ f < h => Lev(document, f) > Lev(document, g)

PathFits(path, H, document, i) ==
  /\ C!ToSet(path) = Under(H, document, i)
  /\ \A m \in DOMAIN path : Lev(document, path[m]) = m
  /\ \A m, n \in DOMAIN path : m < n => path[m] < path[n]

LEMMA LevelIs ==
  ASSUME NEW document, NEW h, document[h] \in C!Headings
  PROVE  Lev(document, h) \in 1..3
  <1>1. document[h] \in {"h1", "h2", "h3"}
    BY DEF C!Headings
  <1> QED
    BY <1>1 DEF Lev, C!Level

(* Behind the last heading nothing changes.                                *)
LEMMA UnderStays ==
  ASSUME NEW i \in Nat, NEW j \in Nat, i <= j, NEW H, H \subseteq 1..(i - 1), NEW document
  PROVE  Under(H, document, j) = Under(H, document, i)
  <1>1. \A h \in H : h <= i /\ h <= j
    OBVIOUS
  <1> DEFINE P(h, g) == Lev(document, g) > Lev(document, h)
  <1>2. /\ Under(H, document, i) = {h \in H : h <= i /\ \A g \in H : h < g /\ g <= i => P(h, g)}
        /\ Under(H, document, j) = {h \in H : h <= j /\ \A g \in H : h < g /\ g <= j => P(h, g)}
    BY DEF Under
  <1> HIDE DEF P
  <1> QED
    BY <1>1, <1>2

(* A later heading changes nothing for the lines before it.                *)
LEMMA UnderBefore ==
  ASSUME NEW i \in Nat, NEW j \in Nat, j < i, NEW H, H \subseteq Nat, NEW document
  PROVE  Under(H \cup {i}, document, j) = Under(H, document, j)
  <1> DEFINE P(h, g) == Lev(document, g) > Lev(document, h)
             T == H \cup {i}
  <1>1. /\ Under(H, document, j) = {h \in H : h <= j /\ \A g \in H : h < g /\ g <= j => P(h, g)}
        /\ Under(T, document, j) = {h \in T : h <= j /\ \A g \in T : h < g /\ g <= j => P(h, g)}
    BY DEF Under
  <1>2. \A h : h \in T /\ h <= j <=> h \in H /\ h <= j
    OBVIOUS
  <1> HIDE DEF P, T
  <1>3. Under(T, document, j) = Under(H, document, j)
    BY <1>1, <1>2
  <1> QED
    BY <1>3 DEF T

(* A level that was skipped stays skipped.                                 *)
LEMMA LeapsStay ==
  ASSUME NEW i \in Nat, NEW H, H \subseteq 1..(i - 1), NEW document, Leaps(H, document)
  PROVE  Leaps(H \cup {i}, document)
  <1> DEFINE T == H \cup {i}
  <1>1. PICK h \in H : Lev(document, h) > 1 /\
          ~ \E g \in H : g < h /\ Lev(document, g) = Lev(document, h) - 1
                         /\ \A f \in H : g < f /\ f < h => Lev(document, f) > Lev(document, g)
    BY DEF Leaps
  <1>2. h \in T /\ h < i /\ \A g \in T : g < h => g \in H
    <2>1. h \in 1..(i - 1)
      OBVIOUS
    <2> QED
      BY <2>1
  <1>3. H \subseteq T
    OBVIOUS
  <1> HIDE DEF T
  <1>4. ~ \E g \in T : g < h /\ Lev(document, g) = Lev(document, h) - 1
                       /\ \A f \in T : g < f /\ f < h => Lev(document, f) > Lev(document, g)
    BY <1>1, <1>2, <1>3
  <1>5. Leaps(T, document)
    BY <1>1, <1>2, <1>4 DEF Leaps
  <1> QED
    BY <1>5 DEF T

LEMMA NumberAppended ==
  ASSUME NEW s \in Seq(Nat), NEW x \in Nat \ {0}, NEW t, t = Append(s, x)
  PROVE  /\ t \in Seq(Nat) /\ Len(t) = Len(s) + 1 /\ t[Len(t)] = x
         /\ \A m \in 1..Len(s) : t[m] = s[m]
  OBVIOUS

(* heading_levels[level - 1:] = [title], when no level is skipped.         *)
LEMMA PathGoesOn ==
  ASSUME NEW i \in Nat \ {0}, NEW H, H \subseteq 1..(i - 1), NEW document,
         \A h \in H \cup {i} : document[h] \in C!Headings,
         ~Leaps(H \cup {i}, document),
         NEW path \in Seq(Nat), PathFits(path, H, document, i),
         NEW kept, kept = SubSeq(path, 1, C!Min({Lev(document, i) - 1, Len(path)})),
         NEW new, new = Append(kept, i)
  PROVE  PathFits(new, H \cup {i}, document, i)
  <1> DEFINE T == H \cup {i}
             lev(h) == Lev(document, h)
  <1>1. \A h \in T : lev(h) \in 1..3
    BY LevelIs
  <1>2. PICK level \in 1..3 : level = lev(i)
    BY <1>1
  <1>3. PICK length \in Nat : length = Len(path)
    OBVIOUS
  <1>4. DOMAIN path = 1..length /\ \A m \in 1..length : path[m] \in Nat
    BY <1>3
  <1>5. C!ToSet(path) = {path[m] : m \in 1..length}
    BY <1>3, ToSetIs
  <1>6. /\ Under(H, document, i) = {path[m] : m \in 1..length}
        /\ \A m \in 1..length : lev(path[m]) = m
        /\ \A m, n \in 1..length : m < n => path[m] < path[n]
    BY <1>4, <1>5 DEF PathFits
  <1>7. /\ Under(H, document, i) = {h \in H : h <= i /\ \A g \in H : h < g /\ g <= i => lev(g) > lev(h)}
        /\ Under(T, document, i) = {h \in T : h <= i /\ \A g \in T : h < g /\ g <= i => lev(g) > lev(h)}
    BY DEF Under
  <1>8. level - 1 <= length
    <2>1. CASE level = 1
      BY <2>1
    <2>2. CASE level # 1
      <3>1. PICK g \in T : g < i /\ lev(g) = lev(i) - 1
                           /\ \A f \in T : g < f /\ f < i => lev(f) > lev(g)
        <4>1. i \in T /\ lev(i) > 1
          BY <1>2, <2>2
        <4> HIDE DEF T
        <4> QED
          BY <4>1 DEF T, Leaps
      <3>2. g \in H
        BY <3>1
      <3>3. \A f \in H : g < f /\ f <= i => lev(f) > lev(g)
        <4>1. \A f \in H : f \in T /\ f < i
          OBVIOUS
        <4> HIDE DEF T, lev
        <4> QED
          BY <3>1, <4>1
      <3>4. g <= i
        BY <3>2
      <3>5. g \in Under(H, document, i)
        <4> HIDE DEF lev
        <4> QED
          BY <1>7, <3>2, <3>3, <3>4
      <3>6. PICK m \in 1..length : g = path[m]
        BY <1>6, <3>5
      <3>7. m = level - 1
        <4> HIDE DEF lev
        <4> QED
          BY <1>2, <1>6, <3>1, <3>6
      <3> QED
        BY <1>2, <1>3, <3>6, <3>7
    <2> QED
      BY <2>1, <2>2
  <1>9. PICK c \in 0..length : c = level - 1
    BY <1>2, <1>3, <1>8
  <1>10. C!Min({Lev(document, i) - 1, Len(path)}) = c
    <2>1. c \in Int /\ length \in Int /\ c <= length
      BY <1>3, <1>9
    <2>2. C!Min({c, length}) = c
      BY <2>1, MinOfTwo
    <2>3. Lev(document, i) - 1 = c
      BY <1>2, <1>9
    <2> QED
      BY <1>3, <2>2, <2>3, Zenon
  <1>11. kept \in Seq(Nat) /\ kept = SubSeq(path, 1, c)
    <2>1. kept = SubSeq(path, 1, c)
      BY <1>10, Zenon
    <2>2. SubSeq(path, 1, c) \in Seq(Nat)
      <3>1. c \in 0..Len(path) /\ 1 \in Nat \ {0}
        BY <1>3
      <3> QED
        BY <3>1, Cut
    <2> QED
      BY <2>1, <2>2
  <1>12. Len(kept) = c /\ \A m \in 1..c : kept[m] = path[m]
    <2>1. c \in 0..Len(path) /\ c \in Nat
      BY <1>3, <1>9
    <2>2. /\ Len(SubSeq(path, 1, c)) = IF 1 <= c THEN c - 1 + 1 ELSE 0
          /\ \A m \in 1..Len(SubSeq(path, 1, c)) : SubSeq(path, 1, c)[m] = path[1 + m - 1]
      BY <2>1, Cut
    <2>3. Len(kept) = c
      BY <1>11, <2>1, <2>2
    <2>4. \A m \in 1..c : 1 + m - 1 = m
      BY <2>1
    <2> QED
      BY <1>11, <2>2, <2>3, <2>4
  <1>14. /\ new \in Seq(Nat) /\ Len(new) = level /\ new[level] = i
         /\ \A m \in 1..c : new[m] = path[m]
         /\ \A m \in 1..level : m \in 1..c \/ m = level
    <2>1. /\ new \in Seq(Nat) /\ Len(new) = Len(kept) + 1 /\ new[Len(new)] = i
          /\ \A m \in 1..Len(kept) : new[m] = kept[m]
      <3>1. \A t : t = Append(kept, i) =>
              /\ t \in Seq(Nat) /\ Len(t) = Len(kept) + 1 /\ t[Len(t)] = i
              /\ \A m \in 1..Len(kept) : t[m] = kept[m]
        <4>1. PICK some \in Seq(Nat) : some = kept
          BY <1>11
        <4>2. ASSUME NEW t, t = Append(some, i)
              PROVE  /\ t \in Seq(Nat) /\ Len(t) = Len(some) + 1 /\ t[Len(t)] = i
                     /\ \A m \in 1..Len(some) : t[m] = some[m]
          BY <4>2, NumberAppended
        <4> QED
          BY <4>1, <4>2, Zenon
      <3> QED
        BY <3>1, Zenon
    <2>2. Len(new) = level
      BY <1>2, <1>9, <1>12, <2>1
    <2> QED
      <3>1. \A m \in 1..c : new[m] = path[m]
        BY <1>12, <2>1
      <3>2. \A m \in 1..level : m \in 1..c \/ m = level
        BY <1>2, <1>9
      <3> QED
        BY <2>1, <2>2, <3>1, <3>2, Zenon
  <1>15. DOMAIN new = 1..level
    BY <1>14
  <1>16. \A m \in 1..c : m \in 1..length /\ path[m] \in H
    <2>1. \A m \in 1..c : m \in 1..length
      BY <1>3, <1>9
    <2>2. \A m \in 1..length : path[m] \in H
      <3> HIDE DEF lev
      <3> QED
        BY <1>6, <1>7
    <2> QED
      BY <2>1, <2>2
  <1>17. \A m \in 1..level : lev(new[m]) = m
    <2> HIDE DEF lev
    <2> QED
      BY <1>2, <1>6, <1>14, <1>16
  <1>18. \A m, n \in 1..level : m < n => new[m] < new[n]
    <2> SUFFICES ASSUME NEW m \in 1..level, NEW n \in 1..level, m < n PROVE new[m] < new[n]
      OBVIOUS
    <2>1. m \in 1..c
      BY <1>2, <1>9, <1>14
    <2>2. CASE n \in 1..c
      BY <1>6, <1>14, <1>16, <2>1, <2>2
    <2>3. CASE n = level
      <3>1. path[m] \in 1..(i - 1)
        BY <1>16, <2>1
      <3> QED
        BY <1>14, <2>1, <2>3, <3>1
    <2> QED
      BY <1>14, <2>2, <2>3
  <1>19. ASSUME NEW h PROVE h \in C!ToSet(new) <=> h \in Under(T, document, i)
    <2>1. h \in C!ToSet(new) <=> h = i \/ \E m \in 1..c : h = path[m]
      <3>1. C!ToSet(new) = {new[m] : m \in 1..level}
        <4>1. new \in Seq(Nat) /\ Len(new) = level
          BY <1>14
        <4>2. PICK some \in Seq(Nat) : some = new
          BY <4>1
        <4>3. C!ToSet(some) = {some[m] : m \in 1..Len(some)}
          BY ToSetIs
        <4> QED
          BY <4>1, <4>2, <4>3, Zenon
      <3>2. level \in 1..level /\ \A m \in 1..c : m \in 1..level
        BY <1>2, <1>9
      <3>3. /\ new[level] = i /\ \A m \in 1..c : new[m] = path[m]
            /\ \A m \in 1..level : m \in 1..c \/ m = level
        BY <1>14
      <3> HIDE DEF lev, T
      <3> QED
        BY <3>1, <3>2, <3>3, Zenon
    <2>2. i \in Under(T, document, i)
      <3>1. i \in T /\ i <= i /\ \A g \in T : ~(i < g /\ g <= i)
        OBVIOUS
      <3> HIDE DEF T, lev
      <3> QED
        BY <1>7, <3>1
    <2>3. ASSUME NEW m \in 1..c, h = path[m] PROVE h \in Under(T, document, i)
      <3>1. h \in Under(H, document, i) /\ lev(h) = m /\ m < level
        <4> HIDE DEF lev
        <4> QED
          BY <1>2, <1>6, <1>9, <1>16, <2>3
      <3>2. \A g \in T : g \in H \/ g = i
        OBVIOUS
      <3>3. H \subseteq T
        OBVIOUS
      <3>4. m \in Int /\ level \in Int
        BY <1>2, <1>9
      <3> HIDE DEF T, lev
      <3> QED
        BY <1>2, <1>7, <3>1, <3>2, <3>3, <3>4
    <2>4. ASSUME h \in Under(T, document, i), h # i PROVE \E m \in 1..c : h = path[m]
      <3>1. h \in H /\ h < i
        <4>1. h \in T
          BY <2>4 DEF Under
        <4> QED
          BY <2>4, <4>1
      <3>2. i \in T /\ i <= i /\ H \subseteq T
        OBVIOUS
      <3>3. lev(i) > lev(h) /\ h \in Under(H, document, i)
        <4> HIDE DEF T, lev
        <4> QED
          BY <1>7, <2>4, <3>1, <3>2
      <3>4. PICK m \in 1..length : h = path[m]
        BY <1>6, <3>3
      <3>5. lev(h) = m
        <4> HIDE DEF lev
        <4> QED
          BY <1>6, <3>4
      <3>6. m < level
        <4> HIDE DEF lev
        <4> QED
          BY <1>2, <3>3, <3>5
      <3>7. m \in 1..c
        BY <1>2, <1>9, <3>6
      <3> QED
        BY <3>4, <3>7
    <2> HIDE DEF T
    <2> QED
      BY <2>1, <2>2, <2>3, <2>4
  <1>20. C!ToSet(new) = Under(T, document, i)
    BY <1>19
  <1> QED
    BY <1>15, <1>17, <1>18, <1>20 DEF PathFits

-----------------------------------------------------------------------------
(* The lines of the headings.                                              *)
HeadsOf(bs) == {bs[k].tokens[1] : k \in {j \in DOMAIN bs : bs[j].type = "HEADING"}}

PathRises(path) == \A m, n \in DOMAIN path : m < n => path[m] < path[n]

(* Every block has the path of its line.                                   *)
Nested(bs, H, document) ==
  \A k \in DOMAIN bs :
    C!ToSet(bs[k].path) = Under(H, document, bs[k].tokens[1]) /\ PathRises(bs[k].path)

(* A document that is parsed up to the line i.                             *)
Parsed(document, i, path, bs) ==
  /\ document \in Seq(C!Kinds) /\ i \in 1..(Len(document) + 1) /\ path \in Seq(Nat)
  /\ bs \in Seq(BlockType) /\ Ordered(bs, i, document) /\ HeldSoFar(bs, i, document)
  /\ ~Leaps(HeadsOf(bs), document) =>
       PathFits(path, HeadsOf(bs), document, i) /\ Nested(bs, HeadsOf(bs), document)

(* They have been read, and are headings.                                  *)
LEMMA HeadsAreRead ==
  ASSUME NEW bs \in Seq(BlockType), NEW i \in Nat, NEW document, Ordered(bs, i, document)
  PROVE  /\ HeadsOf(bs) \subseteq 1..(i - 1)
         /\ \A h \in HeadsOf(bs) : document[h] \in C!Headings
         /\ \A k \in DOMAIN bs : bs[k].tokens[1] \in 1..(i - 1)
  <1>1. ASSUME NEW k \in DOMAIN bs
        PROVE  /\ bs[k].tokens[1] \in 1..(i - 1)
               /\ bs[k].type = "HEADING" => document[bs[k].tokens[1]] \in C!Headings
    <2>1. bs[k] \in BlockType
      BY <1>1
    <2>2. PICK t \in Seq(Nat) : t = bs[k].tokens
      BY <2>1 DEF BlockType
    <2>3. t # <<>> /\ C!ToSet(t) \subseteq 1..(i - 1)
      BY <1>1, <2>2 DEF Ordered
    <2>4. C!ToSet(t) = {t[n] : n \in 1..Len(t)}
      BY ToSetIs
    <2>5. 1 \in 1..Len(t)
      BY <2>3
    <2>6. t[1] \in 1..(i - 1)
      BY <2>3, <2>4, <2>5
    <2>7. bs[k].type = "HEADING" => document[bs[k].tokens[1]] \in C!Headings
      BY <1>1 DEF Ordered
    <2> QED
      BY <2>2, <2>6, <2>7
  <1> QED
    BY <1>1 DEF HeadsOf

LEMMA HeadsGrow ==
  ASSUME NEW bs \in Seq(BlockType), NEW b \in BlockType, NEW new, Added(new, bs, b)
  PROVE  /\ HeadsOf(new) = IF b.type = "HEADING" THEN HeadsOf(bs) \cup {b.tokens[1]}
                           ELSE HeadsOf(bs)
         /\ DOMAIN bs = 1..Len(bs) /\ DOMAIN new = 1..(Len(bs) + 1)
         /\ new[Len(bs) + 1] = b /\ \A k \in DOMAIN bs : new[k] = bs[k]
         /\ \A k \in DOMAIN new : k \in DOMAIN bs \/ k = Len(bs) + 1
         /\ new \in Seq(BlockType)
  <1>1. /\ new \in Seq(BlockType) /\ Len(new) = Len(bs) + 1 /\ new[Len(new)] = b
        /\ \A i \in 1..Len(bs) : new[i] = bs[i] /\ i \in 1..Len(new)
        /\ Len(new) \in 1..Len(new) /\ Len(bs) \in Nat
        /\ \A i \in 1..Len(new) : i \in 1..Len(bs) \/ i = Len(new)
    BY Appended DEF Added
  <1>2. DOMAIN new = 1..Len(new) /\ DOMAIN bs = 1..Len(bs)
    BY <1>1
  <1>3. PICK n : n = Len(new)
    OBVIOUS
  <1>4. ASSUME NEW h
        PROVE  h \in HeadsOf(new) <=> h \in HeadsOf(bs) \/ (b.type = "HEADING" /\ h = b.tokens[1])
    <2>1. h \in HeadsOf(new) <=> \E k \in 1..n : new[k].type = "HEADING" /\ h = new[k].tokens[1]
      BY <1>2, <1>3 DEF HeadsOf
    <2>2. h \in HeadsOf(bs) <=> \E k \in 1..Len(bs) : bs[k].type = "HEADING" /\ h = bs[k].tokens[1]
      BY <1>2 DEF HeadsOf
    <2>3. \A k \in 1..Len(bs) : new[k] = bs[k] /\ k \in 1..n
      BY <1>1, <1>3
    <2>4. n \in 1..n /\ new[n] = b /\ \A k \in 1..n : k \in 1..Len(bs) \/ k = n
      BY <1>1, <1>3
    <2> QED
      BY <2>1, <2>2, <2>3, <2>4, Zenon
  <1>5. HeadsOf(new) = IF b.type = "HEADING" THEN HeadsOf(bs) \cup {b.tokens[1]} ELSE HeadsOf(bs)
    BY <1>4
  <1> QED
    BY <1>1, <1>2, <1>5

LEMMA PathFitsLater ==
  ASSUME NEW path, NEW H, NEW document, NEW i \in Nat, PathFits(path, H, document, i),
         H \subseteq 1..(i - 1), NEW j \in Nat, i <= j
  PROVE  PathFits(path, H, document, j)
  <1>1. Under(H, document, j) = Under(H, document, i)
    BY UnderStays, ZenonT(40)
  <1> QED
    BY <1>1 DEF PathFits

(* Lines without text are passed over.                                     *)
LEMMA ParsedOn ==
  ASSUME NEW document, NEW i, NEW path, NEW bs, Parsed(document, i, path, bs),
         NEW next \in Nat, i <= next, next <= Len(document) + 1,
         \A j \in i..(next - 1) : document[j] \in {"blank", "fence"}
  PROVE  Parsed(document, next, path, bs)
  <1>1. /\ document \in Seq(C!Kinds) /\ i \in 1..(Len(document) + 1) /\ path \in Seq(Nat)
        /\ bs \in Seq(BlockType) /\ Ordered(bs, i, document) /\ HeldSoFar(bs, i, document)
        /\ ~Leaps(HeadsOf(bs), document) =>
             PathFits(path, HeadsOf(bs), document, i) /\ Nested(bs, HeadsOf(bs), document)
    BY DEF Parsed
  <1>2. Len(document) \in Nat
    BY <1>1
  <1>3. i \in Nat /\ next \in 1..(Len(document) + 1)
    BY <1>1, <1>2
  <1>4. Ordered(bs, next, document)
    BY <1>1, <1>3, OrderedLater
  <1>5. HeldSoFar(bs, next, document)
    BY <1>1, <1>3, HeldLater
  <1>6. HeadsOf(bs) \subseteq 1..(i - 1)
    BY <1>1, <1>3, HeadsAreRead
  <1>7. ~Leaps(HeadsOf(bs), document) =>
          PathFits(path, HeadsOf(bs), document, next) /\ Nested(bs, HeadsOf(bs), document)
    BY <1>1, <1>3, <1>6, PathFitsLater
  <1> QED
    BY <1>1, <1>3, <1>4, <1>5, <1>7 DEF Parsed

(* The lines up to next make a block that is no heading: it has the path   *)
(* of the first of them, as no heading is among them.                      *)
LEMMA ParsedBlock ==
  ASSUME NEW document, NEW i \in Nat, i > 0, NEW path \in Seq(Nat), NEW bs \in Seq(BlockType), Parsed(document, i, path, bs),
         NEW next \in Nat, i <= next, next <= Len(document) + 1,
         NEW T, T = TextsIn(i, next, document), T # {},
         NEW type \in C!Types, type # "HEADING",
         NEW b, Made(b, type, T, path),
         NEW new, Added(new, bs, b)
  PROVE  Parsed(document, next, path, new)
  <1>1. /\ document \in Seq(C!Kinds) /\ i \in 1..(Len(document) + 1) /\ path \in Seq(Nat)
        /\ bs \in Seq(BlockType) /\ Ordered(bs, i, document) /\ HeldSoFar(bs, i, document)
        /\ ~Leaps(HeadsOf(bs), document) =>
             PathFits(path, HeadsOf(bs), document, i) /\ Nested(bs, HeadsOf(bs), document)
    BY DEF Parsed
  <1>2. Len(document) \in Nat
    BY <1>1
  <1>3. i \in Nat \ {0} /\ next \in 1..(Len(document) + 1)
    BY <1>1, <1>2
  <1>4. /\ b \in BlockType /\ b.type = type /\ b.path = path /\ b.tokens[1] \in T
        /\ Ordered(new, next, document) /\ HeldSoFar(new, next, document)
    <2>1. i \in Nat \ {0} /\ path \in Seq(Nat) /\ bs \in Seq(BlockType)
          /\ Ordered(bs, i, document) /\ HeldSoFar(bs, i, document)
      BY <1>1, <1>3
    <2> QED
      BY <2>1, BlockFollows, SMTT(20)
  <1>5. /\ HeadsOf(new) = HeadsOf(bs) /\ new[Len(bs) + 1] = b /\ \A k \in DOMAIN bs : new[k] = bs[k]
        /\ \A k \in DOMAIN new : k \in DOMAIN bs \/ k = Len(bs) + 1
        /\ new \in Seq(BlockType)
    BY <1>1, <1>4, HeadsGrow
  <1>6. HeadsOf(bs) \subseteq 1..(i - 1)
    BY <1>1, <1>3, HeadsAreRead
  <1>7. ASSUME ~Leaps(HeadsOf(new), document)
        PROVE  PathFits(path, HeadsOf(new), document, next) /\ Nested(new, HeadsOf(new), document)
    <2>1. PathFits(path, HeadsOf(bs), document, i) /\ Nested(bs, HeadsOf(bs), document)
      BY <1>1, <1>5, <1>7
    <2>2. PathFits(path, HeadsOf(bs), document, next)
      BY <1>3, <1>6, <2>1, PathFitsLater
    <2>3. PICK x \in i..(next - 1) : x = b.tokens[1]
      BY <1>4 DEF TextsIn
    <2>4. Under(HeadsOf(bs), document, x) = Under(HeadsOf(bs), document, i)
      BY <1>3, <1>6, UnderStays
    <2>5. C!ToSet(b.path) = Under(HeadsOf(bs), document, b.tokens[1]) /\ PathRises(b.path)
      BY <1>4, <2>1, <2>3, <2>4 DEF PathFits, PathRises
    <2>6. Nested(new, HeadsOf(bs), document)
      BY <1>5, <2>1, <2>5, Zenon DEF Nested
    <2> QED
      BY <1>5, <2>2, <2>6
  <1> QED
    BY <1>1, <1>3, <1>4, <1>5, <1>7, Zenon DEF Parsed

(* The path of a heading: heading_levels[level - 1:] = [title].            *)
Turned(document, i, path, way) ==
  \E kept : kept = SubSeq(path, 1, C!Min({Lev(document, i) - 1, Len(path)})) /\ way = Append(kept, i)

(* A heading makes a block under itself.                                   *)
LEMMA ParsedHeading ==
  ASSUME NEW document, NEW i \in Nat, i > 0, NEW path \in Seq(Nat), NEW bs \in Seq(BlockType), Parsed(document, i, path, bs),
         i <= Len(document), document[i] \in C!Headings,
         NEW way \in Seq(Nat), Turned(document, i, path, way),
         NEW b, Made(b, "HEADING", TextsIn(i, i + 1, document), way),
         NEW new, Added(new, bs, b)
  PROVE  TextsIn(i, i + 1, document) # {} /\ Parsed(document, i + 1, way, new)
  <1>1. /\ document \in Seq(C!Kinds) /\ i \in 1..(Len(document) + 1) /\ path \in Seq(Nat)
        /\ bs \in Seq(BlockType) /\ Ordered(bs, i, document) /\ HeldSoFar(bs, i, document)
        /\ ~Leaps(HeadsOf(bs), document) =>
             PathFits(path, HeadsOf(bs), document, i) /\ Nested(bs, HeadsOf(bs), document)
    BY DEF Parsed
  <1>2. Len(document) \in Nat
    BY <1>1
  <1>3. i \in Nat \ {0} /\ i + 1 \in 1..(Len(document) + 1) /\ i + 1 \in Nat /\ i <= i + 1
    BY <1>1, <1>2
  <1>4. PICK T : T = TextsIn(i, i + 1, document)
    OBVIOUS
  <1>5. T # {}
    <2>1. i \in i..(i + 1 - 1)
      BY <1>3
    <2>2. document[i] \notin {"blank", "fence"}
      BY DEF C!Headings
    <2>3. i \in T
      BY <1>4, <2>1, <2>2 DEF TextsIn
    <2> QED
      BY <2>3
  <1>6. "HEADING" \in C!Types
    BY DEF C!Types
  <1>7. /\ b \in BlockType /\ b.type = "HEADING" /\ b.path = way /\ b.tokens[1] = i
        /\ Ordered(new, i + 1, document) /\ HeldSoFar(new, i + 1, document)
    <2>1. PICK next \in Nat : next = i + 1
      BY <1>3
    <2>2. Made(b, "HEADING", T, way) /\ T = TextsIn(i, next, document)
      BY <1>4, <2>1, Zenon
    <2>3. Ordered(bs, i, document) /\ HeldSoFar(bs, i, document)
      BY <1>1
    <2>4. PICK type \in C!Types : type = "HEADING"
      BY <1>6
    <2>5. Made(b, type, T, way) /\ i <= next
      BY <2>1, <2>2, <2>4
    <2>6. type = "HEADING" => next = i + 1 /\ document[i] \in C!Headings
      BY <2>1
    <2>7. T = TextsIn(i, next, document) /\ T # {}
      BY <1>5, <2>2
    <2>8. /\ b \in BlockType /\ b.type = type /\ b.path = way
          /\ b.tokens[1] \in T /\ (type = "HEADING" => b.tokens[1] = i)
          /\ Ordered(new, next, document) /\ HeldSoFar(new, next, document)
      BY <2>3, <2>5, <2>6, <2>7, BlockFollows, SMTT(60)
    <2> QED
      BY <2>1, <2>4, <2>8
  <1> DEFINE H == HeadsOf(bs)
  <1>8. /\ HeadsOf(new) = H \cup {i} /\ new[Len(bs) + 1] = b /\ \A k \in DOMAIN bs : new[k] = bs[k]
        /\ \A k \in DOMAIN new : k \in DOMAIN bs \/ k = Len(bs) + 1
        /\ new \in Seq(BlockType)
    BY <1>1, <1>7, HeadsGrow
  <1>9. /\ H \subseteq 1..(i - 1) /\ \A h \in H : document[h] \in C!Headings
        /\ \A k \in DOMAIN bs : bs[k].tokens[1] \in 1..(i - 1)
    BY <1>1, <1>3, HeadsAreRead
  <1> HIDE DEF H
  <1>10. ASSUME ~Leaps(H \cup {i}, document)
         PROVE  PathFits(way, H \cup {i}, document, i + 1) /\ Nested(new, H \cup {i}, document)
    <2>1. ~Leaps(H, document)
      BY <1>3, <1>9, <1>10, LeapsStay
    <2>2. PathFits(path, H, document, i) /\ Nested(bs, H, document)
      BY <1>1, <2>1 DEF H
    <2>3. PathFits(way, H \cup {i}, document, i)
      <3>1. \A h \in H \cup {i} : document[h] \in C!Headings
        BY <1>9
      <3> QED
        <4>1. PICK kept : /\ kept = SubSeq(path, 1, C!Min({Lev(document, i) - 1, Len(path)}))
                          /\ way = Append(kept, i)
          BY Zenon DEF Turned
        <4> QED
          BY <1>3, <1>9, <1>10, <2>2, <3>1, <4>1, PathGoesOn
    <2>4. Under(H \cup {i}, document, i + 1) = Under(H \cup {i}, document, i)
      <3> DEFINE P(h, g) == Lev(document, g) > Lev(document, h)
                 U == H \cup {i}
      <3>1. \A h \in U : h <= i /\ h <= i + 1
        BY <1>3, <1>9
      <3>2. /\ Under(U, document, i) = {h \in U : h <= i /\ \A g \in U : h < g /\ g <= i => P(h, g)}
            /\ Under(U, document, i + 1) =
                 {h \in U : h <= i + 1 /\ \A g \in U : h < g /\ g <= i + 1 => P(h, g)}
        BY DEF Under
      <3> HIDE DEF P, U
      <3>3. Under(U, document, i + 1) = Under(U, document, i)
        BY <3>1, <3>2
      <3> QED
        BY <3>3 DEF U
    <2>5. PathFits(way, H \cup {i}, document, i + 1)
      BY <2>3, <2>4 DEF PathFits
    <2>6. C!ToSet(b.path) = Under(H \cup {i}, document, b.tokens[1]) /\ PathRises(b.path)
      BY <1>7, <2>3 DEF PathFits, PathRises
    <2>7. ASSUME NEW k \in DOMAIN bs
          PROVE  /\ C!ToSet(bs[k].path) = Under(H \cup {i}, document, bs[k].tokens[1])
                 /\ PathRises(bs[k].path)
      <3>1. PICK j \in Nat : j = bs[k].tokens[1] /\ j \in 1..(i - 1)
        BY <1>3, <1>9, <2>7
      <3>2. j < i /\ H \subseteq Nat
        BY <1>3, <1>9, <3>1
      <3>3. Under(H \cup {i}, document, j) = Under(H, document, j)
        BY <3>2, UnderBefore
      <3>4. C!ToSet(bs[k].path) = Under(H, document, bs[k].tokens[1]) /\ PathRises(bs[k].path)
        BY <2>2, <2>7 DEF Nested
      <3> QED
        BY <3>1, <3>3, <3>4
    <2>8. Nested(new, H \cup {i}, document)
      BY <1>8, <2>6, <2>7, Zenon DEF Nested
    <2> QED
      BY <2>5, <2>8
  <1>11. Parsed(document, i + 1, way, new)
    BY <1>1, <1>3, <1>7, <1>8, <1>10, Zenon DEF Parsed
  <1> QED
    BY <1>4, <1>5, <1>11

-----------------------------------------------------------------------------
(* The operators of Chunking are those above, of the blocks and the        *)
(* document that there are, in this state and the next.                    *)
LEMMA HeadingsAre ==
  /\ C!HeadingLines = HeadsOf(v5)
  /\ C!LevelsAreSkipped <=> Leaps(HeadsOf(v5), v2)
  /\ \A i : C!Enclosing(i) = Under(HeadsOf(v5), v2, i)
  <1>1. C!HeadingLines = HeadsOf(v5)
    BY DEF C!HeadingLines, HeadsOf
  <1>2. \A h : C!LevelAt(h) = Lev(v2, h)
    BY DEF C!LevelAt, Lev
  <1>3. C!LevelsAreSkipped <=> Leaps(HeadsOf(v5), v2)
    BY <1>1, Zenon DEF C!LevelsAreSkipped, Leaps, C!LevelAt, Lev
  <1>4. \A i : C!Enclosing(i) = Under(HeadsOf(v5), v2, i)
    BY <1>1, Zenon DEF C!Enclosing, Under, C!LevelAt, Lev
  <1> QED
    BY <1>1, <1>3, <1>4

LEMMA HeadingsWillBe ==
  /\ C!HeadingLines' = HeadsOf(v5')
  /\ C!LevelsAreSkipped' <=> Leaps(HeadsOf(v5'), v2')
  /\ \A i : C!Enclosing(i)' = Under(HeadsOf(v5'), v2', i)
  <1>1. C!HeadingLines' = HeadsOf(v5')
    BY DEF C!HeadingLines, HeadsOf
  <1>3. C!LevelsAreSkipped' <=> Leaps(HeadsOf(v5'), v2')
    BY <1>1, Zenon DEF C!LevelsAreSkipped, Leaps, C!LevelAt, Lev
  <1>4. \A i : C!Enclosing(i)' = Under(HeadsOf(v5'), v2', i)
    BY <1>1, Zenon DEF C!Enclosing, Under, C!LevelAt, Lev
  <1> QED
    BY <1>1, <1>3, <1>4

(* The inductive invariant says that the document is parsed up to index.   *)
LEMMA InvIsParsed ==
  ASSUME C!IInv
  PROVE  /\ Parsed(v2, v3, v4, v5) /\ v1 \in {"start", "parsing", "planned", "refused"}
         /\ v1 = "start" => v2 = <<>>
         /\ v1 \in {"start", "parsing"} => v8 = <<>>
  <1>1. /\ v2 \in Seq(C!Kinds) /\ v3 \in 1..(Len(v2) + 1) /\ v4 \in Seq(Nat)
        /\ v5 \in Seq(BlockType)
        /\ v1 \in {"start", "parsing", "planned", "refused"}
        /\ v1 = "start" => v2 = <<>>
        /\ v1 \in {"start", "parsing"} => v8 = <<>>
        /\ C!BlocksAreInOrder /\ C!ReadIsKept /\ C!PathIsThere /\ C!PathsNest
    BY DEF C!IInv, BlockType, C!ChunksAreSound
  <1>2. Ordered(v5, v3, v2) /\ HeldSoFar(v5, v3, v2)
    BY <1>1, Zenon DEF C!BlocksAreInOrder, C!ReadIsKept, Ordered, HeldSoFar
  <1>3. ~Leaps(HeadsOf(v5), v2) => PathFits(v4, HeadsOf(v5), v2, v3)
    BY <1>1, HeadingsAre, Zenon DEF C!PathIsThere, PathFits, C!LevelAt, Lev
  <1>4. ~Leaps(HeadsOf(v5), v2) => Nested(v5, HeadsOf(v5), v2)
    BY <1>1, HeadingsAre, Zenon DEF C!PathsNest, Nested, PathRises
  <1> QED
    BY <1>1, <1>2, <1>3, <1>4 DEF Parsed

LEMMA ParsedIsInv ==
  ASSUME Parsed(v2', v3', v4', v5'), v1' \in {"start", "parsing", "planned", "refused"},
         v1' = "start" => v2' = <<>>,
         v1' \in {"start", "parsing"} => v8' = <<>>,
         C!NothingIsLost', C!ChildrenFit'
  PROVE  C!IInv'
  <1>1. /\ v2' \in Seq(C!Kinds) /\ v3' \in 1..(Len(v2') + 1) /\ v4' \in Seq(Nat)
        /\ v5' \in Seq(BlockType) /\ Ordered(v5', v3', v2') /\ HeldSoFar(v5', v3', v2')
        /\ ~Leaps(HeadsOf(v5'), v2') =>
             PathFits(v4', HeadsOf(v5'), v2', v3') /\ Nested(v5', HeadsOf(v5'), v2')
    BY DEF Parsed
  <1>2. C!BlocksAreInOrder' /\ C!ReadIsKept'
    BY <1>1, Zenon DEF C!BlocksAreInOrder, C!ReadIsKept, Ordered, HeldSoFar
  <1>3. C!PathIsThere'
    BY <1>1, HeadingsWillBe, Zenon DEF C!PathIsThere, PathFits, C!LevelAt, Lev
  <1>4. C!PathsNest'
    BY <1>1, HeadingsWillBe, Zenon DEF C!PathsNest, Nested, PathRises
  <1>5. v5' \in Seq([type : C!Types, tokens : Seq(Nat), path : Seq(Nat)])
    BY <1>1 DEF BlockType
  <1> QED
    BY <1>1, <1>2, <1>3, <1>4, <1>5, Zenon DEF C!IInv, C!ChunksAreSound

(* _finalize_blocks drops blocks without text.                             *)
Emitted(new, bs, type, document, i, next, path) ==
  new = IF TextsIn(i, next, document) = {} THEN bs
        ELSE Append(bs, [type |-> type, tokens |-> C!InOrder(TextsIn(i, next, document)), path |-> path])

(* With a block or without.                                                *)
LEMMA EmittedKeeps ==
  ASSUME NEW document, NEW i \in Nat, i > 0, NEW path \in Seq(Nat),
         NEW bs \in Seq(BlockType), Parsed(document, i, path, bs),
         NEW next \in Nat, i <= next, next <= Len(document) + 1,
         NEW type \in C!Types, type # "HEADING",
         NEW new, Emitted(new, bs, type, document, i, next, path)
  PROVE  Parsed(document, next, path, new)
  <1>1. PICK T : T = TextsIn(i, next, document)
    OBVIOUS
  <1>2. CASE T = {}
    <2>1. new = bs
      BY <1>1, <1>2 DEF Emitted
    <2>2. \A j \in i..(next - 1) : document[j] \in {"blank", "fence"}
      BY <1>1, <1>2 DEF TextsIn
    <2>3. Parsed(document, next, path, bs)
      BY <2>2, ParsedOn
    <2> QED
      BY <2>1, <2>3
  <1>3. CASE T # {}
    <2>1. PICK b : Made(b, type, T, path)
      BY DEF Made
    <2>2. Added(new, bs, b)
      BY <1>1, <1>3, <2>1, Zenon DEF Emitted, Made, Added
    <2> QED
      BY <1>1, <1>3, <2>1, <2>2, ParsedBlock
  <1> QED
    BY <1>2, <1>3

-----------------------------------------------------------------------------
LEMMA EmptyDomain ==
  ASSUME NEW X, NEW s \in Seq(X), \A k \in DOMAIN s : FALSE
  PROVE  s = <<>>
  <1>1. DOMAIN s = 1..Len(s) /\ Len(s) \in Nat
    OBVIOUS
  <1>2. Len(s) = 0
    <2>1. 1 \notin 1..Len(s)
      BY <1>1
    <2> QED
      BY <1>1, <2>1
  <1> QED
    BY <1>2

LEMMA FirstOfRange ==
  ASSUME NEW i \in Nat, NEW n \in Nat, i <= n, NEW U, U \subseteq i..n, n \in U
  PROVE  C!Min(U) \in i..n
  <1>1. U \subseteq Nat /\ U # {}
    OBVIOUS
  <1>2. C!Min(U) \in U
    BY <1>1, MinOfSome
  <1> QED
    BY <1>2

(* What every step of the parser keeps besides the blocks.                 *)
LEMMA ParsingGoesOn ==
  ASSUME v1' = "parsing", v8 = <<>>, v8' = v8, Parsed(v2', v3', v4', v5')
  PROVE  C!IInv'
  <1>1. C!NothingIsLost' /\ C!ChildrenFit'
    BY DEF C!NothingIsLost, C!ChildrenFit
  <1> QED
    BY <1>1, ParsedIsInv

LEMMA ReadingIs ==
  ASSUME C!IInv, C!Reading
  PROVE  /\ Parsed(v2, v3, v4, v5) /\ v3 \in Nat /\ v3 > 0 /\ v4 \in Seq(Nat)
         /\ v5 \in Seq(BlockType) /\ Len(v2) \in Nat /\ v3 <= Len(v2)
         /\ v1 = "parsing" /\ v8 = <<>>
  <1>1. Parsed(v2, v3, v4, v5) /\ v1 = "parsing" /\ v8 = <<>> /\ v3 <= Len(v2)
    BY InvIsParsed DEF C!Reading
  <1>2. /\ v2 \in Seq(C!Kinds) /\ v3 \in 1..(Len(v2) + 1) /\ v4 \in Seq(Nat)
        /\ v5 \in Seq(BlockType)
    BY <1>1 DEF Parsed
  <1>3. Len(v2) \in Nat
    BY <1>2
  <1> QED
    BY <1>1, <1>2, <1>3

LEMMA EmitIs ==
  ASSUME NEW type, NEW next, C!Emit(type, v3, next, v4)
  PROVE  Emitted(v5', v5, type, v2, v3, next, v4)
  BY Zenon DEF C!Emit, Emitted, C!Texts, TextsIn

(* The actions, one by one.                                                *)
LEMMA BlockKeeps ==
  ASSUME C!IInv, C!Reading, NEW type \in C!Types, type # "HEADING", NEW kinds,
         C!Block(type, kinds)
  PROVE  C!IInv'
  <1>1. /\ Parsed(v2, v3, v4, v5) /\ v3 \in Nat /\ v3 > 0 /\ v4 \in Seq(Nat)
        /\ v5 \in Seq(BlockType) /\ Len(v2) \in Nat /\ v3 <= Len(v2)
        /\ v1 = "parsing" /\ v8 = <<>>
    BY ReadingIs
  <1>2. PICK next : next = C!Beyond(v3 + 1, kinds)
    OBVIOUS
  <1>3. /\ C!Emit(type, v3, next, v4) /\ v3' = next
        /\ v1' = v1 /\ v2' = v2 /\ v4' = v4 /\ v8' = v8
    BY <1>2 DEF C!Block
  <1>4. next \in (v3 + 1)..(Len(v2) + 1)
    <2>1. PICK U : U = {j \in (v3 + 1)..(Len(v2) + 1) : j > Len(v2) \/ v2[j] \notin kinds}
      OBVIOUS
    <2>2. next = C!Min(U)
      BY <1>2, <2>1, Zenon DEF C!Beyond
    <2>3. v3 + 1 \in Nat /\ Len(v2) + 1 \in Nat
      BY <1>1
    <2>6. PICK i \in Nat : i = v3 + 1
      BY <2>3
    <2>7. PICK n \in Nat : n = Len(v2) + 1
      BY <2>3
    <2>4. i <= n /\ U \subseteq i..n /\ n \in U
      BY <1>1, <2>1, <2>6, <2>7
    <2>5. C!Min(U) \in i..n
      BY <2>4, FirstOfRange
    <2> QED
      BY <2>2, <2>5, <2>6, <2>7
  <1>5. next \in Nat /\ v3 <= next /\ next <= Len(v2) + 1
    BY <1>1, <1>4
  <1>6. Emitted(v5', v5, type, v2, v3, next, v4)
    BY <1>3, EmitIs
  <1>7. Parsed(v2, next, v4, v5')
    BY <1>1, <1>5, <1>6, EmittedKeeps
  <1>8. Parsed(v2', v3', v4', v5')
    BY <1>3, <1>7, Zenon
  <1> QED
    BY <1>1, <1>3, <1>8, ParsingGoesOn

LEMMA CodeKeeps ==
  ASSUME C!IInv, C!Code
  PROVE  C!IInv'
  <1>1. C!Reading /\ v2[v3] = "fence"
    BY DEF C!Code, C!Line
  <1>2. /\ Parsed(v2, v3, v4, v5) /\ v3 \in Nat /\ v3 > 0 /\ v4 \in Seq(Nat)
        /\ v5 \in Seq(BlockType) /\ Len(v2) \in Nat /\ v3 <= Len(v2)
        /\ v1 = "parsing" /\ v8 = <<>>
    BY <1>1, ReadingIs
  <1>3. PICK U : U = {j \in (v3 + 1)..(Len(v2) + 1) : j > Len(v2) \/ v2[j] = "fence"}
    OBVIOUS
  <1>4. PICK close : close = C!Min(U)
    OBVIOUS
  <1>5. /\ C!Emit("CODE", v3, close, v4) /\ v3' = C!Min({close + 1, Len(v2) + 1})
        /\ v1' = v1 /\ v2' = v2 /\ v4' = v4 /\ v8' = v8
    BY <1>3, <1>4, Zenon DEF C!Code
  <1>6. close \in (v3 + 1)..(Len(v2) + 1) /\ (close > Len(v2) \/ v2[close] = "fence")
    <2>1. Len(v2) + 1 \in U /\ U \subseteq Nat
      BY <1>2, <1>3
    <2>2. close \in U
      BY <1>4, <2>1, MinOfSome
    <2> QED
      BY <1>3, <2>2
  <1>7. close \in Nat /\ v3 <= close /\ close <= Len(v2) + 1
    BY <1>2, <1>6
  <1>8. Emitted(v5', v5, "CODE", v2, v3, close, v4)
    BY <1>5, EmitIs
  <1>9. Parsed(v2, close, v4, v5')
    <2>1. PICK type \in C!Types : type = "CODE" /\ type # "HEADING"
      BY DEF C!Types
    <2> QED
      BY <1>2, <1>7, <1>8, <2>1, EmittedKeeps
  <1>10. /\ v3' \in Nat /\ close <= v3' /\ v3' <= Len(v2) + 1
         /\ \A j \in close..(v3' - 1) : v2[j] \in {"blank", "fence"}
    <2>1. v3' = IF close + 1 <= Len(v2) + 1 THEN close + 1 ELSE Len(v2) + 1
      BY <1>2, <1>5, <1>7, MinOfTwo
    <2> QED
      BY <1>2, <1>6, <1>7, <2>1
  <1>11. Parsed(v2, v3', v4, v5')
    BY <1>9, <1>10, ParsedOn
  <1>12. Parsed(v2', v3', v4', v5')
    BY <1>5, <1>11, Zenon
  <1> QED
    BY <1>2, <1>5, <1>12, ParsingGoesOn

LEMMA SkipKeeps ==
  ASSUME C!IInv, C!Skip
  PROVE  C!IInv'
  <1>1. /\ C!Reading /\ v2[v3] = "blank" /\ v3' = v3 + 1
        /\ v1' = v1 /\ v2' = v2 /\ v4' = v4 /\ v5' = v5 /\ v8' = v8
    BY DEF C!Skip, C!Line
  <1>2. /\ Parsed(v2, v3, v4, v5) /\ v3 \in Nat /\ v3 > 0 /\ v4 \in Seq(Nat)
        /\ v5 \in Seq(BlockType) /\ Len(v2) \in Nat /\ v3 <= Len(v2)
        /\ v1 = "parsing" /\ v8 = <<>>
    BY <1>1, ReadingIs
  <1>3. PICK next \in Nat : next = v3 + 1
    BY <1>2
  <1>4. /\ v3 <= next /\ next <= Len(v2) + 1
        /\ \A j \in v3..(next - 1) : v2[j] \in {"blank", "fence"}
    BY <1>1, <1>2, <1>3
  <1>5. Parsed(v2, next, v4, v5)
    BY <1>2, <1>4, ParsedOn
  <1>6. Parsed(v2', v3', v4', v5')
    BY <1>1, <1>3, <1>5, Zenon
  <1> QED
    BY <1>1, <1>2, <1>6, ParsingGoesOn

LEMMA HeadingKeeps ==
  ASSUME C!IInv, C!Heading
  PROVE  C!IInv'
  <1>1. /\ C!Reading /\ v2[v3] \in C!Headings /\ v4' = C!PathWith(C!Level(v2[v3]))
        /\ C!Emit("HEADING", v3, v3 + 1, v4') /\ v3' = v3 + 1
        /\ v1' = v1 /\ v2' = v2 /\ v8' = v8
    BY Zenon DEF C!Heading, C!Line
  <1>2. /\ Parsed(v2, v3, v4, v5) /\ v3 \in Nat /\ v3 > 0 /\ v4 \in Seq(Nat)
        /\ v5 \in Seq(BlockType) /\ Len(v2) \in Nat /\ v3 <= Len(v2)
        /\ v1 = "parsing" /\ v8 = <<>>
    BY <1>1, ReadingIs
  <1>3. Turned(v2, v3, v4, v4')
    BY <1>1, Zenon DEF C!PathWith, Turned, Lev
  <1>4. PICK way \in Seq(Nat) : way = v4'
    <2>1. PICK kept : /\ kept = SubSeq(v4, 1, C!Min({Lev(v2, v3) - 1, Len(v4)}))
                      /\ v4' = Append(kept, v3)
      BY <1>3, Zenon DEF Turned
    <2>2. Lev(v2, v3) \in 1..3 /\ Len(v4) \in Nat
      BY <1>1, <1>2, LevelIs
    <2>3. PICK c \in Nat : c = C!Min({Lev(v2, v3) - 1, Len(v4)}) /\ c <= Len(v4)
      BY <2>2, MinOfTwo
    <2>4. kept = SubSeq(v4, 1, c)
      BY <2>1, <2>3, Zenon
    <2>5. SubSeq(v4, 1, c) \in Seq(Nat)
      <3>1. PICK s \in Seq(Nat) : s = v4
        BY <1>2
      <3>2. PICK b \in 0..Len(s) : b = c
        BY <2>3, <3>1
      <3>3. SubSeq(s, 1, b) \in Seq(Nat)
        BY Cut
      <3> QED
        BY <3>1, <3>2, <3>3, Zenon
    <2>6. PICK some \in Seq(Nat) : some = kept
      BY <2>4, <2>5, Zenon
    <2>7. PICK x \in Nat \ {0} : x = v3
      BY <1>2
    <2>8. Append(some, x) \in Seq(Nat)
      OBVIOUS
    <2> QED
      BY <2>1, <2>6, <2>7, <2>8, Zenon
  <1>5. PICK T : T = TextsIn(v3, v3 + 1, v2)
    OBVIOUS
  <1>6. /\ C!Texts(v3, v3 + 1) = T
    BY <1>5, Zenon DEF C!Texts, TextsIn
  <1>7. PICK b : Made(b, "HEADING", T, way)
    BY DEF Made
  <1>8. PICK new : Added(new, v5, b)
    BY DEF Added
  <1>9. T # {} /\ Parsed(v2, v3 + 1, way, new)
    <2>1. Turned(v2, v3, v4, way)
      BY <1>3, <1>4
    <2>2. Made(b, "HEADING", TextsIn(v3, v3 + 1, v2), way)
      BY <1>5, <1>7
    <2> QED
      BY <1>1, <1>2, <1>5, <1>8, <2>1, <2>2, ParsedHeading
  <1>10. v5' = new
    BY <1>1, <1>4, <1>6, <1>7, <1>8, <1>9, Zenon DEF C!Emit, Made, Added
  <1>11. Parsed(v2', v3', v4', v5')
    BY <1>1, <1>4, <1>9, <1>10, Zenon
  <1> QED
    BY <1>1, <1>2, <1>11, ParsingGoesOn

LEMMA OpenKeeps ==
  ASSUME C!IInv, C!ConstantsAssumption, C!Open
  PROVE  C!IInv'
  <1>1. /\ v1 = "start" /\ v2' \in Documents /\ v1' = "parsing"
        /\ v3' = v3 /\ v4' = v4 /\ v5' = v5 /\ v8' = v8
    BY DEF C!Open
  <1>2. Parsed(v2, v3, v4, v5) /\ v2 = <<>> /\ v8 = <<>>
    BY <1>1, InvIsParsed
  <1>3. /\ v3 = 1 /\ v4 \in Seq(Nat) /\ v5 \in Seq(BlockType) /\ Ordered(v5, v3, v2)
        /\ HeldSoFar(v5, v3, v2)
        /\ ~Leaps(HeadsOf(v5), v2) =>
             PathFits(v4, HeadsOf(v5), v2, v3) /\ Nested(v5, HeadsOf(v5), v2)
    BY <1>2 DEF Parsed
  <1>4. v5 = <<>>
    <2>1. ASSUME NEW k \in DOMAIN v5 PROVE FALSE
      <3>1. v5[k] \in BlockType
        BY <1>3
      <3>2. PICK t \in Seq(Nat) : t = v5[k].tokens
        BY <3>1 DEF BlockType
      <3>3. t # <<>> /\ C!ToSet(t) \subseteq 1..(v3 - 1)
        BY <1>3, <3>2 DEF Ordered
      <3>4. C!ToSet(t) = {t[n] : n \in 1..Len(t)}
        BY ToSetIs
      <3>5. 1 \in 1..Len(t)
        BY <3>3
      <3>6. t[1] \in 1..(v3 - 1)
        BY <3>3, <3>4, <3>5
      <3>7. 1..(v3 - 1) = {}
        BY <1>3
      <3> QED
        BY <3>6, <3>7
    <2>2. \A k \in DOMAIN v5 : FALSE
      BY <2>1
    <2> QED
      BY <1>3, <2>2, EmptyDomain
  <1>5. HeadsOf(v5) = {}
    BY <1>4 DEF HeadsOf
  <1>6. \A document : ~Leaps({}, document) /\ \A i : Under({}, document, i) = {}
    BY DEF Leaps, Under
  <1>7. v4 = <<>>
    <2>1. C!ToSet(v4) = {}
      BY <1>3, <1>5, <1>6 DEF PathFits
    <2>2. C!ToSet(v4) = {v4[n] : n \in 1..Len(v4)}
      BY <1>3, ToSetIs
    <2>3. PICK way \in Seq(Nat) : way = v4
      BY <1>3
    <2>4. ASSUME NEW n \in 1..Len(way) PROVE FALSE
      <3>1. way[n] \in {}
        BY <2>1, <2>2, <2>3
      <3> QED
        BY <3>1
    <2>5. Len(way) = 0
      <3>1. Len(way) \in Nat /\ ~(1 \in 1..Len(way))
        BY <2>3, <2>4
      <3> QED
        BY <3>1
    <2>6. way = <<>>
      BY <2>5
    <2> QED
      BY <2>3, <2>6
  <1>8. v2' \in Seq(C!Kinds)
    BY <1>1 DEF C!ConstantsAssumption
  <1>9. PICK document \in Seq(C!Kinds) : document = v2'
    BY <1>8
  <1>10. Parsed(document, 1, <<>>, <<>>)
    <2>1. 1 \in 1..(Len(document) + 1)
      OBVIOUS
    <2>2. Ordered(<<>>, 1, document) /\ HeldSoFar(<<>>, 1, document)
      BY DEF Ordered, HeldSoFar
    <2>3. HeadsOf(<<>>) = {}
      BY DEF HeadsOf
    <2>4. PathFits(<<>>, {}, document, 1)
      <3>1. C!ToSet(<<>>) = {}
        BY DEF C!ToSet
      <3> QED
        BY <1>6, <3>1 DEF PathFits
    <2>5. Nested(<<>>, {}, document)
      BY DEF Nested
    <2>6. <<>> \in Seq(Nat) /\ <<>> \in Seq(BlockType)
      OBVIOUS
    <2> QED
      BY <2>1, <2>2, <2>3, <2>4, <2>5, <2>6 DEF Parsed
  <1>11. Parsed(v2', v3', v4', v5')
    BY <1>1, <1>3, <1>4, <1>7, <1>9, <1>10, Zenon
  <1> QED
    BY <1>1, <1>2, <1>11, ParsingGoesOn

LEMMA PlanStays ==
  ASSUME C!IInv, C!ConstantsAssumption, C!Plan
  PROVE  C!IInv'
  <1>1. /\ v2' = v2 /\ v3' = v3 /\ v4' = v4 /\ v5' = v5
        /\ v1' = IF v8' = <<>> THEN "refused" ELSE "planned"
    BY DEF C!Plan
  <1>2. Parsed(v2', v3', v4', v5')
    BY <1>1, InvIsParsed, Zenon
  <1>3. C!NothingIsLost' /\ C!ChildrenFit'
    BY PlanKeeps
  <1>4. v1' \in {"refused", "planned"}
    BY <1>1
  <1>5. /\ v1' \in {"start", "parsing", "planned", "refused"}
        /\ v1' = "start" => v2' = <<>>
        /\ v1' \in {"start", "parsing"} => v8' = <<>>
    BY <1>4
  <1> QED
    BY <1>2, <1>3, <1>5, ParsedIsInv

(* Every step of the parser and of the plan.                               *)
LEMMA ChunkingStep ==
  ASSUME C!IInv, C!ConstantsAssumption, C!Next
  PROVE  C!IInv'
  <1>0. {"CODE", "TABLE", "LIST", "QUOTE", "PARAGRAPH"} \subseteq C!Types \ {"HEADING"}
    BY DEF C!Types
  <1>1. CASE C!TableBlock
    <2>1. C!Reading /\ C!Block("TABLE", {"bar", "rule"})
      BY <1>1 DEF C!TableBlock
    <2> QED
      BY <1>0, <2>1, BlockKeeps
  <1>2. CASE C!ListBlock
    <2>1. C!Reading /\ C!Block("LIST", {"item"})
      BY <1>2 DEF C!ListBlock
    <2> QED
      BY <1>0, <2>1, BlockKeeps
  <1>3. CASE C!Quote
    <2>1. C!Reading /\ C!Block("QUOTE", {"quote"})
      BY <1>3 DEF C!Quote
    <2> QED
      BY <1>0, <2>1, BlockKeeps
  <1>4. CASE C!Paragraph
    <2>1. C!Reading /\ C!Block("PARAGRAPH", {"bar", "rule", "text"})
      BY <1>4 DEF C!Paragraph
    <2> QED
      BY <1>0, <2>1, BlockKeeps
  <1> QED
    BY <1>1, <1>2, <1>3, <1>4, SkipKeeps, HeadingKeeps, CodeKeeps, OpenKeeps, PlanStays
       DEF C!Next

LEMMA ChunkingInit ==
  ASSUME C!Init
  PROVE  C!IInv
  <1>1. /\ v1 = "start" /\ v2 = <<>> /\ v3 = 1 /\ v4 = <<>> /\ v5 = <<>> /\ v8 = <<>>
    BY DEF C!Init
  <1>2. C!BlocksAreInOrder /\ C!ReadIsKept
    BY <1>1 DEF C!BlocksAreInOrder, C!ReadIsKept
  <1>3. HeadsOf(v5) = {}
    BY <1>1 DEF HeadsOf
  <1>4. C!HeadingLines = {} /\ \A i : C!Enclosing(i) = {}
    BY <1>3, HeadingsAre DEF Under
  <1>5. C!PathIsThere
    <2>1. C!ToSet(v4) = {}
      BY <1>1 DEF C!ToSet
    <2> QED
      BY <1>1, <1>4, <2>1 DEF C!PathIsThere
  <1>6. C!ChunksAreSound
    <2>1. C!NothingIsLost /\ C!ChildrenFit
      BY <1>1 DEF C!NothingIsLost, C!ChildrenFit
    <2>2. C!PathsNest
      BY <1>1 DEF C!PathsNest
    <2> QED
      BY <2>1, <2>2 DEF C!ChunksAreSound
  <1> QED
    BY <1>1, <1>2, <1>5, <1>6 DEF C!IInv

LEMMA ChunkingNext ==
  ASSUME C!ConstantsAssumption, C!IInv, [C!Next]_(C!vars)
  PROVE  C!IInv'
  <1>1. CASE C!Next
    BY <1>1, ChunkingStep
  <1>2. CASE UNCHANGED C!vars
    <2>1. /\ v1' = v1 /\ v2' = v2 /\ v3' = v3 /\ v4' = v4
          /\ v5' = v5 /\ v6' = v6 /\ v7' = v7 /\ v8' = v8
      BY <1>2 DEF C!vars
    <2>2. /\ Parsed(v2, v3, v4, v5) /\ v1 \in {"start", "parsing", "planned", "refused"}
          /\ v1 = "start" => v2 = <<>>
          /\ v1 \in {"start", "parsing"} => v8 = <<>>
      BY InvIsParsed
    <2>3. C!NothingIsLost /\ C!ChildrenFit
      BY DEF C!IInv, C!ChunksAreSound
    <2>4. C!NothingIsLost'
      BY <2>1, <2>3, Zenon DEF C!NothingIsLost, C!Reach
    <2>5. C!ChildrenFit'
      BY <2>1, <2>3, Zenon DEF C!ChildrenFit
    <2>6. Parsed(v2', v3', v4', v5')
      BY <2>1, <2>2, Zenon
    <2>7. /\ v1' \in {"start", "parsing", "planned", "refused"}
          /\ v1' = "start" => v2' = <<>>
          /\ v1' \in {"start", "parsing"} => v8' = <<>>
      BY <2>1, <2>2
    <2> QED
      BY <2>4, <2>5, <2>6, <2>7, ParsedIsInv
  <1> QED
    BY <1>1, <1>2
=============================================================================
