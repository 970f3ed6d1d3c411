------------------------- MODULE BodyRewriteProofs -------------------------
(***************************************************************************)
(* Proofs about BodyRewrite: what a stub says is true of the body it left  *)
(* in, its hash is that of a text that had been archived, a request is     *)
(* judged by its own settings, and the prefix of a conversation changes    *)
(* only for what it adds, for any transcripts, settings, number of         *)
(* requests, edits, restarts and evictions of the store.                   *)
(*                                                                         *)
(* Whatever the memo holds, the form in which a result leaves is a         *)
(* function of the conversation, the API and the settings (FormOf): the    *)
(* strengthening says that the memos hold nothing else (Truthful,          *)
(* JudgedBy) and that what left follows it (Described).  Its hash is the   *)
(* memo's: no two engines were made after the same edit or restart         *)
(* (EnginesApart), and the one that made the last body still has the stubs *)
(* in it (MakerHolds).  What is left to show is about conversations: what  *)
(* a longer one can change in a shorter one's results (FormChanges), and   *)
(* that pairing by order is pairing by id where calls are answered in      *)
(* order (InOrderIsMeant).                                                 *)
(***************************************************************************)
EXTENDS BodyRewrite, FiniteSetTheorems, SequenceTheorems, NaturalsInduction, WellFoundedInduction, TLAPS

\* A set of numbers that is not empty has a least one.
LEMMA Least == ASSUME NEW S \in SUBSET Nat, S # {} PROVE \E m \in S : \A n \in S : m <= n
<1> DEFINE R == OpToRel(<, Nat)
<1>1. IsWellFoundedOn(R, Nat)
  BY NatLessThanWellFounded
<1> HIDE DEF R
<1>2. PICK m \in S : \A n \in S : ~(<<n, m>> \in R)
  BY <1>1, WFMin, Zenon
<1>3. R = {ss \in Nat \X Nat : ss[1] < ss[2]}
  BY DEF R, OpToRel
<1>4. ASSUME NEW n \in S PROVE m <= n
  <2>1. <<n, m>> \in Nat \X Nat /\ <<n, m>>[1] = n /\ <<n, m>>[2] = m
    OBVIOUS
  <2> QED BY <1>2, <1>3, <2>1
<1> QED BY <1>4

\* And a last one, if it is bounded.
LEMMA Greatest ==
  ASSUME NEW limit \in Nat, NEW S \in SUBSET (0 .. limit), S # {}
  PROVE  \E m \in S : \A n \in S : n <= m
<1> DEFINE T == {limit - n : n \in S}
<1>1. T \in SUBSET Nat /\ T # {}
  <2>1. PICK n \in S : TRUE
    OBVIOUS
  <2>2. limit - n \in T
    OBVIOUS
  <2>3. \A k \in S : limit - k \in Nat
    OBVIOUS
  <2>4. \A c \in T : c \in Nat
    BY <2>3
  <2> HIDE DEF T
  <2> QED BY <2>2, <2>4
<1>2. PICK d \in T : \A c \in T : d <= c
  BY <1>1, Least
<1>3. PICK m \in S : d = limit - m
  OBVIOUS
<1>4. ASSUME NEW n \in S PROVE n <= m
  <2>1. limit - n \in T
    OBVIOUS
  <2>2. m \in Int /\ n \in Int /\ limit \in Int
    OBVIOUS
  <2> HIDE DEF T
  <2> QED BY <1>2, <1>3, <2>1, <2>2
<1> QED BY <1>4

-----------------------------------------------------------------------------
(* The n-th of a set of numbers. *)

UpTo(S, c) == {d \in 1 .. c : d \in S}

\* One number more, one element more at most.
LEMMA UpToCounts ==
  ASSUME NEW S, NEW c \in Nat
  PROVE  /\ IsFiniteSet(UpTo(S, c)) /\ Cardinality(UpTo(S, c)) \in Nat
         /\ Cardinality(UpTo(S, 0)) = 0
         /\ Cardinality(UpTo(S, c + 1)) = Cardinality(UpTo(S, c)) + (IF c + 1 \in S THEN 1 ELSE 0)
<1>1. IsFiniteSet(UpTo(S, c))
  <2>1. IsFiniteSet(1 .. c)
    BY FS_Interval
  <2>2. UpTo(S, c) \in SUBSET (1 .. c)
    BY DEF UpTo
  <2> QED BY <2>1, <2>2, FS_Subset
<1>2. Cardinality(UpTo(S, c)) \in Nat
  BY <1>1, FS_CardinalityType
<1>3. UpTo(S, 0) = {}
  BY DEF UpTo
<1>4. Cardinality(UpTo(S, 0)) = 0
  BY <1>3, FS_EmptySet
<1>5. CASE c + 1 \in S
  <2>1. UpTo(S, c + 1) = UpTo(S, c) \cup {c + 1} /\ c + 1 \notin UpTo(S, c)
    BY <1>5 DEF UpTo
  <2> QED BY <1>1, <1>2, <1>4, <1>5, <2>1, FS_AddElement
<1>6. CASE c + 1 \notin S
  <2>1. UpTo(S, c + 1) = UpTo(S, c)
    BY <1>6 DEF UpTo
  <2> QED BY <1>1, <1>2, <1>4, <1>6, <2>1
<1> QED BY <1>5, <1>6

\* If there are n of them, one is the n-th.
LEMMA NthIsThere ==
  ASSUME NEW S, NEW m \in Nat, NEW n \in 1 .. Cardinality(UpTo(S, m))
  PROVE  \E c \in 1 .. m : c \in S /\ Cardinality(UpTo(S, c)) = n
<1> DEFINE Far == {c \in 0 .. m : Cardinality(UpTo(S, c)) >= n}
<1>1. Cardinality(UpTo(S, m)) \in Nat /\ n \in Nat /\ n >= 1 /\ Cardinality(UpTo(S, m)) >= n
  BY UpToCounts
<1>2. Far \in SUBSET Nat /\ m \in Far
  BY <1>1
<1>3. PICK c \in Far : \A d \in Far : c <= d
  BY <1>2, Least
<1>4. c \in 0 .. m /\ Cardinality(UpTo(S, c)) >= n
  OBVIOUS
<1>5. c # 0
  <2>1. Cardinality(UpTo(S, 0)) = 0
    BY <1>2, UpToCounts
  <2> QED BY <1>1, <1>4, <2>1
<1>6. c - 1 \in 0 .. m /\ c - 1 \notin Far
  BY <1>3, <1>4, <1>5
<1> DEFINE before == Cardinality(UpTo(S, c - 1))
           now    == Cardinality(UpTo(S, c))
<1>7. before \in Nat /\ now \in Nat /\ now = before + (IF c \in S THEN 1 ELSE 0)
  <2>1. c - 1 \in Nat /\ (c - 1) + 1 = c
    BY <1>4, <1>5
  <2> QED BY <2>1, UpToCounts
<1>8. before < n
  BY <1>1, <1>6, <1>7
<1> HIDE DEF Far, before
<1>9. c \in S /\ now = n
  BY <1>1, <1>4, <1>7, <1>8
<1> QED BY <1>4, <1>5, <1>9

\* Two are never both the n-th.
LEMMA NthIsOne ==
  ASSUME NEW S, NEW c \in Nat, NEW d \in Nat, c < d, d \in S
  PROVE  Cardinality(UpTo(S, c)) < Cardinality(UpTo(S, d))
<1>1. d - 1 \in Nat /\ (d - 1) + 1 = d
  OBVIOUS
<1>2. Cardinality(UpTo(S, d)) = Cardinality(UpTo(S, d - 1)) + 1 /\ IsFiniteSet(UpTo(S, d - 1))
  <2>1. Cardinality(UpTo(S, (d - 1) + 1)) = Cardinality(UpTo(S, d - 1)) + (IF (d - 1) + 1 \in S THEN 1 ELSE 0)
    BY <1>1, UpToCounts
  <2> QED BY <1>1, <2>1, UpToCounts
<1>3. UpTo(S, c) \in SUBSET UpTo(S, d - 1)
  BY DEF UpTo
<1>4. Cardinality(UpTo(S, c)) <= Cardinality(UpTo(S, d - 1))
  BY <1>2, <1>3, FS_Subset
<1> QED BY <1>1, <1>2, <1>4, UpToCounts

-----------------------------------------------------------------------------
(* Which call a result is paired with. *)

Named(t, name) == {c \in DOMAIN t.calls : NameOf(t.calls[c]) = name}
Answering(t, name) == {j \in DOMAIN t.answers : NameOf(OwnCall(t, j)) = name}

Name(t, i) == NameOf(OwnCall(t, i))
PlaceOf(t, i) == Cardinality(UpTo(Answering(t, Name(t, i)), i))

\* What a body is made of.
LEMMA BodyParts ==
  ASSUME NEW t, IsBody(t)
  PROVE  /\ DOMAIN t.calls = 1 .. Len(t.calls) /\ Len(t.calls) \in Nat
         /\ DOMAIN t.answers = 1 .. Len(t.answers) /\ Len(t.answers) \in Nat
         /\ \A c \in DOMAIN t.calls : t.calls[c] \in Calls
         /\ \A i \in DOMAIN t.answers :
              /\ t.answers[i] \in [of : DOMAIN t.calls, text : Texts]
              /\ t.answers[i].of \in DOMAIN t.calls
              /\ t.answers[i].text \in Texts
              /\ OwnCall(t, i) \in Calls
<1>1. t.calls \in Seq(Calls) /\ t.answers \in Seq([of : DOMAIN t.calls, text : Texts])
  BY DEF IsBody
<1>2. DOMAIN t.calls = 1 .. Len(t.calls) /\ Len(t.calls) \in Nat /\ \A c \in DOMAIN t.calls : t.calls[c] \in Calls
  BY <1>1
<1>3. DOMAIN t.answers = 1 .. Len(t.answers) /\ Len(t.answers) \in Nat
  BY <1>1
<1>4. ASSUME NEW i \in DOMAIN t.answers
      PROVE  /\ t.answers[i] \in [of : DOMAIN t.calls, text : Texts]
             /\ t.answers[i].of \in DOMAIN t.calls /\ t.answers[i].text \in Texts
  <2>1. t.answers[i] \in [of : DOMAIN t.calls, text : Texts]
    BY <1>1, <1>3, <1>4, ElementOfSeq
  <2> QED BY <2>1
<1> QED BY <1>2, <1>3, <1>4 DEF OwnCall

\* The n-th call of its name, counted.
LEMMA NthInBody ==
  ASSUME NEW t, IsBody(t), NEW c \in DOMAIN t.calls, NEW n, NEW name
  PROVE  IsNth(t, c, n, name) <=> (c \in Named(t, name) /\ Cardinality(UpTo(Named(t, name), c)) = n)
<1>1. {d \in 1 .. c : NameOf(t.calls[d]) = name} = UpTo(Named(t, name), c)
  BY BodyParts DEF UpTo, Named
<1> QED BY <1>1 DEF IsNth, Named

\* The n-th answer to its name, counted.
LEMMA PlaceInBody ==
  ASSUME NEW t, IsBody(t), NEW i \in DOMAIN t.answers
  PROVE  Cardinality({j \in 1 .. i : NameOf(OwnCall(t, j)) = NameOf(OwnCall(t, i))}) = PlaceOf(t, i)
<1>1. {j \in 1 .. i : NameOf(OwnCall(t, j)) = NameOf(OwnCall(t, i))} = UpTo(Answering(t, Name(t, i)), i)
  BY BodyParts DEF UpTo, Answering, Name
<1> QED BY <1>1 DEF PlaceOf

\* There are as many calls of a name as there are answers to them.
LEMMA PlaceIsThere ==
  ASSUME NEW t, IsBody(t), NEW i \in DOMAIN t.answers
  PROVE  PlaceOf(t, i) \in 1 .. Cardinality(UpTo(Named(t, Name(t, i)), Len(t.calls)))
<1> DEFINE A == UpTo(Answering(t, Name(t, i)), i)
           C == UpTo(Named(t, Name(t, i)), Len(t.calls))
           f == [j \in A |-> t.answers[j].of]
<1>1. i \in Nat /\ Len(t.calls) \in Nat /\ i \in A
  BY BodyParts DEF UpTo, Answering, Name
<1>2. ASSUME NEW j \in A PROVE j \in DOMAIN t.answers /\ t.answers[j].of \in C
  BY BodyParts DEF UpTo, Answering, Named, Name, OwnCall
<1>3. f \in [A -> C]
  BY <1>2
<1>4. \A j, k \in A : f[j] = f[k] => j = k
  BY <1>2 DEF IsBody
<1>5. f \in Injection(A, C)
  BY <1>3, <1>4 DEF Injection, IsInjective
<1>6. IsFiniteSet(C) /\ IsFiniteSet(A) /\ Cardinality(A) \in Nat /\ Cardinality(C) \in Nat
  BY <1>1, UpToCounts
<1>7. Cardinality(A) <= Cardinality(C)
  <2> HIDE DEF A, C, f
  <2> QED BY <1>5, <1>6, FS_Injection
<1>8. Cardinality(A) # 0
  BY <1>1, <1>6, FS_EmptySet
<1> QED BY <1>6, <1>7, <1>8 DEF PlaceOf

\* So the n-th answer of a name has an n-th call of that name, and only one.
LEMMA CallInOrderIs ==
  ASSUME NEW t, IsBody(t), NEW i \in DOMAIN t.answers
  PROVE  \E c \in DOMAIN t.calls :
           /\ IsNth(t, c, PlaceOf(t, i), Name(t, i))
           /\ CallInOrder(t, i) = t.calls[c]
           /\ \A d \in DOMAIN t.calls : IsNth(t, d, PlaceOf(t, i), Name(t, i)) => d = c
<1> DEFINE S == Named(t, Name(t, i))
           n == PlaceOf(t, i)
<1>1. Len(t.calls) \in Nat /\ DOMAIN t.calls = 1 .. Len(t.calls)
  BY BodyParts
<1>2. PICK c \in 1 .. Len(t.calls) : c \in S /\ Cardinality(UpTo(S, c)) = n
  BY <1>1, PlaceIsThere, NthIsThere
<1>3. IsNth(t, c, n, Name(t, i))
  BY <1>1, <1>2, NthInBody
<1>4. ASSUME NEW d \in DOMAIN t.calls, NEW e \in DOMAIN t.calls,
             IsNth(t, d, n, Name(t, i)), IsNth(t, e, n, Name(t, i))
      PROVE  d = e
  <2>1. d \in S /\ e \in S /\ Cardinality(UpTo(S, d)) = n /\ Cardinality(UpTo(S, e)) = n
    BY <1>4, NthInBody
  <2>2. d \in Nat /\ e \in Nat
    BY <1>1
  <2>3. n \in Int
    BY <2>1, <2>2, UpToCounts
  <2>4. ~(d < e) /\ ~(e < d)
    BY <2>1, <2>2, <2>3, NthIsOne
  <2> QED BY <2>2, <2>4
<1>5. CallInOrder(t, i) = t.calls[CHOOSE d \in DOMAIN t.calls : IsNth(t, d, n, Name(t, i))]
  BY PlaceInBody DEF CallInOrder, Name
<1>6. (CHOOSE d \in DOMAIN t.calls : IsNth(t, d, n, Name(t, i))) = c
  BY <1>1, <1>3, <1>4
<1> QED BY <1>1, <1>3, <1>4, <1>5, <1>6

IsPrefixBody(b, t) ==
  /\ IsBody(b) /\ IsBody(t)
  /\ Len(b.calls) <= Len(t.calls) /\ Len(b.answers) <= Len(t.answers)
  /\ \A n \in DOMAIN b.calls : b.calls[n] = t.calls[n]
  /\ \A i \in DOMAIN b.answers : b.answers[i] = t.answers[i]

\* A result keeps its call while the conversation goes on.
LEMMA CallStays ==
  ASSUME NEW b, NEW t, IsPrefixBody(b, t), NEW i \in DOMAIN b.answers
  PROVE  /\ i \in DOMAIN t.answers
         /\ OwnCall(b, i) = OwnCall(t, i)
         /\ CallInOrder(b, i) = CallInOrder(t, i)
<1>1. IsBody(b) /\ IsBody(t)
  BY DEF IsPrefixBody
<1>2. /\ DOMAIN b.calls \subseteq DOMAIN t.calls /\ DOMAIN b.answers \subseteq DOMAIN t.answers
      /\ DOMAIN b.calls \subseteq Nat /\ DOMAIN b.answers \subseteq Nat
  BY <1>1, BodyParts DEF IsPrefixBody
<1>3. \A j \in DOMAIN b.answers : OwnCall(b, j) = OwnCall(t, j)
  BY <1>1, <1>2, BodyParts DEF IsPrefixBody, OwnCall
<1>4. i \in Nat /\ 1 .. i \subseteq DOMAIN b.answers
  BY <1>1, BodyParts
<1>5. Name(b, i) = Name(t, i)
  BY <1>3 DEF Name
<1>6. UpTo(Answering(b, Name(b, i)), i) = UpTo(Answering(t, Name(t, i)), i)
  BY <1>2, <1>3, <1>4, <1>5 DEF UpTo, Answering
<1>7. PlaceOf(b, i) = PlaceOf(t, i)
  BY <1>6 DEF PlaceOf
<1>8. PICK c \in DOMAIN b.calls : IsNth(b, c, PlaceOf(b, i), Name(b, i)) /\ CallInOrder(b, i) = b.calls[c]
  BY <1>1, CallInOrderIs
<1>9. PICK d \in DOMAIN t.calls :
        /\ CallInOrder(t, i) = t.calls[d]
        /\ \A e \in DOMAIN t.calls : IsNth(t, e, PlaceOf(t, i), Name(t, i)) => e = d
  BY <1>1, <1>2, CallInOrderIs
<1>10. IsNth(t, c, PlaceOf(t, i), Name(t, i))
  <2>1. 1 .. c \subseteq DOMAIN b.calls /\ c \in Nat
    BY <1>1, BodyParts
  <2>2. \A e \in 1 .. c : b.calls[e] = t.calls[e]
    BY <2>1 DEF IsPrefixBody
  <2>3. c \in 1 .. c
    BY <1>1, BodyParts
  <2>4. {e \in 1 .. c : NameOf(b.calls[e]) = Name(t, i)} = {e \in 1 .. c : NameOf(t.calls[e]) = Name(t, i)}
    BY <2>2
  <2> QED BY <1>5, <1>7, <1>8, <2>2, <2>3, <2>4 DEF IsNth
<1>11. b.calls[c] = t.calls[c] /\ c = d
  BY <1>2, <1>9, <1>10 DEF IsPrefixBody
<1> QED BY <1>2, <1>3, <1>8, <1>9, <1>11

\* The pairing by order is right when the answers keep the order of the calls.
LEMMA InOrderIsMeant ==
  ASSUME NEW t, IsBody(t), AnsweredInOrder(t), NEW i \in DOMAIN t.answers
  PROVE  CallInOrder(t, i) = OwnCall(t, i)
<1> DEFINE c == t.answers[i].of
           A == UpTo(Answering(t, Name(t, i)), i)
           C == UpTo(Named(t, Name(t, i)), c)
           f == [j \in A |-> t.answers[j].of]
<1>1. /\ i \in Nat /\ c \in Nat /\ c \in DOMAIN t.calls /\ c \in Named(t, Name(t, i))
      /\ DOMAIN t.calls \subseteq Nat /\ DOMAIN t.answers \subseteq Nat
  BY BodyParts DEF Named, Name, OwnCall
<1>2. ASSUME NEW j \in A PROVE j \in DOMAIN t.answers /\ t.answers[j].of \in C
  <2>1. j \in DOMAIN t.answers /\ j <= i /\ j \in Nat /\ Name(t, j) = Name(t, i)
    BY BodyParts DEF UpTo, Answering, Name
  <2>2. t.answers[j].of \in Named(t, Name(t, i)) /\ t.answers[j].of \in Nat /\ t.answers[j].of >= 1
    BY <2>1, BodyParts DEF Named, OwnCall, Name
  <2>3. t.answers[j].of <= c
    <3> SUFFICES ASSUME t.answers[j].of > c PROVE FALSE
      BY <1>1, <2>2
    <3>1. c \in 1 .. t.answers[j].of
      BY <1>1, <2>2, BodyParts
    <3>2. NameOf(t.calls[c]) = NameOf(OwnCall(t, j))
      BY <2>1 DEF Name, OwnCall
    <3>3. PICK k \in 1 .. j : t.answers[k].of = c
      BY <2>1, <3>1, <3>2 DEF AnsweredInOrder
    <3>4. k \in DOMAIN t.answers
      BY <2>1, BodyParts
    <3>5. k = i
      BY <3>3, <3>4 DEF IsBody
    <3>6. j = i
      BY <2>1, <3>5
    <3> QED BY <1>1, <3>6
  <2> QED BY <2>1, <2>2, <2>3 DEF UpTo
<1>3. ASSUME NEW d \in C PROVE \E j \in A : f[j] = d
  <2>1. d \in 1 .. c /\ NameOf(t.calls[d]) = NameOf(OwnCall(t, i))
    BY DEF UpTo, Named, Name
  <2>2. PICK j \in 1 .. i : t.answers[j].of = d
    BY <2>1 DEF AnsweredInOrder
  <2>3. j \in A
    BY <2>1, <2>2, BodyParts DEF UpTo, Answering, Name, OwnCall
  <2> QED BY <2>2, <2>3
<1>4. f \in Surjection(A, C)
  BY <1>2, <1>3 DEF Surjection
<1>5. f \in Injection(A, C)
  BY <1>2 DEF Injection, IsInjective, IsBody
<1>6. IsFiniteSet(A)
  BY <1>1, UpToCounts
<1>7. Cardinality(C) = PlaceOf(t, i)
  <2> HIDE DEF A, C, f
  <2>1. Cardinality(C) = Cardinality(A)
    BY <1>4, <1>5, <1>6, FS_Surjection
  <2> QED BY <2>1 DEF A, PlaceOf
<1>8. IsNth(t, c, PlaceOf(t, i), Name(t, i))
  BY <1>1, <1>7, NthInBody
<1>9. PICK d \in DOMAIN t.calls :
        /\ CallInOrder(t, i) = t.calls[d]
        /\ \A e \in DOMAIN t.calls : IsNth(t, e, PlaceOf(t, i), Name(t, i)) => e = d
  BY CallInOrderIs
<1> QED BY <1>1, <1>8, <1>9 DEF OwnCall

-----------------------------------------------------------------------------
(* What the passes see of a body. *)

CallAs(api, t, i) == IF api = "Gemini" THEN CallInOrder(t, i) ELSE OwnCall(t, i)
SeenAs(api, t) == [i \in DOMAIN t.answers |-> Result(t, i, CallAs(api, t, i))]
VerbatimAs(api, e) == e.kind \in {"read", "retrieve"} \/ (e.kind = "recall" /\ api # "Gemini")

\* The same of the API that the client speaks.
LEMMA AsSeen == (\A t : Seen(t) = SeenAs(provider, t)) /\ (\A e : Verbatim(e) <=> VerbatimAs(provider, e))
  BY DEF Seen, SeenAs, CallFor, CallAs, Verbatim, VerbatimAs

\* A result by what its answer says and its call asks for.
LEMMA SeenParts ==
  ASSUME NEW api, NEW t, IsBody(t)
  PROVE  LET s == SeenAs(api, t) IN
         /\ DOMAIN s = DOMAIN t.answers /\ Len(s) = Len(t.answers) /\ DOMAIN s = 1 .. Len(s) /\ Len(s) \in Nat
         /\ \A i \in DOMAIN s :
              /\ s[i] = Result(t, i, CallAs(api, t, i))
              /\ s[i].kind = OwnCall(t, i).kind
              /\ s[i].text = t.answers[i].text
              /\ s[i].text \in Texts
              /\ IsRead(s[i]) => s[i].path \in Paths /\ s[i].path # NoPath
<1> DEFINE s == SeenAs(api, t)
<1>1. DOMAIN s = DOMAIN t.answers /\ DOMAIN s = 1 .. Len(t.answers) /\ Len(t.answers) \in Nat
  BY BodyParts DEF SeenAs
<1>2. Len(s) = Len(t.answers)
  BY <1>1
<1>3. ASSUME NEW i \in DOMAIN s
      PROVE  /\ s[i] = Result(t, i, CallAs(api, t, i))
             /\ s[i].kind = OwnCall(t, i).kind
             /\ s[i].text = t.answers[i].text
             /\ s[i].text \in Texts
             /\ s[i].path = CallAs(api, t, i).path
  BY <1>1, BodyParts DEF SeenAs, Result
<1>4. ASSUME NEW i \in DOMAIN s, IsRead(s[i]) PROVE s[i].path \in Paths /\ s[i].path # NoPath
  <2>1. CallAs(api, t, i) \in Calls /\ NameOf(CallAs(api, t, i)) = Name(t, i) /\ OwnCall(t, i) \in Calls
    <3>1. PICK c \in DOMAIN t.calls : IsNth(t, c, PlaceOf(t, i), Name(t, i)) /\ CallInOrder(t, i) = t.calls[c]
      BY <1>1, CallInOrderIs
    <3>2. CallInOrder(t, i) \in Calls /\ NameOf(CallInOrder(t, i)) = Name(t, i)
      BY <3>1, BodyParts DEF IsNth
    <3> QED BY <1>1, <3>2, BodyParts DEF CallAs, Name
  <2>2. Name(t, i) = "read"
    BY <1>3, <1>4 DEF IsRead, Name, NameOf
  <2>3. CallAs(api, t, i).kind = "read"
    BY <2>1, <2>2 DEF NameOf
  <2>4. CallAs(api, t, i).path \in Paths
    BY <2>1, <2>3 DEF Calls
  <2> QED BY <1>3, <2>4, PathAssumption
<1> QED BY <1>1, <1>2, <1>3, <1>4

\* What the passes see of b is the beginning of what they see of t.
SeenGrows(api, b, t) ==
  /\ IsBody(b) /\ IsBody(t)
  /\ DOMAIN SeenAs(api, b) \subseteq DOMAIN SeenAs(api, t)
  /\ \A i \in DOMAIN SeenAs(api, b) : SeenAs(api, b)[i] = SeenAs(api, t)[i]

\* It stays as it is while the conversation goes on.
LEMMA SeenStays ==
  ASSUME NEW api, NEW b, NEW t, IsPrefixBody(b, t)
  PROVE  SeenGrows(api, b, t)
<1>1. IsBody(b) /\ IsBody(t)
  BY DEF IsPrefixBody
<1>2. ASSUME NEW i \in DOMAIN b.answers
      PROVE  i \in DOMAIN t.answers /\ Result(b, i, CallAs(api, b, i)) = Result(t, i, CallAs(api, t, i))
  <2>1. b.answers[i] = t.answers[i]
    BY DEF IsPrefixBody
  <2>2. /\ i \in DOMAIN t.answers /\ OwnCall(b, i) = OwnCall(t, i)
        /\ CallAs(api, b, i) = CallAs(api, t, i)
    BY CallStays DEF CallAs
  <2> QED BY <2>1, <2>2 DEF Result
<1> QED BY <1>1, <1>2 DEF SeenAs, SeenGrows

\* Of two parts of a conversation, the one with fewer results is a part of the other.
LEMMA SeenCompare ==
  ASSUME NEW api, NEW b, NEW c, NEW t, IsPrefixBody(b, t), IsPrefixBody(c, t)
  PROVE  SeenGrows(api, b, c) \/ SeenGrows(api, c, b)
<1>1. /\ SeenGrows(api, b, t) /\ SeenGrows(api, c, t)
      /\ DOMAIN SeenAs(api, b) = 1 .. Len(b.answers) /\ DOMAIN SeenAs(api, c) = 1 .. Len(c.answers)
      /\ Len(b.answers) \in Nat /\ Len(c.answers) \in Nat
  <2>1. SeenGrows(api, b, t) /\ SeenGrows(api, c, t) /\ IsBody(b) /\ IsBody(c)
    BY SeenStays DEF IsPrefixBody
  <2>2. DOMAIN SeenAs(api, b) = DOMAIN b.answers /\ DOMAIN SeenAs(api, c) = DOMAIN c.answers
    BY DEF SeenAs
  <2> QED BY <2>1, <2>2, BodyParts
<1>2. CASE Len(b.answers) <= Len(c.answers)
  <2>1. DOMAIN SeenAs(api, b) \subseteq DOMAIN SeenAs(api, c)
    BY <1>1, <1>2
  <2> QED BY <1>1, <2>1 DEF SeenGrows
<1>3. CASE Len(c.answers) <= Len(b.answers)
  <2>1. DOMAIN SeenAs(api, c) \subseteq DOMAIN SeenAs(api, b)
    BY <1>1, <1>3
  <2> QED BY <1>1, <2>1 DEF SeenGrows
<1> QED BY <1>1, <1>2, <1>3

\* The passes see what the agent meant, unless a Gemini body was answered out of order.
LEMMA SeenAsMeant ==
  ASSUME NEW api, NEW t, IsBody(t), api = "Gemini" => AnsweredInOrder(t)
  PROVE  SeenAs(api, t) = Meant(t)
<1>1. \A i \in DOMAIN t.answers : CallAs(api, t, i) = OwnCall(t, i)
  BY InOrderIsMeant DEF CallAs
<1> QED BY <1>1 DEF SeenAs, Meant

-----------------------------------------------------------------------------
(* The verdicts on a result. *)

FormOf(api, min, s, i) ==
  IF Superseded(s, i) THEN "superseded"
  ELSE IF Duplicate(s, i) THEN "duplicate"
  ELSE IF Candidate(s[i]) /\ ~VerbatimAs(api, s[i]) /\ Fires(min, s[i].text) THEN "compressed"
  ELSE "whole"

\* A result that is superseded stays so.
LEMMA SupersededStays ==
  ASSUME NEW api, NEW b, NEW t, SeenGrows(api, b, t),
         NEW i \in DOMAIN SeenAs(api, b), Superseded(SeenAs(api, b), i)
  PROVE  Superseded(SeenAs(api, t), i)
<1> DEFINE s == SeenAs(api, b)
           l == SeenAs(api, t)
<1>1. /\ Len(s) \in Nat /\ Len(l) \in Nat /\ DOMAIN s = 1 .. Len(s) /\ DOMAIN l = 1 .. Len(l)
      /\ \A k \in 1 .. Len(s) : k \in 1 .. Len(l) /\ s[k] = l[k]
  BY SeenParts DEF SeenGrows
<1>2. PICK k \in i + 1 .. Len(s) : Outdates(s, k, i)
  BY DEF Superseded
<1> HIDE DEF s, l
<1>3. i \in 1 .. Len(s) /\ k \in 1 .. Len(s) /\ k \in i + 1 .. Len(l)
  BY <1>1, <1>2 DEF s
<1>4. s[i] = l[i] /\ s[k] = l[k]
  BY <1>1, <1>3
<1>5. IsRead(s[i]) /\ Candidate(s[i])
  BY DEF Superseded, s
<1>6. Outdates(l, k, i)
  BY <1>2, <1>4 DEF Outdates
<1> QED BY <1>3, <1>4, <1>5, <1>6 DEF Superseded, l

\* It becomes so for a later result on its file.
LEMMA SupersededLater ==
  ASSUME NEW api, NEW b, NEW t, SeenGrows(api, b, t),
         NEW i \in DOMAIN SeenAs(api, b), Superseded(SeenAs(api, t), i), ~Superseded(SeenAs(api, b), i)
  PROVE  /\ IsRead(SeenAs(api, t)[i])
         /\ \E k \in DOMAIN SeenAs(api, t) \ DOMAIN SeenAs(api, b) : Outdates(SeenAs(api, t), k, i)
<1> DEFINE s == SeenAs(api, b)
           l == SeenAs(api, t)
<1>1. /\ Len(s) \in Nat /\ Len(l) \in Nat /\ DOMAIN s = 1 .. Len(s) /\ DOMAIN l = 1 .. Len(l)
      /\ \A k \in 1 .. Len(s) : k \in 1 .. Len(l) /\ s[k] = l[k]
  BY SeenParts DEF SeenGrows
<1>2. PICK k \in i + 1 .. Len(l) : Outdates(l, k, i)
  BY DEF Superseded
<1>3. IsRead(l[i]) /\ Candidate(l[i])
  BY DEF Superseded
<1>4. ~Superseded(s, i)
  OBVIOUS
<1> HIDE DEF s, l
<1>5. i \in 1 .. Len(s) /\ k \in 1 .. Len(l)
  BY <1>1, <1>2 DEF s
<1>6. k \notin 1 .. Len(s)
  <2> SUFFICES ASSUME k \in 1 .. Len(s) PROVE Superseded(s, i)
    BY <1>4
  <2>1. k \in i + 1 .. Len(s) /\ s[i] = l[i] /\ s[k] = l[k]
    BY <1>1, <1>2, <1>5
  <2>2. Outdates(s, k, i)
    BY <1>2, <2>1 DEF Outdates
  <2> QED BY <1>3, <2>1, <2>2 DEF Superseded
<1> QED BY <1>1, <1>2, <1>3, <1>5, <1>6 DEF s, l

\* The form a result has in a longer body, where it is another than in a shorter one.
LEMMA FormChanges ==
  ASSUME NEW api, NEW min, NEW b, NEW t, SeenGrows(api, b, t), NEW i \in DOMAIN SeenAs(api, b),
         NEW was, was = FormOf(api, min, SeenAs(api, b), i),
         NEW now, now = FormOf(api, min, SeenAs(api, t), i),
         was # now
  PROVE  LET l == SeenAs(api, t)
             new == DOMAIN l \ DOMAIN SeenAs(api, b)
         IN  \/ now = "superseded" /\ IsRead(l[i]) /\ \E k \in new : Outdates(l, k, i)
             \/ now = "duplicate" /\ was # "superseded" /\ \E k \in new : l[k].text = l[i].text
             \/ /\ now \notin {"superseded", "duplicate"} /\ was = "duplicate"
                /\ \A k \in i + 1 .. Len(l) : l[k].text = l[i].text => Superseded(l, k)
<1> DEFINE s == SeenAs(api, b)
           l == SeenAs(api, t)
           new == DOMAIN l \ DOMAIN s
<1>1. /\ Len(s) \in Nat /\ Len(l) \in Nat /\ DOMAIN s = 1 .. Len(s) /\ DOMAIN l = 1 .. Len(l)
      /\ \A k \in 1 .. Len(s) : k \in 1 .. Len(l) /\ s[k] = l[k]
  BY SeenParts DEF SeenGrows
<1>2. \A k \in DOMAIN s : Superseded(s, k) => Superseded(l, k)
  BY SupersededStays
<1>3. s[i] = l[i] /\ i \in 1 .. Len(s)
  BY <1>1
<1>4. CASE Superseded(l, i)
  <2>1. now = "superseded" /\ ~Superseded(s, i)
    BY <1>4 DEF FormOf
  <2>2. IsRead(l[i]) /\ \E k \in new : Outdates(l, k, i)
    BY <1>4, <2>1, SupersededLater
  <2> QED BY <2>1, <2>2
<1>5. CASE ~Superseded(l, i) /\ Duplicate(l, i)
  <2>1. now = "duplicate" /\ ~Superseded(s, i) /\ ~Duplicate(s, i) /\ was # "superseded"
    BY <1>2, <1>5 DEF FormOf
  <2>2. PICK k \in i + 1 .. Len(l) : l[k].text = l[i].text /\ ~Superseded(l, k)
    BY <1>5 DEF Duplicate
  <2>3. k \notin DOMAIN s
    <3> SUFFICES ASSUME k \in DOMAIN s PROVE FALSE
      OBVIOUS
    <3>1. k \in i + 1 .. Len(s) /\ s[k].text = s[i].text /\ ~Superseded(s, k)
      BY <1>1, <1>2, <1>3, <2>2
    <3>2. Candidate(s[i])
      BY <1>3, <1>5 DEF Duplicate
    <3> QED BY <2>1, <3>1, <3>2 DEF Duplicate
  <2>4. k \in new
    BY <1>1, <1>3, <2>2, <2>3
  <2> QED BY <2>1, <2>2, <2>4
<1>6. CASE ~Superseded(l, i) /\ ~Duplicate(l, i)
  <2>1. ~Superseded(s, i) /\ now \notin {"superseded", "duplicate"}
    BY <1>2, <1>6 DEF FormOf
  <2>2. Duplicate(s, i)
    BY <1>3, <1>6, <2>1 DEF FormOf
  <2>3. was = "duplicate" /\ Candidate(l[i])
    BY <1>3, <2>1, <2>2 DEF FormOf, Duplicate
  <2>4. \A k \in i + 1 .. Len(l) : l[k].text = l[i].text => Superseded(l, k)
    BY <1>6, <2>3 DEF Duplicate
  <2> QED BY <2>1, <2>3, <2>4
<1> QED BY <1>4, <1>5, <1>6

Described(api, min, t, blocks) ==
  /\ DOMAIN blocks = DOMAIN t.answers /\ Len(blocks) = Len(t.answers)
  /\ \A i \in DOMAIN blocks : blocks[i].form = FormOf(api, min, SeenAs(api, t), i)

\* Of the later copies of a duplicate that are not superseded, the last is not a
\* stub: nothing follows that it could repeat.
LEMMA LastCopyStands ==
  ASSUME NEW t, IsBody(t), NEW left, left.seen = SeenAs(provider, t),
         NEW min, min = left.min, NEW blocks, blocks = left.blocks, Described(provider, min, t, blocks),
         NEW i \in DOMAIN blocks, Duplicate(SeenAs(provider, t), i)
  PROVE  HasCopyBelow(left, i)
<1> DEFINE api == provider
           s == SeenAs(api, t)
           copies == {k \in i + 1 .. Len(s) : s[k].text = s[i].text /\ ~Superseded(s, k)}
<1>1. /\ Len(s) \in Nat /\ DOMAIN s = 1 .. Len(s) /\ DOMAIN blocks = DOMAIN s /\ Len(blocks) = Len(s)
      /\ \A k \in DOMAIN s : s[k].text = t.answers[k].text
  BY SeenParts DEF Described
<1>2. i \in Nat /\ Candidate(s[i])
  BY <1>1 DEF Duplicate
<1>3. copies \in SUBSET (0 .. Len(s)) /\ copies # {}
  BY <1>1, <1>2 DEF Duplicate
<1>4. PICK k \in copies : \A n \in copies : n <= k
  BY <1>1, <1>3, Greatest
<1>5. k \in i + 1 .. Len(s) /\ k \in DOMAIN s /\ s[k].text = s[i].text /\ ~Superseded(s, k)
  BY <1>1, <1>2
<1>6. ~Duplicate(s, k)
  <2> SUFFICES ASSUME NEW n \in k + 1 .. Len(s), s[n].text = s[k].text, ~Superseded(s, n) PROVE FALSE
    BY DEF Duplicate
  <2>1. n \in copies
    BY <1>1, <1>2, <1>5
  <2> QED BY <1>2, <1>4, <1>5, <2>1
<1>7. blocks[k].form = AsJudged(min, s[k])
  <2>1. Verbatim(s[k]) <=> VerbatimAs(api, s[k])
    BY AsSeen
  <2> QED BY <1>1, <1>5, <1>6, <2>1 DEF Described, FormOf, AsJudged
<1> QED BY <1>1, <1>5, <1>7 DEF HasCopyBelow

\* What a stub says of a body is true of it, when the blocks have the forms
\* that the body gives them.
LEMMA StubsSayTheTruth ==
  ASSUME NEW t, IsBody(t), NEW left, left.seen = SeenAs(provider, t), Described(provider, left.min, t, left.blocks),
         NEW i \in DOMAIN left.blocks
  PROVE  /\ left.blocks[i].form = "duplicate" => HasCopyBelow(left, i)
         /\ left.blocks[i].form = "superseded" /\ (provider = "Gemini" => AnsweredInOrder(t)) => CameBackTo(t, i)
<1>1. ASSUME left.blocks[i].form = "duplicate" PROVE HasCopyBelow(left, i)
  <2>1. Duplicate(SeenAs(provider, t), i)
    BY <1>1 DEF Described, FormOf
  <2> QED BY <2>1, LastCopyStands
<1>2. ASSUME left.blocks[i].form = "superseded", provider = "Gemini" => AnsweredInOrder(t) PROVE CameBackTo(t, i)
  <2>1. Superseded(SeenAs(provider, t), i)
    BY <1>2 DEF Described, FormOf
  <2>2. Superseded(Meant(t), i)
    BY <1>2, <2>1, SeenAsMeant
  <2> QED BY <2>2 DEF Superseded, Outdates, CameBackTo
<1> QED BY <1>1, <1>2

-----------------------------------------------------------------------------
(* The memos. *)

\* The engine after a pass.
After(e, s, failed) == [e EXCEPT !.verdicts = VerdictsAfter(e, s), !.stubs = StubsAfter(e, s, failed)]

Truthful(stubs, kept) == \A k \in DOMAIN stubs : stubs[k] = NoHash \/ (stubs[k] = k.text /\ k.text \in kept)

\* A key says why, and of which text.
LEMMA KeyParts ==
  ASSUME NEW s, NEW i
  PROVE  /\ KeyOf(s, i).text = s[i].text
         /\ Superseded(s, i) => KeyOf(s, i).why = "superseded"
         /\ ~Superseded(s, i) => KeyOf(s, i).why = "duplicate"
BY DEF KeyOf

\* A pass leaves a stub in the memo for every stale result, and none that lies.
LEMMA StubsBuilt ==
  ASSUME NEW s, Len(s) \in Nat, DOMAIN s = 1 .. Len(s), NEW e, NEW kept, Truthful(e.stubs, kept),
         NEW failed \in SUBSET Missing(e, s)
  PROVE  /\ Truthful(StubsAfter(e, s, failed), kept \cup Stored(e, s, failed))
         /\ \A i \in DOMAIN s : Stale(s, i) => KeyOf(s, i) \in DOMAIN StubsAfter(e, s, failed)
<1> DEFINE stubs == StubsAfter(e, s, failed)
           more == kept \cup Stored(e, s, failed)
           Made(k) == CHOOSE i \in Missing(e, s) : KeyOf(s, i) = k
<1>1. DOMAIN stubs = DOMAIN e.stubs \cup {KeyOf(s, i) : i \in Missing(e, s)}
  BY DEF StubsAfter
<1>2. ASSUME NEW k \in DOMAIN stubs PROVE stubs[k] = NoHash \/ (stubs[k] = k.text /\ k.text \in more)
  <2>1. stubs[k] = IF k \in DOMAIN e.stubs THEN e.stubs[k] ELSE IF Made(k) \in failed THEN NoHash ELSE s[Made(k)].text
    BY <1>1 DEF StubsAfter
  <2>2. CASE k \in DOMAIN e.stubs
    BY <2>1, <2>2 DEF Truthful
  <2>3. CASE k \notin DOMAIN e.stubs
    <3>1. Made(k) \in Missing(e, s) /\ KeyOf(s, Made(k)) = k
      BY <1>1, <2>3
    <3>2. s[Made(k)].text = k.text
      BY <3>1, KeyParts
    <3> QED BY <2>1, <2>3, <3>1, <3>2 DEF Stored
  <2> QED BY <2>2, <2>3
<1>3. ASSUME NEW i \in DOMAIN s, Stale(s, i), KeyOf(s, i) \notin DOMAIN e.stubs
      PROVE  \E j \in Missing(e, s) : KeyOf(s, j) = KeyOf(s, i)
  <2> DEFINE same == {j \in DOMAIN s : Stale(s, j) /\ KeyOf(s, j) = KeyOf(s, i)}
  <2>1. same \in SUBSET Nat /\ i \in same
    BY <1>3
  <2>2. PICK j \in same : \A n \in same : j <= n
    BY <2>1, Least
  <2>3. j \in DOMAIN s /\ Stale(s, j) /\ KeyOf(s, j) = KeyOf(s, i)
    OBVIOUS
  <2>4. ASSUME NEW n \in 1 .. j - 1, Stale(s, n) PROVE KeyOf(s, n) # KeyOf(s, j)
    <3>1. n \in DOMAIN s /\ ~(j <= n)
      BY <2>3
    <3> QED BY <2>2, <2>3, <2>4, <3>1
  <2>5. j \in Missing(e, s)
    BY <1>3, <2>3, <2>4 DEF Missing
  <2> QED BY <2>3, <2>5
<1> QED BY <1>1, <1>2, <1>3 DEF Truthful

Verdicts == UNION {[T -> BOOLEAN] : T \in SUBSET Texts}
Engines == [min : Minimums \ {0}, made : 0 .. MaxChange, verdicts : Verdicts, stubs : UNION {[K -> Texts \cup {NoHash}] : K \in SUBSET Keys}]

JudgedBy(min, verdicts) == \A t \in DOMAIN verdicts : verdicts[t] <=> Fires(min, t)

\* And a verdict for every text it asks about, by the settings of the engine.
LEMMA VerdictsGiven ==
  ASSUME NEW s, NEW e, JudgedBy(e.min, e.verdicts)
  PROVE  /\ JudgedBy(e.min, VerdictsAfter(e, s))
         /\ DOMAIN VerdictsAfter(e, s) = DOMAIN e.verdicts \cup Judged(s)
<1>1. DOMAIN VerdictsAfter(e, s) = DOMAIN e.verdicts \cup Judged(s)
  BY DEF VerdictsAfter
<1>2. ASSUME NEW t \in DOMAIN e.verdicts \cup Judged(s)
      PROVE  VerdictsAfter(e, s)[t] <=> Fires(e.min, t)
  <2>1. CASE t \in DOMAIN e.verdicts
    <3>1. VerdictsAfter(e, s)[t] = e.verdicts[t]
      BY <2>1 DEF VerdictsAfter
    <3> QED BY <2>1, <3>1, Zenon DEF JudgedBy
  <2>2. CASE t \notin DOMAIN e.verdicts
    <3>1. VerdictsAfter(e, s)[t] = Fires(e.min, t)
      BY <2>2 DEF VerdictsAfter
    <3> QED BY <3>1, Zenon
  <2> QED BY <2>1, <2>2
<1> QED BY <1>1, <1>2, Zenon DEF JudgedBy

\* What a block says follows from the settings and what the pass saw.
LEMMA BlockIs ==
  ASSUME NEW e, NEW s, NEW i \in DOMAIN s, NEW min, JudgedBy(min, e.verdicts), Judged(s) \subseteq DOMAIN e.verdicts
  PROVE  /\ BlockOf(e, s, i).form = FormOf(provider, min, s, i)
         /\ BlockOf(e, s, i).hash = NoHash \/ (Stale(s, i) /\ BlockOf(e, s, i).hash = e.stubs[KeyOf(s, i)])
<1>1. CASE Stale(s, i)
  BY <1>1, KeyParts DEF BlockOf, FormOf, Stale
<1>2. CASE ~Stale(s, i) /\ Candidate(s[i]) /\ ~Verbatim(s[i])
  <2>1. s[i].text \in DOMAIN e.verdicts
    BY <1>2 DEF Judged
  <2>2. e.verdicts[s[i].text] <=> Fires(min, s[i].text)
    BY <2>1, Zenon DEF JudgedBy
  <2>3. ~VerbatimAs(provider, s[i])
    BY <1>2, AsSeen
  <2>4. CASE Fires(min, s[i].text)
    <3>1. BlockOf(e, s, i) = [form |-> "compressed", hash |-> NoHash]
      BY <1>2, <2>2, <2>4, Zenon DEF BlockOf
    <3>2. FormOf(provider, min, s, i) = "compressed"
      BY <1>2, <2>3, <2>4 DEF FormOf, Stale
    <3> QED BY <3>1, <3>2
  <2>5. CASE ~Fires(min, s[i].text)
    <3>1. BlockOf(e, s, i) = [form |-> "whole", hash |-> NoHash]
      BY <1>2, <2>2, <2>5, Zenon DEF BlockOf
    <3>2. FormOf(provider, min, s, i) = "whole"
      BY <1>2, <2>5 DEF FormOf, Stale
    <3> QED BY <3>1, <3>2
  <2> QED BY <2>4, <2>5
<1>3. CASE ~Stale(s, i) /\ (~Candidate(s[i]) \/ Verbatim(s[i]))
  <2>1. ~Candidate(s[i]) \/ VerbatimAs(provider, s[i])
    BY <1>3, AsSeen
  <2>2. BlockOf(e, s, i) = [form |-> "whole", hash |-> NoHash]
    BY <1>3, Zenon DEF BlockOf
  <2>3. FormOf(provider, min, s, i) = "whole"
    BY <1>3, <2>1 DEF FormOf, Stale
  <2> QED BY <2>2, <2>3
<1> QED BY <1>1, <1>2, <1>3

\* An engine with other memos.
LEMMA MemosReplaced ==
  ASSUME NEW e \in Engines, NEW verdicts, NEW stubs
  PROVE  [e EXCEPT !.verdicts = verdicts, !.stubs = stubs] = [min |-> e.min, made |-> e.made, verdicts |-> verdicts, stubs |-> stubs]
<1>1. [e EXCEPT !.verdicts = verdicts] = [min |-> e.min, made |-> e.made, verdicts |-> verdicts, stubs |-> e.stubs]
  BY DEF Engines
<1>2. [[min |-> e.min, made |-> e.made, verdicts |-> verdicts, stubs |-> e.stubs] EXCEPT !.stubs = stubs]
        = [min |-> e.min, made |-> e.made, verdicts |-> verdicts, stubs |-> stubs]
  OBVIOUS
<1> QED BY <1>1, <1>2, Zenon

\* The memos keep their types.
LEMMA MemosTyped ==
  ASSUME NEW api, NEW t, IsBody(t), NEW s, s = SeenAs(api, t), NEW e \in Engines, NEW failed \in SUBSET Missing(e, s)
  PROVE  /\ After(e, s, failed) \in Engines
         /\ After(e, s, failed).min = e.min /\ After(e, s, failed).made = e.made
         /\ After(e, s, failed).verdicts = VerdictsAfter(e, s)
         /\ After(e, s, failed).stubs = StubsAfter(e, s, failed)
<1> DEFINE verdicts == VerdictsAfter(e, s)
           stubs == StubsAfter(e, s, failed)
<1>1. verdicts \in Verdicts
  <2>1. PICK T \in SUBSET Texts : e.verdicts \in [T -> BOOLEAN]
    BY DEF Engines, Verdicts
  <2>2. Judged(s) \subseteq Texts
    BY SeenParts DEF Judged
  <2>3. T = DOMAIN e.verdicts /\ \A x \in T : e.verdicts[x] \in BOOLEAN
    BY <2>1
  <2>4. ASSUME NEW x \in T \cup Judged(s)
        PROVE  (IF x \in T THEN e.verdicts[x] ELSE Fires(e.min, x)) \in BOOLEAN
    <3>1. Fires(e.min, x) \in BOOLEAN
      BY DEF Fires
    <3> QED BY <2>3, <3>1
  <2>5. verdicts \in [T \cup Judged(s) -> BOOLEAN]
    <3>1. verdicts = [x \in T \cup Judged(s) |-> IF x \in T THEN e.verdicts[x] ELSE Fires(e.min, x)]
      BY <2>3, Zenon DEF VerdictsAfter
    <3> HIDE DEF verdicts
    <3> QED BY <2>4, <3>1
  <2>6. T \cup Judged(s) \in SUBSET Texts
    BY <2>2
  <2> HIDE DEF verdicts
  <2> QED BY <2>5, <2>6 DEF Verdicts
<1>2. stubs \in UNION {[K -> Texts \cup {NoHash}] : K \in SUBSET Keys}
  <2> DEFINE made == {KeyOf(s, i) : i \in Missing(e, s)}
             Made(k) == CHOOSE i \in Missing(e, s) : KeyOf(s, i) = k
             K == DOMAIN e.stubs
  <2>1. K \in SUBSET Keys /\ \A k \in K : e.stubs[k] \in Texts \cup {NoHash}
    BY DEF Engines
  <2>2. ASSUME NEW i \in Missing(e, s) PROVE KeyOf(s, i) \in Keys /\ s[i].text \in Texts
    <3>1. i \in DOMAIN s /\ s[i].text \in Texts /\ (IsRead(s[i]) => s[i].path \in Paths)
      BY SeenParts DEF Missing
    <3>2. Superseded(s, i) => IsRead(s[i])
      BY DEF Superseded
    <3> QED BY <3>1, <3>2 DEF KeyOf, Keys
  <2>3. ASSUME NEW k \in K \cup made
        PROVE  (IF k \in K THEN e.stubs[k] ELSE IF Made(k) \in failed THEN NoHash ELSE s[Made(k)].text)
                 \in Texts \cup {NoHash}
    <3>1. CASE k \in K
      BY <2>1, <3>1
    <3>2. CASE k \notin K
      <4>1. Made(k) \in Missing(e, s)
        BY <3>2
      <4>2. s[Made(k)].text \in Texts
        BY <2>2, <4>1
      <4> HIDE DEF Made
      <4> QED BY <3>2, <4>2
    <3> QED BY <3>1, <3>2
  <2>4. stubs = [k \in K \cup made |-> IF k \in K THEN e.stubs[k] ELSE IF Made(k) \in failed THEN NoHash ELSE s[Made(k)].text]
    BY DEF StubsAfter
  <2>5. K \cup made \in SUBSET Keys
    BY <2>1, <2>2
  <2> HIDE DEF stubs, Made, made
  <2>6. stubs \in [K \cup made -> Texts \cup {NoHash}]
    BY <2>3, <2>4
  <2> QED BY <2>5, <2>6
<1> HIDE DEF verdicts, stubs
<1>3. [e EXCEPT !.verdicts = verdicts, !.stubs = stubs] = [min |-> e.min, made |-> e.made, verdicts |-> verdicts, stubs |-> stubs]
  BY MemosReplaced
<1>4. [min |-> e.min, made |-> e.made, verdicts |-> verdicts, stubs |-> stubs] \in Engines
  BY <1>1, <1>2 DEF Engines
<1>5. After(e, s, failed) = [min |-> e.min, made |-> e.made, verdicts |-> verdicts, stubs |-> stubs]
  BY <1>3, Zenon DEF After, verdicts, stubs
<1>6. /\ After(e, s, failed).verdicts = verdicts /\ After(e, s, failed).stubs = stubs
      /\ After(e, s, failed).min = e.min /\ After(e, s, failed).made = e.made
  BY <1>5
<1> QED BY <1>4, <1>5, <1>6 DEF verdicts, stubs

-----------------------------------------------------------------------------
(* The conversation grows. *)

Bodies == [calls : Seq(Calls), answers : Seq([of : Nat, text : Texts])]

\* r is s, of length n, with t, of length m, behind it.
IsJoin(S, s, n, t, m, r) ==
  /\ r \in Seq(S) /\ Len(r) = n + m /\ DOMAIN r = 1 .. n + m
  /\ \A i \in 1 .. n : r[i] = s[i]
  /\ \A i \in 1 .. m : r[n + i] = t[i]

\* One sequence behind another, by its places.
LEMMA Joined ==
  ASSUME NEW S, NEW s \in Seq(S), NEW t \in Seq(S)
  PROVE  IsJoin(S, s, Len(s), t, Len(t), s \o t)
<1> DEFINE n == Len(s)
           m == Len(t)
           r == s \o t
<1>1. n \in Nat /\ m \in Nat
  OBVIOUS
<1>2. /\ r \in Seq(S) /\ Len(r) = n + m
      /\ \A i \in 1 .. n + m : r[i] = IF i <= n THEN s[i] ELSE t[i - n]
  BY ConcatProperties
<1>3. ASSUME NEW i \in 1 .. n PROVE r[i] = s[i]
  BY <1>1, <1>2
<1>4. ASSUME NEW i \in 1 .. m PROVE r[n + i] = t[i]
  <2>1. n + i \in 1 .. n + m /\ ~(n + i <= n) /\ (n + i) - n = i
    BY <1>1
  <2> QED BY <1>2, <2>1
<1>5. DOMAIN r = 1 .. n + m
  BY <1>2
<1> QED BY <1>2, <1>3, <1>4, <1>5 DEF IsJoin

\* Answers to some calls are answers to more.
LEMMA AnswersTo ==
  ASSUME NEW P, NEW Q, P \subseteq Q, NEW s \in Seq([of : P, text : Texts])
  PROVE  s \in Seq([of : Q, text : Texts])
<1> DEFINE A == [of : P, text : Texts]
           B == [of : Q, text : Texts]
<1>1. A \subseteq B
  OBVIOUS
<1>2. s \in Seq(A)
  OBVIOUS
<1> HIDE DEF A, B
<1>3. s \in Seq(B)
  BY <1>1, <1>2, SeqMonotonic
<1> QED BY <1>3 DEF B

\* A body, whatever its answers point at.
LEMMA BodyTyped ==
  ASSUME NEW t, IsBody(t)
  PROVE  t.calls \in Seq(Calls) /\ t.answers \in Seq([of : Nat, text : Texts])
<1>1. t.calls \in Seq(Calls) /\ t.answers \in Seq([of : DOMAIN t.calls, text : Texts])
  BY DEF IsBody
<1>2. DOMAIN t.calls \subseteq Nat
  BY <1>1
<1> QED BY <1>1, <1>2, AnswersTo

\* A prefix has no call and no answer of its own.
LEMMA PrefixParts ==
  ASSUME NEW b, NEW t, IsPrefixBody(b, t)
  PROVE  DOMAIN b.calls \subseteq DOMAIN t.calls /\ DOMAIN b.answers \subseteq DOMAIN t.answers
BY BodyParts DEF IsPrefixBody

\* A prefix of a prefix is one.
LEMMA PrefixOfPrefix ==
  ASSUME NEW b, NEW t, NEW u, IsPrefixBody(b, t), IsPrefixBody(t, u)
  PROVE  IsPrefixBody(b, u)
<1>1. DOMAIN b.calls \subseteq DOMAIN t.calls /\ DOMAIN b.answers \subseteq DOMAIN t.answers
  BY PrefixParts
<1>2. Len(b.calls) \in Int /\ Len(t.calls) \in Int /\ Len(u.calls) \in Int
  BY BodyParts DEF IsPrefixBody
<1>3. Len(b.answers) \in Int /\ Len(t.answers) \in Int /\ Len(u.answers) \in Int
  BY BodyParts DEF IsPrefixBody
<1> QED BY <1>1, <1>2, <1>3 DEF IsPrefixBody

\* Every conversation begins with nothing.
LEMMA EmptyIsPrefix == ASSUME NEW t, IsBody(t) PROVE IsPrefixBody(Empty, t)
<1>1. IsBody(Empty)
  BY DEF IsBody, Empty
<1> QED BY <1>1, BodyParts DEF IsPrefixBody, Empty

Shifted(t, n) == [i \in DOMAIN t.answers |-> [t.answers[i] EXCEPT !.of = n + t.answers[i].of]]
Continued(b, t) == [calls |-> b.calls \o t.calls, answers |-> b.answers \o Shifted(t, Len(b.calls))]

\* A conversation that goes on is a conversation, and begins with what it was.
LEMMA Continues ==
  ASSUME NEW b, IsBody(b), NEW t, IsBody(t)
  PROVE  IsBody(Continued(b, t)) /\ IsPrefixBody(b, Continued(b, t)) /\ Continued(b, t) \in Bodies
<1>1. PICK n, m, p, q : n = Len(b.calls) /\ m = Len(b.answers) /\ p = Len(t.calls) /\ q = Len(t.answers)
  OBVIOUS
<1>2. n \in Nat /\ m \in Nat /\ p \in Nat /\ q \in Nat
  BY <1>1, BodyParts
<1>3. DOMAIN b.calls = 1 .. n /\ DOMAIN b.answers = 1 .. m /\ DOMAIN t.calls = 1 .. p /\ DOMAIN t.answers = 1 .. q
  BY <1>1, BodyParts
<1>4. PICK Place : Place = 1 .. n + p
  OBVIOUS
<1> DEFINE Answers == [of : Place, text : Texts]
           u == Continued(b, t)
<1>5. PICK calls : calls = b.calls \o t.calls
  OBVIOUS
<1>6. /\ calls \in Seq(Calls) /\ Len(calls) = n + p /\ DOMAIN calls = Place
      /\ \A c \in 1 .. n : calls[c] = b.calls[c]
  <2>1. b.calls \in Seq(Calls) /\ t.calls \in Seq(Calls)
    BY BodyTyped
  <2>2. /\ calls \in Seq(Calls) /\ Len(calls) = n + p /\ DOMAIN calls = 1 .. n + p
        /\ \A c \in 1 .. n : calls[c] = b.calls[c]
    <3>1. IsJoin(Calls, b.calls, Len(b.calls), t.calls, Len(t.calls), b.calls \o t.calls)
      BY <2>1, Joined
    <3>2. IsJoin(Calls, b.calls, n, t.calls, p, calls)
      BY <1>1, <1>5, <3>1, Zenon
    <3> QED BY <3>2 DEF IsJoin
  <2> QED BY <1>4, <2>2
<1>7. PICK later : later = Shifted(t, n)
  BY <1>1
<1>8. ASSUME NEW i \in 1 .. q
      PROVE  later[i] \in Answers /\ later[i].of = n + t.answers[i].of /\ t.answers[i].of \in 1 .. p
  <2>1. t.answers[i] \in [of : 1 .. p, text : Texts] /\ t.answers[i].of \in 1 .. p
    BY <1>3, BodyParts
  <2>2. n + t.answers[i].of \in Place
    BY <1>2, <1>4, <2>1
  <2>3. later[i] = [t.answers[i] EXCEPT !.of = n + t.answers[i].of]
    BY <1>3, <1>7 DEF Shifted
  <2> QED BY <2>1, <2>2, <2>3
<1>9. b.answers \in Seq(Answers) /\ \A k \in 1 .. m : b.answers[k].of \in 1 .. n
  <2>1. b.answers \in Seq([of : 1 .. n, text : Texts])
    BY <1>3 DEF IsBody
  <2>2. 1 .. n \subseteq Place
    BY <1>2, <1>4
  <2>3. \A k \in 1 .. m : b.answers[k].of \in 1 .. n
    BY <1>3, BodyParts
  <2> QED BY <2>1, <2>2, <2>3, AnswersTo
<1> HIDE DEF Answers
<1>10. later \in Seq(Answers) /\ Len(later) = q
  <2>1. later = [i \in 1 .. q |-> later[i]]
    BY <1>3, <1>7 DEF Shifted
  <2>2. \A i \in 1 .. q : later[i] \in Answers
    BY <1>8
  <2> QED BY <1>2, <2>1, <2>2
<1>11. PICK answers : answers = b.answers \o later
  OBVIOUS
<1>12. /\ answers \in Seq(Answers) /\ Len(answers) = m + q /\ DOMAIN answers = 1 .. m + q
       /\ \A i \in 1 .. m : answers[i] = b.answers[i]
       /\ \A i \in 1 .. q : answers[m + i] = later[i]
  <2>1. m = Len(b.answers) /\ q = Len(later) /\ b.answers \in Seq(Answers) /\ later \in Seq(Answers)
    BY <1>1, <1>9, <1>10
  <2>2. IsJoin(Answers, b.answers, Len(b.answers), later, Len(later), b.answers \o later)
    BY <2>1, Joined
  <2>3. IsJoin(Answers, b.answers, m, later, q, answers)
    BY <1>11, <2>1, <2>2, Zenon
  <2> QED BY <2>3 DEF IsJoin
<1>13. ASSUME NEW i \in DOMAIN answers, NEW j \in DOMAIN answers, answers[i].of = answers[j].of
       PROVE  i = j
  <2>1. ASSUME NEW k \in 1 .. m + q
        PROVE  k \in 1 .. m \/ (k - m \in 1 .. q /\ k = m + (k - m))
    BY <1>2
  <2>2. \A k \in 1 .. m : k \in DOMAIN b.answers /\ answers[k].of = b.answers[k].of /\ answers[k].of \in 1 .. n
    BY <1>3, <1>9, <1>12
  <2>3. \A k \in 1 .. q :
          k \in DOMAIN t.answers /\ answers[m + k].of = n + t.answers[k].of /\ t.answers[k].of \in 1 .. p
    BY <1>3, <1>8, <1>12
  <2>4. CASE i \in 1 .. m /\ j \in 1 .. m
    BY <1>13, <2>2, <2>4 DEF IsBody
  <2>5. ASSUME NEW k \in 1 .. q, NEW l \in 1 .. q, answers[m + k].of = answers[m + l].of PROVE k = l
    <3>1. n + t.answers[k].of = n + t.answers[l].of /\ t.answers[k].of \in Int /\ t.answers[l].of \in Int
      BY <2>3, <2>5
    <3>2. t.answers[k].of = t.answers[l].of
      BY <1>2, <3>1
    <3> QED BY <2>3, <3>2 DEF IsBody
  <2>6. ASSUME NEW k \in 1 .. m, NEW l \in 1 .. q PROVE answers[k].of # answers[m + l].of
    <3>1. answers[k].of \in 1 .. n /\ answers[m + l].of = n + t.answers[l].of /\ t.answers[l].of \in 1 .. p
      BY <2>2, <2>3
    <3> QED BY <1>2, <3>1
  <2>7. i \in 1 .. m + q /\ j \in 1 .. m + q
    BY <1>12
  <2> QED BY <1>13, <2>1, <2>4, <2>5, <2>6, <2>7
<1>14. u.calls = calls /\ u.answers = answers /\ u = [calls |-> calls, answers |-> answers]
  BY <1>1, <1>5, <1>7, <1>11 DEF Continued
<1> HIDE DEF u
<1>15. IsBody(u)
  BY <1>6, <1>12, <1>13, <1>14 DEF IsBody, Answers
<1>16. IsPrefixBody(b, u)
  <2>1. Len(b.calls) <= Len(u.calls) /\ Len(b.answers) <= Len(u.answers)
    <3>1. Len(u.calls) = n + p /\ Len(u.answers) = m + q
      BY <1>6, <1>12, <1>14
    <3>2. n <= n + p /\ m <= m + q
      BY <1>2
    <3> QED BY <1>1, <3>1, <3>2, Zenon
  <2>2. \A c \in DOMAIN b.calls : b.calls[c] = u.calls[c]
    BY <1>3, <1>6, <1>14
  <2>3. \A i \in DOMAIN b.answers : b.answers[i] = u.answers[i]
    BY <1>3, <1>12, <1>14
  <2> QED BY <1>15, <2>1, <2>2, <2>3 DEF IsPrefixBody
<1>17. u \in Bodies
  BY <1>14, <1>15, BodyTyped DEF Bodies
<1> QED BY <1>15, <1>16, <1>17 DEF u

-----------------------------------------------------------------------------
(* The invariant. *)

Results == [kind : {"read", "edit", "search", "run", "recall", "retrieve"},
            path : Paths \cup {NoPath}, view : Views \cup {NoPath}, text : Texts]

Blocks == [form : {"superseded", "duplicate", "compressed", "whole"}, hash : Texts \cup {NoHash}]

TypeOK ==
  /\ provider \in Providers /\ settings \in Minimums /\ changes \in 0 .. MaxChange
  /\ transcript \in Bodies
  /\ engines \in Seq(Engines)
  /\ job \in [Requests -> [engine : Nat, body : Bodies, seen : Seq(Results)]]
  /\ archive \subseteq Texts /\ evicted \subseteq Texts
  /\ sent \in [min : Minimums \cup {0}, made : 0 .. MaxChange, body : Bodies, seen : Seq(Results), blocks : Seq(Blocks)]

\* A body is a part of the conversation, seen by the API's pass.
PartSeen(body, seen) == IsPrefixBody(body, transcript) /\ seen = SeenAs(provider, body)

JobsHold ==
  \A r \in Requests : job[r].engine \in 0 .. Len(engines) /\ PartSeen(job[r].body, job[r].seen)

Archived == archive \cup evicted

\* An engine's memos are about its own settings and what was archived.
MemosHold ==
  \A n \in DOMAIN engines :
    JudgedBy(engines[n].min, engines[n].verdicts) /\ Truthful(engines[n].stubs, Archived)

\* Between two engines the settings were edited: no two were made after the same
\* edit or restart.
EnginesApart ==
  /\ \A n \in DOMAIN engines : engines[n].made <= changes
  /\ \A n, m \in DOMAIN engines : n < m => engines[n].made < engines[m].made
  /\ engines # << >> /\ Current.made = changes => Current.min = settings

\* Every block of what left is determined by the conversation and the settings,
\* and its hash, if it has one, is that of its text.
Left(api, min, body, blocks) ==
  /\ DOMAIN blocks = DOMAIN body.answers /\ Len(blocks) = Len(body.answers)
  /\ min = 0 => \A i \in DOMAIN blocks : blocks[i].form = "whole" /\ blocks[i].hash = NoHash
  /\ min # 0 => Described(api, min, body, blocks)

Kept(body, blocks, kept) ==
  \A i \in DOMAIN blocks : blocks[i].hash = NoHash \/ (blocks[i].hash = body.answers[i].text /\ blocks[i].hash \in kept)

SentHolds ==
  /\ PartSeen(sent.body, sent.seen)
  /\ Left(provider, sent.min, sent.body, sent.blocks)
  /\ Kept(sent.body, sent.blocks, Archived)

\* The hashes in what left are those of a memo.
FromMemo(left, stubs) ==
  \A i \in DOMAIN left.blocks :
    /\ Stale(left.seen, i) => /\ KeyOf(left.seen, i) \in DOMAIN stubs
                              /\ left.blocks[i].hash = stubs[KeyOf(left.seen, i)]
    /\ ~Stale(left.seen, i) => left.blocks[i].hash = NoHash

\* The engine that made the last body still has the stubs it has.
MakerHolds ==
  /\ sent.made <= changes
  /\ sent.min # 0 /\ sent.made = changes => \E n \in DOMAIN engines : engines[n].made = sent.made
  /\ sent.min # 0 => \A n \in DOMAIN engines : engines[n].made = sent.made => FromMemo(sent, engines[n].stubs)

BodyInv == TypeOK /\ IsBody(transcript) /\ JobsHold /\ MemosHold /\ EnginesApart /\ SentHolds /\ MakerHolds

-----------------------------------------------------------------------------
(* It is inductive. *)

\* What the passes see of a body is a sequence of results.
LEMMA SeenTyped ==
  ASSUME NEW api, NEW t, IsBody(t)
  PROVE  SeenAs(api, t) \in Seq(Results)
<1>1. ASSUME NEW i \in DOMAIN t.answers PROVE Result(t, i, CallAs(api, t, i)) \in Results
  <2>1. CallAs(api, t, i) \in Calls
    BY CallInOrderIs, BodyParts DEF CallAs
  <2>2. OwnCall(t, i) \in Calls /\ t.answers[i].text \in Texts
    BY BodyParts
  <2>3. \A call \in Calls : /\ call.kind \in {"read", "edit", "search", "run", "recall", "retrieve"}
                            /\ call.path \in Paths \cup {NoPath} /\ call.view \in Views \cup {NoPath}
    BY DEF Calls
  <2> QED BY <2>1, <2>2, <2>3 DEF Result, Results
<1>2. DOMAIN t.answers = 1 .. Len(t.answers) /\ Len(t.answers) \in Nat
  BY BodyParts
<1>3. SeenAs(api, t) = [i \in 1 .. Len(t.answers) |-> SeenAs(api, t)[i]]
  BY <1>2 DEF SeenAs
<1>4. \A i \in 1 .. Len(t.answers) : SeenAs(api, t)[i] \in Results
  BY <1>1, <1>2 DEF SeenAs
<1> QED BY <1>2, <1>3, <1>4

\* The smaller archive's stubs are true of the larger.
LEMMA KeptMore ==
  ASSUME NEW kept, NEW more, kept \subseteq more
  PROVE  /\ \A stubs : Truthful(stubs, kept) => Truthful(stubs, more)
         /\ \A body, blocks : Kept(body, blocks, kept) => Kept(body, blocks, more)
BY DEF Truthful, Kept

\* Nothing has been said, kept or sent.
LEMMA BodyAtStart == Init => BodyInv
<1> SUFFICES ASSUME Init PROVE BodyInv
  OBVIOUS
<1> USE DEF Init
<1>1. IsBody(Empty) /\ IsPrefixBody(Empty, Empty)
  <2>1. IsBody(Empty)
    BY DEF IsBody, Empty
  <2> QED BY <2>1, EmptyIsPrefix
<1>2. SeenAs(provider, Empty) = << >>
  BY DEF SeenAs, Empty
<1>3. Empty \in Bodies
  BY DEF Bodies, Empty
<1>4. TypeOK
  <2>1. Idle \in [engine : Nat, body : Bodies, seen : Seq(Results)]
    BY <1>3 DEF Idle
  <2>2. sent \in [min : Minimums \cup {0}, made : 0 .. MaxChange, body : Bodies, seen : Seq(Results), blocks : Seq(Blocks)]
    <3>1. 0 \in 0 .. MaxChange
      BY BoundAssumption
    <3> QED BY <1>3, <3>1
  <2> QED BY <1>3, <2>1, <2>2, BoundAssumption DEF TypeOK
<1>5. JobsHold
  <2>1. \A r \in Requests : job[r].engine = 0 /\ job[r].body = Empty /\ job[r].seen = << >>
    BY DEF Idle
  <2> QED BY <1>1, <1>2, <2>1 DEF JobsHold, PartSeen
<1>6. MemosHold
  BY DEF MemosHold
<1>7. SentHolds
  BY <1>1, <1>2 DEF SentHolds, PartSeen, Left, Kept, Empty
<1>8. EnginesApart /\ MakerHolds
  BY DEF EnginesApart, MakerHolds
<1> QED BY <1>1, <1>4, <1>5, <1>6, <1>7, <1>8 DEF BodyInv

\* The conversation grows: what was a part of it still is.
LEMMA GrowHolds == BodyInv /\ Grow => BodyInv'
<1> SUFFICES ASSUME BodyInv, Grow PROVE BodyInv'
  OBVIOUS
<1>1. UNCHANGED <<provider, settings, engines, job, archive, evicted, sent, changes>>
  BY DEF Grow
<1>2. PICK t \in Turns : transcript' = Continued(transcript, t)
  BY DEF Grow, Continued, Shifted
<1>3. /\ IsBody(transcript)' /\ transcript' \in Bodies
      /\ IsPrefixBody(transcript, transcript')
  BY <1>2, TurnAssumption, Continues DEF BodyInv
<1>4. \A body, seen : PartSeen(body, seen) => IsPrefixBody(body, transcript') /\ seen = SeenAs(provider', body)
  BY <1>1, <1>3, PrefixOfPrefix DEF PartSeen
<1>5. TypeOK'
  BY <1>1, <1>3 DEF BodyInv, TypeOK
<1>6. JobsHold'
  BY <1>1, <1>4 DEF BodyInv, JobsHold, PartSeen
<1>7. MemosHold'
  BY <1>1 DEF BodyInv, MemosHold, Archived
<1>8. SentHolds'
  BY <1>1, <1>4 DEF BodyInv, SentHolds, PartSeen, Archived
<1>9. EnginesApart' /\ MakerHolds'
  BY <1>1 DEF BodyInv, EnginesApart, MakerHolds, Current
<1> QED BY <1>3, <1>5, <1>6, <1>7, <1>8, <1>9 DEF BodyInv

\* A body that leaves as it is has no stubs.
LEMMA PassThroughHolds == ASSUME NEW r \in Requests PROVE BodyInv /\ PassThrough(r) => BodyInv'
<1> SUFFICES ASSUME BodyInv, PassThrough(r) PROVE BodyInv'
  OBVIOUS
<1> DEFINE n == Len(transcript.answers)
           whole == [form |-> "whole", hash |-> NoHash]
           blocks == [i \in DOMAIN transcript.answers |-> whole]
           seen == SeenAs(provider, transcript)
<1>1. UNCHANGED <<provider, transcript, settings, engines, job, archive, evicted, changes>>
  BY DEF PassThrough
<1>2. sent' = [min |-> 0, made |-> changes, body |-> transcript, seen |-> seen, blocks |-> blocks]
  BY AsSeen DEF PassThrough
<1>3. IsBody(transcript) /\ transcript \in Bodies /\ n \in Nat /\ DOMAIN transcript.answers = 1 .. n
  BY BodyParts DEF BodyInv, TypeOK
<1>4. blocks \in Seq(Blocks) /\ Len(blocks) = n /\ DOMAIN blocks = 1 .. n
  BY <1>3 DEF Blocks
<1>5. seen \in Seq(Results)
  BY <1>3, SeenTyped
<1>6. \A i \in DOMAIN blocks : blocks[i].form = "whole" /\ blocks[i].hash = NoHash
  OBVIOUS
<1>7. IsPrefixBody(transcript, transcript)
  BY <1>3, BodyParts DEF IsPrefixBody
<1> HIDE DEF blocks, seen
<1>8. TypeOK'
  BY <1>1, <1>2, <1>3, <1>4, <1>5 DEF BodyInv, TypeOK
<1>9. JobsHold' /\ MemosHold' /\ IsBody(transcript)'
  BY <1>1 DEF BodyInv, JobsHold, MemosHold, PartSeen, Archived
<1>10. /\ sent'.min = 0 /\ sent'.body = transcript' /\ sent'.seen = SeenAs(provider', sent'.body)
       /\ sent'.blocks = blocks /\ sent'.made = changes'
  BY <1>1, <1>2 DEF seen
<1>11. PartSeen(sent.body, sent.seen)'
  BY <1>1, <1>7, <1>10 DEF PartSeen
<1>12. Left(provider', sent'.min, sent'.body, sent'.blocks)
  BY <1>1, <1>3, <1>4, <1>6, <1>10 DEF Left
<1>13. Kept(sent'.body, sent'.blocks, Archived')
  BY <1>6, <1>10 DEF Kept
<1>14. SentHolds'
  BY <1>11, <1>12, <1>13 DEF SentHolds
<1>15. EnginesApart' /\ MakerHolds'
  <2>1. changes' \in Int
    BY <1>1 DEF BodyInv, TypeOK
  <2>2. MakerHolds'
    BY <1>10, <2>1 DEF MakerHolds
  <2> QED BY <1>1, <2>2 DEF BodyInv, EnginesApart, Current
<1> QED BY <1>8, <1>9, <1>14, <1>15 DEF BodyInv

\* What tells the engines apart is a number.
LEMMA MadeTyped ==
  ASSUME TypeOK
  PROVE  /\ engines \in Seq(Engines) /\ Len(engines) \in Nat /\ DOMAIN engines = 1 .. Len(engines)
         /\ changes \in Int /\ sent.made \in Int
         /\ \A n \in DOMAIN engines : n \in Int /\ engines[n].made \in Int
<1>1. engines \in Seq(Engines)
  BY DEF TypeOK
<1>2. Len(engines) \in Nat /\ DOMAIN engines = 1 .. Len(engines) /\ \A n \in DOMAIN engines : engines[n] \in Engines
  BY <1>1
<1>3. 0 .. MaxChange \subseteq Int
  BY BoundAssumption
<1>4. ASSUME NEW e \in Engines PROVE e.made \in Int
  BY <1>3 DEF Engines
<1>5. changes \in Int /\ sent.made \in Int
  BY <1>3 DEF TypeOK
<1> QED BY <1>1, <1>2, <1>4, <1>5

\* An engine is made only after an edit or a restart that no engine has seen, and
\* that nothing has been sent by.
LEMMA NewEngineApart ==
  ASSUME TypeOK, EnginesApart, MakerHolds, engines' = EnginesFor, UNCHANGED <<settings, sent, changes>>
  PROVE  EnginesApart' /\ MakerHolds'
<1>1. /\ engines \in Seq(Engines) /\ Len(engines) \in Nat /\ DOMAIN engines = 1 .. Len(engines)
      /\ changes \in Int /\ sent.made \in Int /\ \A n \in DOMAIN engines : engines[n].made \in Int
  BY MadeTyped
<1>2. CASE engines' = engines
  BY <1>2 DEF EnginesApart, MakerHolds, Current
<1>3. CASE engines' # engines
  <2>1. engines' = Append(engines, NewEngine) /\ (engines = << >> \/ Current.min # settings)
    BY <1>3 DEF EnginesFor
  <2>2. \A n \in DOMAIN engines : engines[n].made < changes
    <3> SUFFICES ASSUME NEW n \in DOMAIN engines, ~(engines[n].made < changes) PROVE FALSE
      OBVIOUS
    <3>1. engines # << >> /\ Len(engines) \in DOMAIN engines /\ n \in Nat /\ n <= Len(engines)
      BY <1>1
    <3>2. Current.made # changes
      BY <2>1, <3>1 DEF EnginesApart
    <3>3. Current.made <= changes /\ Current.made \in Int /\ Current = engines[Len(engines)]
      BY <1>1, <3>1 DEF EnginesApart, Current
    <3>4. n < Len(engines) => engines[n].made < Current.made
      BY <3>1, <3>3 DEF EnginesApart
    <3>5. engines[n].made \in Int
      BY <1>1
    <3>6. CASE n = Len(engines)
      BY <1>1, <3>2, <3>3, <3>5, <3>6
    <3>7. CASE n < Len(engines)
      BY <1>1, <3>3, <3>4, <3>5, <3>7
    <3> QED BY <1>1, <3>1, <3>6, <3>7
  <2>3. sent.min # 0 => sent.made # changes
    BY <1>1, <2>2 DEF MakerHolds
  <2>4. NewEngine.made = changes /\ NewEngine.min = settings
    BY DEF NewEngine
  <2> HIDE DEF NewEngine
  <2>5. /\ Len(engines') = Len(engines) + 1 /\ DOMAIN engines' = 1 .. Len(engines) + 1
        /\ engines'[Len(engines) + 1] = NewEngine
        /\ \A n \in DOMAIN engines : engines'[n] = engines[n]
    BY <1>1, <2>1
  <2>6. ASSUME NEW n \in DOMAIN engines' PROVE n \in DOMAIN engines \/ engines'[n] = NewEngine
    BY <1>1, <2>5
  <2>7. \A n \in DOMAIN engines' : engines'[n].made <= changes'
    BY <1>1, <2>2, <2>4, <2>5, <2>6
  <2>8. ASSUME NEW n \in DOMAIN engines', NEW m \in DOMAIN engines', n < m
        PROVE  engines'[n].made < engines'[m].made
    <3>1. n \in DOMAIN engines
      BY <1>1, <2>5, <2>8
    <3>2. CASE m \in DOMAIN engines
      BY <2>5, <2>8, <3>1, <3>2 DEF EnginesApart
    <3>3. CASE engines'[m] = NewEngine
      BY <2>2, <2>4, <2>5, <3>1, <3>3
    <3> QED BY <2>6, <3>2, <3>3
  <2>9. Current' = NewEngine
    BY <2>5 DEF Current
  <2>10. EnginesApart'
    BY <2>4, <2>7, <2>8, <2>9 DEF EnginesApart
  <2>11. MakerHolds'
    <3>1. \A n \in DOMAIN engines' : sent.min # 0 /\ engines'[n].made = sent.made => n \in DOMAIN engines
      BY <2>3, <2>4, <2>6
    <3> QED BY <2>3, <2>5, <3>1 DEF MakerHolds
  <2> QED BY <2>10, <2>11
<1> QED BY <1>2, <1>3

\* An edit or a restart is later than every engine and what it sent.
LEMMA OlderThanChange ==
  ASSUME TypeOK, EnginesApart, MakerHolds, engines' = engines \/ engines' = << >>,
         UNCHANGED sent, changes' = changes + 1
  PROVE  EnginesApart' /\ MakerHolds'
<1>1. /\ engines \in Seq(Engines) /\ changes \in Int /\ sent.made \in Int
      /\ \A n \in DOMAIN engines : engines[n].made \in Int
  BY MadeTyped
<1>2. sent'.made = sent.made /\ sent.made <= changes /\ sent'.made # changes' /\ sent'.made <= changes'
  BY <1>1 DEF MakerHolds
<1>3. CASE engines' = engines
  <2>1. \A n \in DOMAIN engines : engines[n].made <= changes' /\ engines[n].made # changes'
    BY <1>1 DEF EnginesApart
  <2>2. engines # << >> => Len(engines) \in DOMAIN engines
    BY <1>1
  <2>3. EnginesApart'
    BY <1>3, <2>1, <2>2 DEF EnginesApart, Current
  <2>4. MakerHolds'
    BY <1>2, <1>3 DEF MakerHolds
  <2> QED BY <2>3, <2>4
<1>4. CASE engines' = << >>
  BY <1>2, <1>4 DEF EnginesApart, MakerHolds
<1> QED BY <1>3, <1>4

\* A request begins with an engine of the settings it finds.
LEMMA BeginHolds == ASSUME NEW r \in Requests PROVE BodyInv /\ Begin(r) => BodyInv'
<1> SUFFICES ASSUME BodyInv, Begin(r) PROVE BodyInv'
  OBVIOUS
<1> DEFINE begun == [engine |-> Len(EnginesFor), body |-> transcript, seen |-> SeenAs(provider, transcript)]
<1>1. UNCHANGED <<provider, transcript, settings, archive, evicted, sent, changes>> /\ engines' = EnginesFor
  BY DEF Begin
<1>2. job' = [job EXCEPT ![r] = begun]
  BY AsSeen DEF Begin
<1>3. /\ EnginesFor \in Seq(Engines) /\ Len(engines) \in Nat /\ Len(EnginesFor) \in Nat /\ Len(engines) <= Len(EnginesFor)
      /\ \A n \in DOMAIN EnginesFor : n \in DOMAIN engines \/ EnginesFor[n] = NewEngine
      /\ \A n \in DOMAIN engines : EnginesFor[n] = engines[n]
  <2>1. engines \in Seq(Engines) /\ Len(engines) \in Nat
    BY DEF BodyInv, TypeOK
  <2>2. NewEngine \in Engines
    <3>1. settings \in Minimums \ {0}
      BY DEF Begin, BodyInv, TypeOK
    <3>2. << >> \in Verdicts
      <4>1. << >> \in [{} -> BOOLEAN] /\ {} \in SUBSET Texts
        OBVIOUS
      <4> QED BY <4>1 DEF Verdicts
    <3>3. << >> \in UNION {[K -> Texts \cup {NoHash}] : K \in SUBSET Keys}
      <4>1. << >> \in [{} -> Texts \cup {NoHash}] /\ {} \in SUBSET Keys
        OBVIOUS
      <4> QED BY <4>1
    <3>4. changes \in 0 .. MaxChange
      BY DEF BodyInv, TypeOK
    <3> QED BY <3>1, <3>2, <3>3, <3>4 DEF NewEngine, Engines
  <2>3. CASE EnginesFor = engines
    BY <2>1, <2>3
  <2>4. CASE EnginesFor = Append(engines, NewEngine)
    <3> HIDE DEF NewEngine
    <3>1. /\ Append(engines, NewEngine) \in Seq(Engines)
          /\ Len(Append(engines, NewEngine)) = Len(engines) + 1
          /\ \A n \in 1 .. Len(engines) + 1 :
               Append(engines, NewEngine)[n] = IF n <= Len(engines) THEN engines[n] ELSE NewEngine
      BY <2>1, <2>2
    <3>2. DOMAIN engines = 1 .. Len(engines) /\ DOMAIN Append(engines, NewEngine) = 1 .. Len(engines) + 1
      BY <2>1, <3>1
    <3> QED BY <2>1, <2>4, <3>1, <3>2
  <2> QED BY <2>3, <2>4 DEF EnginesFor
<1>4. IsBody(transcript) /\ transcript \in Bodies /\ SeenAs(provider, transcript) \in Seq(Results)
  BY SeenTyped DEF BodyInv, TypeOK
<1>5. begun \in [engine : Nat, body : Bodies, seen : Seq(Results)]
  BY <1>3, <1>4
<1>6. TypeOK'
  <2> HIDE DEF begun
  <2> QED BY <1>1, <1>2, <1>3, <1>5 DEF BodyInv, TypeOK
<1>7. JobsHold'
  <2> SUFFICES ASSUME NEW q \in Requests
               PROVE  job'[q].engine \in 0 .. Len(engines') /\ PartSeen(job[q].body, job[q].seen)'
    BY DEF JobsHold
  <2>1. CASE q = r
    <3>1. job'[q] = begun
      BY <1>2, <2>1 DEF BodyInv, TypeOK
    <3>2. IsPrefixBody(transcript, transcript)
      BY <1>4, BodyParts DEF IsPrefixBody
    <3> QED BY <1>1, <1>3, <3>1, <3>2 DEF PartSeen
  <2>2. CASE q # r
    <3>1. job'[q] = job[q]
      BY <1>2, <2>2 DEF BodyInv, TypeOK
    <3>2. job[q].engine \in 0 .. Len(engines) /\ PartSeen(job[q].body, job[q].seen)
      BY DEF BodyInv, JobsHold
    <3> QED BY <1>1, <1>3, <3>1, <3>2 DEF PartSeen
  <2> QED BY <2>1, <2>2
<1>8. MemosHold'
  <2>1. JudgedBy(NewEngine.min, NewEngine.verdicts) /\ Truthful(NewEngine.stubs, Archived)
    BY DEF NewEngine, JudgedBy, Truthful
  <2> QED BY <1>1, <1>3, <2>1 DEF BodyInv, MemosHold, Archived
<1>9. SentHolds' /\ IsBody(transcript)'
  BY <1>1 DEF BodyInv, SentHolds, PartSeen, Archived
<1>10. EnginesApart' /\ MakerHolds'
  BY <1>1, NewEngineApart DEF BodyInv
<1> QED BY <1>6, <1>7, <1>8, <1>9, <1>10 DEF BodyInv

\* Settings change nothing that has been said or judged.
LEMMA EditHolds == BodyInv /\ EditSettings => BodyInv'
<1> SUFFICES ASSUME BodyInv, EditSettings PROVE BodyInv'
  OBVIOUS
<1>1. /\ UNCHANGED <<provider, transcript, engines, job, archive, evicted, sent>>
      /\ settings' \in Minimums /\ changes' = changes + 1 /\ changes < MaxChange
  BY DEF EditSettings
<1>2. TypeOK'
  BY <1>1, BoundAssumption DEF BodyInv, TypeOK
<1>3. JobsHold' /\ MemosHold' /\ SentHolds' /\ IsBody(transcript)'
  BY <1>1 DEF BodyInv, JobsHold, MemosHold, SentHolds, PartSeen, Archived
<1>4. EnginesApart' /\ MakerHolds'
  BY <1>1, OlderThanChange DEF BodyInv
<1> QED BY <1>2, <1>3, <1>4 DEF BodyInv

\* A restart forgets the engines with the requests that used them.
LEMMA RestartHolds == BodyInv /\ Restart => BodyInv'
<1> SUFFICES ASSUME BodyInv, Restart PROVE BodyInv'
  OBVIOUS
<1>1. /\ UNCHANGED <<provider, transcript, settings, archive, evicted, sent>> /\ engines' = << >>
      /\ job' = [r \in Requests |-> Idle] /\ changes' = changes + 1 /\ changes < MaxChange
  BY DEF Restart
<1>2. IsBody(Empty) /\ Empty \in Bodies /\ SeenAs(provider, Empty) = << >>
  BY DEF IsBody, Bodies, Empty, SeenAs
<1>3. TypeOK'
  <2>1. Idle \in [engine : Nat, body : Bodies, seen : Seq(Results)]
    BY <1>2 DEF Idle
  <2> QED BY <1>1, <2>1, BoundAssumption DEF BodyInv, TypeOK
<1>4. JobsHold'
  <2>1. \A r \in Requests : job'[r].engine = 0 /\ job'[r].body = Empty /\ job'[r].seen = << >>
    BY <1>1 DEF Idle
  <2>2. IsPrefixBody(Empty, transcript')
    BY <1>1, EmptyIsPrefix DEF BodyInv
  <2> QED BY <1>1, <1>2, <2>1, <2>2 DEF JobsHold, PartSeen
<1>5. MemosHold'
  BY <1>1 DEF MemosHold
<1>6. SentHolds' /\ IsBody(transcript)'
  BY <1>1 DEF BodyInv, SentHolds, PartSeen, Archived
<1>7. EnginesApart' /\ MakerHolds'
  BY <1>1, OlderThanChange DEF BodyInv
<1> QED BY <1>3, <1>4, <1>5, <1>6, <1>7 DEF BodyInv

\* A pass leaves its memos true, and what it says follows from them.
LEMMA RewriteHolds == ASSUME NEW r \in Requests PROVE BodyInv /\ Rewrite(r) => BodyInv'
<1> SUFFICES ASSUME BodyInv, Rewrite(r) PROVE BodyInv'
  OBVIOUS
<1> DEFINE n == job[r].engine
           e == engines[n]
           s == job[r].seen
           body == job[r].body
<1>1. PICK failed, gone :
        /\ failed \in SUBSET Missing(e, s)
        /\ gone \subseteq archive \cup Stored(e, s, failed)
        /\ engines' = [engines EXCEPT ![n] = After(e, s, failed)]
        /\ archive' = (archive \cup Stored(e, s, failed)) \ gone
        /\ evicted' = (evicted \ Stored(e, s, failed)) \cup gone
        /\ sent' = [min |-> e.min, made |-> e.made, body |-> body, seen |-> s,
                    blocks |-> [i \in DOMAIN s |-> BlockOf(After(e, s, failed), s, i)]]
  BY Zenon DEF Rewrite, After
<1>2. /\ engines \in Seq(Engines) /\ n \in DOMAIN engines /\ e \in Engines
      /\ body \in Bodies /\ s \in Seq(Results)
  <2>1. engines \in Seq(Engines) /\ n \in 1 .. Len(engines) /\ body \in Bodies /\ s \in Seq(Results)
    BY <1>1 DEF BodyInv, TypeOK, JobsHold, Rewrite
  <2> QED BY <1>1, <2>1
<1>3. /\ IsPrefixBody(body, transcript) /\ IsBody(body) /\ s = SeenAs(provider, body)
      /\ JudgedBy(e.min, e.verdicts) /\ Truthful(e.stubs, Archived)
  BY <1>1, <1>2 DEF BodyInv, JobsHold, MemosHold, PartSeen, IsPrefixBody
<1> HIDE DEF n, e, s, body
<1>4. PICK after, blocks, more :
        /\ failed \in SUBSET Missing(e, s)
        /\ after = After(e, s, failed)
        /\ blocks = [i \in DOMAIN s |-> BlockOf(after, s, i)]
        /\ more = Archived \cup Stored(e, s, failed)
        /\ engines' = [engines EXCEPT ![n] = after]
        /\ sent' = [min |-> e.min, made |-> e.made, body |-> body, seen |-> s, blocks |-> blocks]
  BY <1>1, Zenon
<1>5. UNCHANGED <<provider, transcript, settings, changes>> /\ job' = [job EXCEPT ![r] = Idle]
  BY DEF Rewrite
<1>6. /\ after \in Engines /\ after.min = e.min /\ after.made = e.made
      /\ after.verdicts = VerdictsAfter(e, s) /\ after.stubs = StubsAfter(e, s, failed)
  BY <1>2, <1>3, <1>4, MemosTyped
<1>7. /\ DOMAIN s = 1 .. Len(s) /\ Len(s) \in Nat /\ DOMAIN s = DOMAIN body.answers /\ Len(s) = Len(body.answers)
      /\ \A i \in DOMAIN s : s[i].text = body.answers[i].text /\ s[i].text \in Texts
  BY <1>3, SeenParts
<1>8. Truthful(after.stubs, more) /\ \A i \in DOMAIN s : Stale(s, i) => KeyOf(s, i) \in DOMAIN after.stubs
  <2>1. /\ DOMAIN s = 1 .. Len(s) /\ Len(s) \in Nat /\ Truthful(e.stubs, Archived)
        /\ failed \in SUBSET Missing(e, s)
    BY <1>3, <1>4, <1>7
  <2>2. /\ Truthful(StubsAfter(e, s, failed), Archived \cup Stored(e, s, failed))
        /\ \A i \in DOMAIN s : Stale(s, i) => KeyOf(s, i) \in DOMAIN StubsAfter(e, s, failed)
    BY <2>1, StubsBuilt
  <2> QED BY <1>4, <1>6, <2>2
<1>9. JudgedBy(e.min, after.verdicts) /\ Judged(s) \subseteq DOMAIN after.verdicts
  BY <1>3, <1>6, VerdictsGiven
<1>10. ASSUME NEW i \in DOMAIN s
       PROVE  /\ blocks[i].form = FormOf(provider, e.min, s, i)
              /\ blocks[i].hash = NoHash \/ (blocks[i].hash = s[i].text /\ blocks[i].hash \in more)
              /\ blocks[i] \in Blocks
  <2>1. blocks[i] = BlockOf(after, s, i)
    BY <1>4
  <2>2. /\ blocks[i].form = FormOf(provider, e.min, s, i)
        /\ blocks[i].hash = NoHash \/ (Stale(s, i) /\ blocks[i].hash = after.stubs[KeyOf(s, i)])
    BY <1>9, <2>1, BlockIs
  <2>3. blocks[i].hash = NoHash \/ (blocks[i].hash = s[i].text /\ blocks[i].hash \in more)
    BY <1>8, <2>2, KeyParts DEF Truthful
  <2>4. blocks[i].form \in {"superseded", "duplicate", "compressed", "whole"}
    BY <2>2 DEF FormOf
  <2>5. blocks[i] = [form |-> blocks[i].form, hash |-> blocks[i].hash]
    BY <2>1 DEF BlockOf
  <2>6. blocks[i].hash \in Texts \cup {NoHash}
    BY <1>7, <2>3
  <2> QED BY <2>2, <2>3, <2>4, <2>5, <2>6 DEF Blocks
<1>11. blocks \in Seq(Blocks) /\ Len(blocks) = Len(s) /\ DOMAIN blocks = DOMAIN s
  <2>1. blocks = [i \in 1 .. Len(s) |-> blocks[i]]
    BY <1>4, <1>7
  <2>2. \A i \in 1 .. Len(s) : blocks[i] \in Blocks
    BY <1>7, <1>10
  <2>3. Len(s) \in Nat
    BY <1>7
  <2>4. blocks \in Seq(Blocks) /\ Len(blocks) = Len(s)
    BY <2>1, <2>2, <2>3
  <2>5. DOMAIN blocks = DOMAIN s
    BY <1>4
  <2> QED BY <2>4, <2>5
<1>12. IsBody(Empty) /\ Empty \in Bodies /\ SeenAs(provider, Empty) = << >> /\ IsPrefixBody(Empty, transcript)
  BY EmptyIsPrefix DEF IsBody, Bodies, Empty, SeenAs, BodyInv
<1>13. Archived' = more /\ Archived \subseteq more /\ archive' \subseteq Texts /\ evicted' \subseteq Texts
  <2>1. Stored(e, s, failed) \subseteq Texts
    BY <1>7 DEF Missing, Stored
  <2>2. archive \subseteq Texts /\ evicted \subseteq Texts
    BY DEF BodyInv, TypeOK
  <2> QED BY <1>1, <1>4, <2>1, <2>2 DEF Archived
<1>14. engines' \in Seq(Engines) /\ Len(engines') = Len(engines) /\ DOMAIN engines' = DOMAIN engines
  BY <1>2, <1>4, <1>6
<1>15. TypeOK'
  <2>1. Idle \in [engine : Nat, body : Bodies, seen : Seq(Results)]
    BY <1>12 DEF Idle
  <2>2. job' \in [Requests -> [engine : Nat, body : Bodies, seen : Seq(Results)]]
    BY <1>5, <2>1 DEF BodyInv, TypeOK
  <2>3. e.min \in Minimums \cup {0}
    BY <1>2 DEF Engines
  <2>5. e.made \in 0 .. MaxChange
    BY <1>2 DEF Engines
  <2>4. sent' \in [min : Minimums \cup {0}, made : 0 .. MaxChange, body : Bodies, seen : Seq(Results), blocks : Seq(Blocks)]
    BY <1>2, <1>4, <1>11, <2>3, <2>5
  <2> QED BY <1>4, <1>5, <1>13, <1>14, <2>2, <2>4 DEF BodyInv, TypeOK
<1>16. JobsHold'
  <2> SUFFICES ASSUME NEW q \in Requests
               PROVE  job'[q].engine \in 0 .. Len(engines') /\ PartSeen(job[q].body, job[q].seen)'
    BY DEF JobsHold
  <2>1. CASE q = r
    <3>1. job'[q] = Idle
      BY <1>5, <2>1 DEF BodyInv, TypeOK
    <3>2. Len(engines) \in Nat
      BY <1>2
    <3> QED BY <1>5, <1>12, <1>14, <3>1, <3>2 DEF PartSeen, Idle
  <2>2. CASE q # r
    <3>1. job'[q] = job[q]
      BY <1>5, <2>2 DEF BodyInv, TypeOK
    <3> QED BY <1>5, <1>14, <3>1 DEF PartSeen, BodyInv, JobsHold
  <2> QED BY <2>1, <2>2
<1>17. MemosHold'
  <2> SUFFICES ASSUME NEW m \in DOMAIN engines
               PROVE  JudgedBy(engines'[m].min, engines'[m].verdicts) /\ Truthful(engines'[m].stubs, Archived')
    BY <1>14 DEF MemosHold
  <2>1. CASE m = n
    <3>1. engines'[m] = after
      BY <1>2, <1>4, <2>1
    <3> QED BY <1>6, <1>8, <1>9, <1>13, <3>1
  <2>2. CASE m # n
    <3>1. engines'[m] = engines[m]
      BY <1>2, <1>4, <2>2
    <3>2. JudgedBy(engines[m].min, engines[m].verdicts) /\ Truthful(engines[m].stubs, Archived)
      BY DEF BodyInv, MemosHold
    <3> QED BY <1>13, <3>1, <3>2, KeptMore
  <2> QED BY <2>1, <2>2
<1>18. SentHolds'
  <2>1. sent'.min = e.min /\ sent'.body = body /\ sent'.seen = s /\ sent'.blocks = blocks
    BY <1>4
  <2>2. PartSeen(sent.body, sent.seen)'
    BY <1>3, <1>5, <2>1 DEF PartSeen
  <2>3. e.min # 0
    BY <1>2 DEF Engines
  <2>4. Left(provider', sent'.min, sent'.body, sent'.blocks)
    BY <1>3, <1>5, <1>7, <1>10, <1>11, <2>1, <2>3 DEF Left, Described
  <2>5. Kept(sent'.body, sent'.blocks, Archived')
    BY <1>13, <1>7, <1>10, <1>11, <2>1 DEF Kept
  <2> QED BY <2>2, <2>4, <2>5 DEF SentHolds
<1>19. IsBody(transcript)'
  BY <1>5 DEF BodyInv
<1>20. /\ \A m \in DOMAIN engines : engines'[m].made = engines[m].made /\ engines'[m].min = engines[m].min
       /\ engines'[n] = after /\ engines[n] = e
  BY <1>2, <1>4, <1>6 DEF e
<1>21. EnginesApart'
  <2>1. Len(engines) \in Nat /\ DOMAIN engines = 1 .. Len(engines) /\ (engines' # << >> => engines # << >>)
    BY <1>2, <1>14
  <2>2. engines # << >> => Len(engines) \in DOMAIN engines
    BY <2>1
  <2> QED BY <1>5, <1>14, <1>20, <2>1, <2>2 DEF BodyInv, EnginesApart, Current
<1>22. MakerHolds'
  <2>1. sent'.min = e.min /\ sent'.made = e.made /\ sent'.seen = s /\ sent'.blocks = blocks
    BY <1>4
  <2>2. \A m \in DOMAIN engines' : engines'[m].made = sent'.made => m = n
    <3>1. \A m \in DOMAIN engines : m \in Int /\ engines[m].made \in Int
      BY MadeTyped DEF BodyInv
    <3>2. \A m \in DOMAIN engines : (m < n => engines[m].made < e.made) /\ (n < m => e.made < engines[m].made)
      BY <1>2, <1>20 DEF BodyInv, EnginesApart
    <3> QED BY <1>2, <1>14, <1>20, <2>1, <3>1, <3>2
  <2>3. FromMemo(sent', after.stubs)
    <3> SUFFICES ASSUME NEW i \in DOMAIN s
                 PROVE  /\ Stale(s, i) => KeyOf(s, i) \in DOMAIN after.stubs /\ blocks[i].hash = after.stubs[KeyOf(s, i)]
                        /\ ~Stale(s, i) => blocks[i].hash = NoHash
      BY <1>11, <2>1 DEF FromMemo
    <3>1. blocks[i] = BlockOf(after, s, i)
      BY <1>4
    <3> QED BY <1>8, <3>1 DEF BlockOf
  <2>4. e.made <= changes' /\ n \in DOMAIN engines'
    BY <1>2, <1>5, <1>14, <1>20 DEF BodyInv, EnginesApart
  <2> QED BY <1>6, <1>20, <2>1, <2>2, <2>3, <2>4 DEF MakerHolds
<1> QED BY <1>15, <1>16, <1>17, <1>18, <1>19, <1>21, <1>22 DEF BodyInv

\* Every step keeps the invariant.
LEMMA BodyStays == BodyInv /\ [Next]_vars => BodyInv'
<1>1. CASE Next
  BY <1>1, GrowHolds, PassThroughHolds, BeginHolds, RewriteHolds, EditHolds, RestartHolds DEF Next
<1>2. CASE UNCHANGED vars
  BY <1>2 DEF vars, BodyInv, TypeOK, JobsHold, MemosHold, SentHolds, PartSeen, EnginesApart, MakerHolds, Archived, Current
<1> QED BY <1>1, <1>2

\* The invariant holds always.
LEMMA BodyHolds == Spec => []BodyInv
BY BodyAtStart, BodyStays, PTL DEF Spec

-----------------------------------------------------------------------------
(* The properties. *)

\* Every reachable state is well typed.
THEOREM TypeCorrect == Spec => []TypeOK
<1>1. BodyInv => TypeOK
  BY DEF BodyInv
<1> QED BY BodyHolds, <1>1, PTL

\* A stub that points at a later copy has one below it that is no stub, and one
\* that says superseded is about a file the agent came back to (compute_stale_reasons).
THEOREM StubsTellTheTruth == Spec => []StubsAreTrue
<1>1. BodyInv => StubsAreTrue
  <2> SUFFICES ASSUME BodyInv, NEW i \in DOMAIN sent.blocks
               PROVE  /\ sent.blocks[i].form = "duplicate" => HasCopyBelow(sent, i)
                      /\ sent.blocks[i].form = "superseded" /\ (provider = "Gemini" => AnsweredInOrder(sent.body)) =>
                           CameBackTo(sent.body, i)
    BY DEF StubsAreTrue
  <2>1. /\ IsBody(sent.body) /\ sent.seen = SeenAs(provider, sent.body)
        /\ Left(provider, sent.min, sent.body, sent.blocks)
    BY DEF BodyInv, SentHolds, PartSeen, IsPrefixBody
  <2>2. CASE sent.min = 0
    BY <2>1, <2>2 DEF Left
  <2>3. CASE sent.min # 0
    BY <2>1, <2>3, StubsSayTheTruth DEF Left
  <2> QED BY <2>2, <2>3
<1> QED BY BodyHolds, <1>1, PTL

\* A hash in a stub is that of the very text it replaced, which had been archived by
\* then: only the store's own eviction can have lost it (stale_stub).
THEOREM StubsBringBack == Spec => []StubsRetrievable
<1>1. BodyInv => StubsRetrievable
  BY DEF BodyInv, SentHolds, Kept, StubsRetrievable, Archived
<1> QED BY BodyHolds, <1>1, PTL

\* A block is compressed exactly when the settings its own request began with ask
\* for it, whatever was edited meanwhile (shared_engine).
THEOREM OwnSettingsJudge == Spec => []JudgedByOwnSettings
<1>1. BodyInv => JudgedByOwnSettings
  <2> SUFFICES ASSUME BodyInv, NEW i \in DOMAIN sent.blocks, sent.min # 0,
                      sent.blocks[i].form \in {"whole", "compressed"}, NEW e, e = Meant(sent.body)[i]
               PROVE  sent.blocks[i].form = "compressed" <=> (Candidate(e) /\ ~Verbatim(e) /\ Fires(sent.min, e.text))
    BY Zenon DEF JudgedByOwnSettings
  <2> DEFINE s == SeenAs(provider, sent.body)
  <2>1. IsBody(sent.body) /\ Described(provider, sent.min, sent.body, sent.blocks)
    BY DEF BodyInv, SentHolds, PartSeen, IsPrefixBody, Left
  <2>2. i \in DOMAIN sent.body.answers /\ sent.blocks[i].form = FormOf(provider, sent.min, s, i)
    BY <2>1 DEF Described
  <2>3. s[i].kind = e.kind /\ s[i].text = e.text
    BY <2>1, <2>2, SeenParts DEF Meant, Result
  <2>4. (Candidate(s[i]) <=> Candidate(e)) /\ (VerbatimAs(provider, s[i]) <=> Verbatim(e))
    BY <2>3 DEF Candidate, VerbatimAs, Verbatim
  <2>5. ~Superseded(s, i) /\ ~Duplicate(s, i)
    BY <2>2 DEF FormOf
  <2> HIDE DEF s
  <2>6. CASE Candidate(e) /\ ~Verbatim(e) /\ Fires(sent.min, e.text)
    BY <2>2, <2>3, <2>4, <2>5, <2>6 DEF FormOf
  <2>7. CASE ~(Candidate(e) /\ ~Verbatim(e) /\ Fires(sent.min, e.text))
    BY <2>2, <2>3, <2>4, <2>5, <2>7 DEF FormOf
  <2> QED BY <2>6, <2>7
<1> QED BY BodyHolds, <1>1, PTL

\* What leaves is a part of the conversation as it then stands.
LEMMA OnlyRewritesSend == Next /\ sent' # sent => UNCHANGED <<provider, transcript>>
<1>1. Grow \/ EditSettings \/ Restart => UNCHANGED sent
  BY DEF Grow, EditSettings, Restart
<1>2. \A r \in Requests : Begin(r) => UNCHANGED sent
  BY DEF Begin
<1>3. \A r \in Requests : PassThrough(r) \/ Rewrite(r) => UNCHANGED <<provider, transcript>>
  BY DEF PassThrough, Rewrite
<1> QED BY <1>1, <1>2, <1>3 DEF Next

\* What leaves by the same engine as before has the hashes the memo has kept.
LEMMA HashesStay ==
  ASSUME BodyInv, NEW r \in Requests, Rewrite(r), sent.min # 0, sent.made = sent'.made
  PROVE  \E stubs : FromMemo(sent, stubs) /\ FromMemo(sent', stubs)
<1> DEFINE n == job[r].engine
           e == engines[n]
           s == job[r].seen
<1>1. PICK failed \in SUBSET Missing(e, s) :
        /\ sent'.made = e.made /\ sent'.seen = s
        /\ sent'.blocks = [i \in DOMAIN s |-> BlockOf(After(e, s, failed), s, i)]
  <2>1. PICK failed \in SUBSET Missing(e, s) :
          sent' = [min |-> e.min, made |-> e.made, body |-> job[r].body, seen |-> s,
                   blocks |-> [i \in DOMAIN s |-> BlockOf(After(e, s, failed), s, i)]]
    BY Zenon DEF Rewrite, After
  <2> HIDE DEF e, s
  <2> QED BY <2>1
<1>2. n \in DOMAIN engines /\ e \in Engines
  <2>1. engines \in Seq(Engines) /\ n \in 1 .. Len(engines)
    BY DEF BodyInv, TypeOK, JobsHold, Rewrite
  <2> QED BY <2>1
<1>3. PICK body : IsBody(body) /\ s = SeenAs(provider, body) /\ Truthful(e.stubs, Archived)
  BY <1>2 DEF BodyInv, JobsHold, MemosHold, PartSeen, IsPrefixBody, Rewrite
<1>4. DOMAIN s = 1 .. Len(s) /\ Len(s) \in Nat
  BY <1>3, SeenParts
<1>5. FromMemo(sent, e.stubs)
  BY <1>1, <1>2 DEF BodyInv, MakerHolds
<1> HIDE DEF n, e, s
<1>6. PICK after : after = After(e, s, failed) /\ after.stubs = StubsAfter(e, s, failed)
  BY <1>2, <1>3, MemosTyped
<1> DEFINE stubs == StubsAfter(e, s, failed)
<1>7. \A k \in DOMAIN e.stubs : k \in DOMAIN stubs /\ stubs[k] = e.stubs[k]
  BY DEF StubsAfter
<1>8. \A i \in DOMAIN s : Stale(s, i) => KeyOf(s, i) \in DOMAIN stubs
  BY <1>3, <1>4, StubsBuilt
<1> HIDE DEF stubs
<1>9. FromMemo(sent, stubs)
  BY <1>5, <1>7 DEF FromMemo
<1>10. FromMemo(sent', stubs)
  <2> SUFFICES ASSUME NEW i \in DOMAIN s
               PROVE  /\ Stale(s, i) => KeyOf(s, i) \in DOMAIN stubs /\ sent'.blocks[i].hash = stubs[KeyOf(s, i)]
                      /\ ~Stale(s, i) => sent'.blocks[i].hash = NoHash
    BY <1>1 DEF FromMemo
  <2>1. sent'.blocks[i] = BlockOf(after, s, i) /\ after.stubs = stubs
    BY <1>1, <1>6 DEF stubs
  <2> QED BY <1>8, <2>1 DEF BlockOf
<1> QED BY <1>9, <1>10

\* What one and the same memo says of the same result in the same form.
LEMMA SameHash ==
  ASSUME NEW api, NEW min, NEW b, NEW t, SeenGrows(api, b, t), NEW i \in DOMAIN SeenAs(api, b),
         FormOf(api, min, SeenAs(api, b), i) = FormOf(api, min, SeenAs(api, t), i)
  PROVE  /\ Stale(SeenAs(api, b), i) <=> Stale(SeenAs(api, t), i)
         /\ KeyOf(SeenAs(api, b), i) = KeyOf(SeenAs(api, t), i)
<1> DEFINE s == SeenAs(api, b)
           l == SeenAs(api, t)
<1>1. s[i] = l[i]
  BY DEF SeenGrows
<1>2. (Superseded(s, i) <=> Superseded(l, i)) /\ (Duplicate(s, i) /\ ~Superseded(s, i) <=> Duplicate(l, i) /\ ~Superseded(l, i))
  BY DEF FormOf
<1> QED BY <1>1, <1>2 DEF Stale, KeyOf

\* Two bodies of one conversation, under the same settings.
Pair(api, was, now) ==
  /\ SeenGrows(api, was.body, now.body)
  /\ was.seen = SeenAs(api, was.body) /\ now.seen = SeenAs(api, now.body)
  /\ was.min = now.min
  /\ Left(api, was.min, was.body, was.blocks) /\ Left(api, now.min, now.body, now.blocks)

\* The forms of their blocks.
LEMMA PairForms ==
  ASSUME NEW api, NEW was, NEW now, Pair(api, was, now), was.min # 0
  PROVE  /\ DOMAIN was.blocks = DOMAIN was.seen /\ DOMAIN now.blocks = DOMAIN now.seen
         /\ DOMAIN was.blocks \subseteq DOMAIN now.blocks
         /\ DOMAIN now.blocks = 1 .. Len(now.blocks) /\ Len(now.blocks) = Len(now.seen) /\ Len(now.seen) \in Nat
         /\ \A i \in DOMAIN was.blocks : was.blocks[i].form = FormOf(api, was.min, was.seen, i)
         /\ \A i \in DOMAIN now.blocks : now.blocks[i].form = FormOf(api, was.min, now.seen, i)
<1>1. IsBody(was.body) /\ IsBody(now.body)
  BY DEF Pair, SeenGrows
<1>2. DOMAIN was.blocks = DOMAIN was.body.answers /\ DOMAIN now.blocks = DOMAIN now.body.answers /\ Len(now.blocks) = Len(now.body.answers)
  BY DEF Pair, Left
<1>3. /\ DOMAIN was.seen = DOMAIN was.body.answers /\ DOMAIN now.seen = DOMAIN now.body.answers
      /\ Len(now.seen) = Len(now.body.answers) /\ DOMAIN now.seen = 1 .. Len(now.seen) /\ Len(now.seen) \in Nat
  BY <1>1, SeenParts DEF Pair
<1>4. DOMAIN was.seen \subseteq DOMAIN now.seen
  BY DEF Pair, SeenGrows
<1>5. Described(api, was.min, was.body, was.blocks) /\ Described(api, was.min, now.body, now.blocks)
  BY DEF Pair, Left
<1> QED BY <1>2, <1>3, <1>4, <1>5 DEF Described, Pair

\* What the longer makes of the blocks of the shorter.
LEMMA LongerBody ==
  ASSUME NEW api, NEW was, NEW now, Pair(api, was, now), was.min # 0, NEW i \in DOMAIN was.blocks,
         was.blocks[i].form # now.blocks[i].form
  PROVE  MayBecome(was, now, i)
<1> DEFINE s == was.seen
           l == now.seen
           new == DOMAIN l \ DOMAIN s
<1>1. /\ DOMAIN was.blocks = DOMAIN s /\ DOMAIN now.blocks = DOMAIN l /\ i \in DOMAIN l
      /\ DOMAIN l = 1 .. Len(l) /\ Len(l) \in Nat /\ Len(now.blocks) = Len(l)
      /\ was.blocks[i].form = FormOf(api, was.min, s, i)
      /\ \A k \in DOMAIN l : now.blocks[k].form = FormOf(api, was.min, l, k)
  BY PairForms
<1>2. PICK before, after : before = was.blocks[i].form /\ after = now.blocks[i].form
  OBVIOUS
<1>3. \/ after = "superseded" /\ IsRead(l[i]) /\ \E k \in new : Outdates(l, k, i)
      \/ after = "duplicate" /\ before # "superseded" /\ \E k \in new : l[k].text = l[i].text
      \/ /\ after \notin {"superseded", "duplicate"} /\ before = "duplicate"
         /\ \A k \in i + 1 .. Len(l) : l[k].text = l[i].text => Superseded(l, k)
  <2>1. before = FormOf(api, was.min, s, i) /\ after = FormOf(api, was.min, l, i) /\ before # after
    BY <1>1, <1>2
  <2>2. s = SeenAs(api, was.body) /\ l = SeenAs(api, now.body) /\ SeenGrows(api, was.body, now.body)
    BY DEF Pair
  <2>3. i \in DOMAIN SeenAs(api, was.body)
    BY <1>1, <2>2
  <2> HIDE DEF s, l
  <2> QED BY <2>1, <2>2, <2>3, FormChanges DEF s, l
<1>4. i \in Nat
  BY <1>1
<1>5. CASE after = "superseded"
  BY <1>1, <1>2, <1>3, <1>5 DEF MayBecome
<1>6. CASE after = "duplicate"
  BY <1>1, <1>2, <1>3, <1>6 DEF MayBecome
<1>7. CASE after \notin {"superseded", "duplicate"}
  <2>1. \A k \in i + 1 .. Len(now.blocks) : l[k].text = l[i].text => now.blocks[k].form = "superseded"
    BY <1>1, <1>3, <1>4, <1>7 DEF FormOf
  <2> QED BY <1>2, <1>3, <1>7, <2>1 DEF MayBecome
<1> QED BY <1>5, <1>6, <1>7

\* What two bodies have in common, in whichever order they left.
LEMMA PairedBlocks ==
  ASSUME NEW api, NEW was, NEW now, Pair(api, was, now), was.min # 0,
         was.blocks \in Seq(Blocks), now.blocks \in Seq(Blocks),
         NEW kept, Kept(was.body, was.blocks, kept), Kept(now.body, now.blocks, kept),
         was.made = now.made => \E stubs : FromMemo(was, stubs) /\ FromMemo(now, stubs),
         NEW i \in DOMAIN was.blocks
  PROVE  (SameBlock(was, now, i) /\ SameBlock(now, was, i)) \/ MayBecome(was, now, i)
<1>1. CASE was.blocks[i].form # now.blocks[i].form
  BY <1>1, LongerBody
<1>2. CASE was.blocks[i].form = now.blocks[i].form
  <2>1. i \in DOMAIN now.blocks /\ was.blocks[i] \in Blocks /\ now.blocks[i] \in Blocks
    BY PairForms
  <2>2. CASE was.blocks[i].hash = now.blocks[i].hash
    <3>1. was.blocks[i] = now.blocks[i]
      BY <1>2, <2>1, <2>2 DEF Blocks
    <3> QED BY <3>1 DEF SameBlock
  <2>3. CASE was.blocks[i].hash # now.blocks[i].hash
    <3>1. NoHash \in {was.blocks[i].hash, now.blocks[i].hash}
      <4>1. was.body.answers[i].text = now.body.answers[i].text
        <5>1. DOMAIN was.blocks = DOMAIN was.seen /\ was.seen = SeenAs(api, was.body)
          BY PairForms DEF Pair
        <5>2. SeenGrows(api, was.body, now.body) /\ i \in DOMAIN SeenAs(api, was.body)
          BY <5>1 DEF Pair
        <5>3. /\ SeenAs(api, was.body)[i] = SeenAs(api, now.body)[i] /\ IsBody(was.body) /\ IsBody(now.body)
              /\ i \in DOMAIN SeenAs(api, was.body) /\ i \in DOMAIN SeenAs(api, now.body)
          BY <5>2 DEF SeenGrows
        <5> QED BY <5>3, SeenParts
      <4> QED BY <2>1, <2>3, <4>1 DEF Kept
    <3>2. was.made # now.made
      <4> SUFFICES ASSUME was.made = now.made PROVE FALSE
        OBVIOUS
      <4>1. PICK stubs : FromMemo(was, stubs) /\ FromMemo(now, stubs)
        OBVIOUS
      <4>2. (Stale(was.seen, i) <=> Stale(now.seen, i)) /\ KeyOf(was.seen, i) = KeyOf(now.seen, i)
        <5>1. /\ SeenGrows(api, was.body, now.body)
              /\ was.seen = SeenAs(api, was.body) /\ now.seen = SeenAs(api, now.body)
          BY DEF Pair
        <5>2. /\ i \in DOMAIN was.seen
              /\ FormOf(api, was.min, was.seen, i) = FormOf(api, was.min, now.seen, i)
          BY <1>2, <2>1, PairForms
        <5> QED BY <5>1, <5>2, SameHash
      <4> QED BY <2>1, <2>3, <4>1, <4>2 DEF FromMemo
    <3> QED BY <1>2, <3>1, <3>2 DEF SameBlock
  <2> QED BY <2>2, <2>3
<1> QED BY <1>1, <1>2

\* Between two bodies of one conversation under the same settings a block is the very
\* same or changes for what the longer one adds (compute_stale_reasons).
THEOREM PrefixSurvives == Spec => PrefixStable
<1> DEFINE Stable ==
             sent # sent' /\ sent.min = sent'.min =>
               \A i \in DOMAIN sent.blocks \cap DOMAIN sent'.blocks :
                 \/ SameBlock(sent, sent', i)
                 \/ IF Len(sent.blocks) < Len(sent'.blocks) THEN MayBecome(sent, sent', i)
                                                            ELSE MayBecome(sent', sent, i)
<1>1. BodyInv /\ BodyInv' /\ [Next]_vars => [Stable]_vars
  <2> SUFFICES ASSUME BodyInv, BodyInv', Next, sent # sent', sent.min = sent'.min,
                      NEW i \in DOMAIN sent.blocks \cap DOMAIN sent'.blocks
               PROVE  \/ SameBlock(sent, sent', i)
                      \/ IF Len(sent.blocks) < Len(sent'.blocks) THEN MayBecome(sent, sent', i)
                                                                 ELSE MayBecome(sent', sent, i)
    BY DEF vars
  <2>1. UNCHANGED <<provider, transcript>>
    BY OnlyRewritesSend
  <2>2. /\ IsPrefixBody(sent.body, transcript) /\ sent.seen = SeenAs(provider, sent.body)
        /\ Left(provider, sent.min, sent.body, sent.blocks) /\ Kept(sent.body, sent.blocks, Texts)
        /\ sent.blocks \in Seq(Blocks)
    BY DEF BodyInv, TypeOK, SentHolds, PartSeen, Kept, Archived
  <2>3. /\ IsPrefixBody(sent'.body, transcript) /\ sent'.seen = SeenAs(provider, sent'.body)
        /\ Left(provider, sent'.min, sent'.body, sent'.blocks) /\ Kept(sent'.body, sent'.blocks, Texts)
        /\ sent'.blocks \in Seq(Blocks)
    BY <2>1 DEF BodyInv, TypeOK, SentHolds, PartSeen, Kept, Archived
  <2>4. CASE sent.min = 0
    <3>1. sent.blocks[i] \in Blocks /\ sent'.blocks[i] \in Blocks
      BY <2>2, <2>3
    <3>2. sent.blocks[i] = sent'.blocks[i]
      BY <2>2, <2>3, <2>4, <3>1 DEF Left, Blocks
    <3> QED BY <3>2 DEF SameBlock
  <2>5. CASE sent.min # 0
    <3>1. PICK r \in Requests : Rewrite(r)
      <4>1. Grow \/ EditSettings \/ Restart => UNCHANGED sent
        BY DEF Grow, EditSettings, Restart
      <4>2. \A r \in Requests : Begin(r) => UNCHANGED sent
        BY DEF Begin
      <4>3. \A r \in Requests : PassThrough(r) => sent'.min = 0
        BY DEF PassThrough
      <4> QED BY <2>5, <4>1, <4>2, <4>3 DEF Next
    <3>2. sent.made = sent'.made => \E stubs : FromMemo(sent, stubs) /\ FromMemo(sent', stubs)
      BY <2>5, <3>1, HashesStay
    <3>3. PICK was, now : was = sent /\ now = sent'
      OBVIOUS
    <3>4. i \in DOMAIN was.blocks /\ i \in DOMAIN now.blocks
      BY <3>3
    <3>5. /\ DOMAIN was.blocks = 1 .. Len(was.blocks) /\ Len(was.blocks) \in Nat
          /\ DOMAIN now.blocks = 1 .. Len(now.blocks) /\ Len(now.blocks) \in Nat
      BY <2>2, <2>3, <3>3
    <3>6. ASSUME SeenGrows(provider, now.body, was.body)
          PROVE  SameBlock(was, now, i) \/ (~(Len(was.blocks) < Len(now.blocks)) /\ MayBecome(now, was, i))
      <4>1. Pair(provider, now, was)
        BY <2>2, <2>3, <3>3, <3>6 DEF Pair
      <4>2. (SameBlock(was, now, i) /\ SameBlock(now, was, i)) \/ MayBecome(now, was, i)
        BY <2>2, <2>3, <2>5, <3>2, <3>3, <3>4, <4>1, PairedBlocks
      <4>3. DOMAIN now.blocks \subseteq DOMAIN was.blocks
        BY <2>5, <3>3, <4>1, PairForms
      <4>4. ~(Len(was.blocks) < Len(now.blocks))
        <5>1. Len(now.blocks) = 0 \/ Len(now.blocks) \in DOMAIN now.blocks
          BY <3>5
        <5>2. Len(now.blocks) = 0 \/ Len(now.blocks) \in 1 .. Len(was.blocks)
          BY <3>5, <4>3, <5>1
        <5> QED BY <3>5, <5>2
      <4> QED BY <4>2, <4>4, Zenon
    <3>7. ASSUME SeenGrows(provider, was.body, now.body), ~SeenGrows(provider, now.body, was.body)
          PROVE  SameBlock(was, now, i) \/ (Len(was.blocks) < Len(now.blocks) /\ MayBecome(was, now, i))
      <4>1. Pair(provider, was, now)
        BY <2>2, <2>3, <3>3, <3>7 DEF Pair
      <4>2. (SameBlock(was, now, i) /\ SameBlock(now, was, i)) \/ MayBecome(was, now, i)
        BY <2>2, <2>3, <2>5, <3>2, <3>3, <3>4, <4>1, PairedBlocks
      <4>3. /\ DOMAIN was.blocks = DOMAIN was.seen /\ DOMAIN now.blocks = DOMAIN now.seen
            /\ DOMAIN was.blocks \subseteq DOMAIN now.blocks
            /\ was.seen = SeenAs(provider, was.body) /\ now.seen = SeenAs(provider, now.body)
        BY <2>5, <3>3, <4>1, PairForms DEF Pair
      <4>4. DOMAIN was.blocks # DOMAIN now.blocks
        BY <3>7, <4>3 DEF SeenGrows
      <4>5. Len(was.blocks) < Len(now.blocks)
        <5>1. Len(was.blocks) = 0 \/ Len(was.blocks) \in DOMAIN was.blocks
          BY <3>5
        <5>2. Len(was.blocks) = 0 \/ Len(was.blocks) \in 1 .. Len(now.blocks)
          BY <3>5, <4>3, <5>1
        <5>3. Len(was.blocks) # Len(now.blocks)
          BY <3>5, <4>4
        <5> QED BY <3>5, <5>2, <5>3
      <4> QED BY <4>2, <4>5, Zenon
    <3> QED BY <2>2, <2>3, <3>3, <3>6, <3>7, SeenCompare
  <2> QED BY <2>4, <2>5
<1>2. PrefixStable <=> [][Stable]_vars
  BY DEF PrefixStable
<1>3. BodyInv /\ [Next]_vars => BodyInv'
  BY BodyStays
<1> HIDE DEF Stable
<1> QED BY BodyAtStart, <1>1, <1>2, <1>3, PTL DEF Spec

=============================================================================
