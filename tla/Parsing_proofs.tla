---------------------------- MODULE Parsing_proofs ----------------------------
(***************************************************************************)
(* Proofs about the way from bytes to fields: the framers, the detection of *)
(* the family and handle_device's buffer for every stream of bytes, however *)
(* TCP cuts it; the UTC time of a GPS103 report for every instant; and the  *)
(* fields of every message of the three families and of every command, from *)
(* its sender to its receiver (Decoding).                                   *)
(***************************************************************************)
EXTENDS Framing, Decoding, SequenceTheorems, WellFoundedInduction, TLAPS

\* A set of numbers has a least one: the induction all of this rests on.
LEMMA LeastElement ==
    ASSUME NEW T \in SUBSET Nat, T # {}
    PROVE  \E x \in T : \A y \in T : x <= y
<1> DEFINE R == {ss \in Nat \X Nat : ss[1] < ss[2]}
<1>1. IsWellFoundedOn(R, Nat)
    BY NatLessThanWellFounded DEF OpToRel
<1>2. \A x, y \in Nat : y < x => <<y, x>> \in R
    OBVIOUS
<1> HIDE DEF R
<1>3. PICK x \in T : \A y \in T : ~(<<y, x>> \in R)
    BY <1>1, WFMin
<1>4. ASSUME NEW y \in T PROVE x <= y
    <2>1. ~(y < x)
        BY <1>2, <1>3, T \in SUBSET Nat
    <2> QED BY <2>1, T \in SUBSET Nat
<1> QED BY <1>4

\* ... and a set of byte strings a shortest one.
LEMMA ShortestElement ==
    ASSUME NEW T \in SUBSET ByteStrings, T # {}
    PROVE  \E b \in T : \A c \in T : Len(b) <= Len(c)
<1> DEFINE Lengths == {Len(b) : b \in T}
<1>1. Lengths \in SUBSET Nat
    BY DEF ByteStrings
<1>2. Lengths # {}
    OBVIOUS
<1>3. \A b \in T : Len(b) \in Lengths
    OBVIOUS
<1>4. \A x \in Lengths : \E b \in T : x = Len(b)
    OBVIOUS
<1> HIDE DEF Lengths
<1>5. PICK x \in Lengths : \A y \in Lengths : x <= y
    BY <1>1, <1>2, LeastElement
<1> QED BY <1>3, <1>4, <1>5

\* A slice within the bounds of a sequence.
LEMMA SubSeqTyped ==
    ASSUME NEW S, NEW s \in Seq(S), NEW m \in 1..(Len(s) + 1), NEW n \in 0..Len(s)
    PROVE  SubSeq(s, m, n) \in Seq(S)
OBVIOUS

\* What is left after the first n bytes.
LEMMA DropShortens ==
    ASSUME NEW b \in ByteStrings, NEW n \in 1..Len(b)
    PROVE  /\ Drop(b, n) \in ByteStrings
           /\ Len(Drop(b, n)) = Len(b) - n
           /\ \A i \in 1..(Len(b) - n) : Drop(b, n)[i] = b[n + i]
<1>1. n + 1 \in 1..(Len(b) + 1) /\ Len(b) \in 0..Len(b)
    BY DEF ByteStrings
<1>2. Drop(b, n) \in ByteStrings
    BY <1>1, SubSeqTyped DEF Drop, ByteStrings
<1>3. Len(Drop(b, n)) = Len(b) - n
    BY DEF Drop, ByteStrings
<1>4. \A i \in 1..(Len(b) - n) : Drop(b, n)[i] = b[n + i]
    BY DEF Drop, ByteStrings
<1> QED BY <1>2, <1>3, <1>4

\* Bytes that follow do not change the first n.
LEMMA PrefixOfConcat ==
    ASSUME NEW b \in ByteStrings, NEW c \in ByteStrings, NEW n \in 0..Len(b)
    PROVE  SubSeq(b \o c, 1, n) = SubSeq(b, 1, n)
BY DEF ByteStrings

\* Byte strings put together.
LEMMA ConcatTyped ==
    ASSUME NEW b \in ByteStrings, NEW c \in ByteStrings
    PROVE  /\ b \o c \in ByteStrings
           /\ Len(b) \in Nat /\ Len(c) \in Nat /\ Len(b \o c) = Len(b) + Len(c)
BY DEF ByteStrings

\* The bytes of two strings put together.
LEMMA ConcatIndex ==
    ASSUME NEW b \in ByteStrings, NEW c \in ByteStrings, NEW i \in 1..(Len(b) + Len(c))
    PROVE  (b \o c)[i] = IF i <= Len(b) THEN b[i] ELSE c[i - Len(b)]
BY DEF ByteStrings

\* Bytes that follow stay behind when the first n are taken.
LEMMA DropOfConcat ==
    ASSUME NEW b \in ByteStrings, NEW c \in ByteStrings, NEW n \in 1..Len(b)
    PROVE  Drop(b \o c, n) = Drop(b, n) \o c
<1> DEFINE l == Drop(b \o c, n)
           r == Drop(b, n) \o c
<1>1. b \o c \in ByteStrings /\ Len(b \o c) = Len(b) + Len(c) /\ Len(b) \in Nat /\ Len(c) \in Nat
    BY ConcatTyped
<1>2. n \in Nat /\ n \in 1..Len(b \o c)
    BY <1>1
<1>3. /\ l \in ByteStrings /\ Len(l) = Len(b) + Len(c) - n
      /\ \A i \in 1..(Len(b) + Len(c) - n) : l[i] = (b \o c)[n + i]
    <2> DEFINE d == b \o c
    <2>1. d \in ByteStrings /\ n \in 1..Len(d) /\ Len(d) = Len(b) + Len(c)
        BY <1>1, <1>2
    <2> HIDE DEF d
    <2>2. /\ Drop(d, n) \in ByteStrings /\ Len(Drop(d, n)) = Len(d) - n
          /\ \A i \in 1..(Len(d) - n) : Drop(d, n)[i] = d[n + i]
        BY <2>1, DropShortens
    <2> QED BY <2>1, <2>2 DEF d
<1>4. Drop(b, n) \in ByteStrings /\ Len(Drop(b, n)) = Len(b) - n
    BY DropShortens
<1>5. r \in ByteStrings /\ Len(r) = Len(b) - n + Len(c)
    BY <1>4, ConcatTyped
<1>6. ASSUME NEW i \in 1..(Len(b) + Len(c) - n) PROVE l[i] = r[i]
    <2>1. n + i \in 1..(Len(b) + Len(c)) /\ i \in Nat
        BY <1>1, <1>2
    <2>2. l[i] = (b \o c)[n + i]
        BY <1>3
    <2>3. l[i] = IF n + i <= Len(b) THEN b[n + i] ELSE c[n + i - Len(b)]
        BY <2>1, <2>2, ConcatIndex
    <2>4. i \in 1..(Len(Drop(b, n)) + Len(c))
        BY <1>1, <1>2, <1>4
    <2>5. r[i] = IF i <= Len(b) - n THEN Drop(b, n)[i] ELSE c[i - (Len(b) - n)]
        BY <1>4, <2>4, ConcatIndex
    <2>6. i <= Len(b) - n => Drop(b, n)[i] = b[n + i]
        BY <1>1, <1>2, DropShortens
    <2>7. i - (Len(b) - n) = n + i - Len(b) /\ (i <= Len(b) - n <=> n + i <= Len(b))
        BY <1>1, <1>2
    <2> HIDE DEF l, r
    <2> QED BY <2>3, <2>5, <2>6, <2>7
<1> HIDE DEF l, r
<1>7. Len(l) = Len(r) /\ \A i \in 1..Len(l) : l[i] = r[i]
    BY <1>1, <1>2, <1>3, <1>5, <1>6
<1>8. l = r
    BY <1>3, <1>5, <1>7, SeqEqual DEF ByteStrings
<1> QED BY <1>8 DEF l, r

-----------------------------------------------------------------------------
(***************************************************************************)
(* The loop of a framer.  Its equation has one solution, found length by    *)
(* length: a turn that takes bytes goes on with a shorter string.           *)
(***************************************************************************)

\* A turn takes at least one byte, if it takes any, and returns whole frames.
Turns == [act : {"wait", "fail", "take"}, n : Nat, frames : Seq(ByteStrings)]
\* What a framer returns.
Results ==
    {r \in [frames : Seq(ByteStrings), rest : ByteStrings, error : BOOLEAN] :
        r.error => r = FramingError}

\* The turns of a loop that ends.
IsFramer(turn) ==
    /\ turn \in [ByteStrings -> Turns]
    /\ \A b \in ByteStrings : turn[b].act = "take" => turn[b].n \in 1..Len(b)

\* f is what the loop returns on the strings of at most n bytes.
Solves(turn, f, n) ==
    \A b \in ByteStrings : Len(b) <= n => f[b] = Loop(turn[b], b, f)

\* The result of a longer loop.
LEMMA BeforeTyped ==
    ASSUME NEW fs \in Seq(ByteStrings), NEW r \in Results
    PROVE  Before(fs, r) \in Results
BY EmptySeq DEF Before, Results, FramingError, Extracted, ByteStrings

\* A turn that takes bytes leaves fewer.
LEMMA RestIsShorter ==
    ASSUME NEW turn, IsFramer(turn), NEW b \in ByteStrings, turn[b].act = "take"
    PROVE  /\ Drop(b, turn[b].n) \in ByteStrings
           /\ Len(b) \in Nat /\ Len(Drop(b, turn[b].n)) \in Nat
           /\ Len(Drop(b, turn[b].n)) < Len(b)
<1>1. turn[b].n \in 1..Len(b)
    BY DEF IsFramer
<1>2. Len(b) \in Nat
    BY DEF ByteStrings
<1> QED BY <1>1, <1>2, DropShortens

\* The result of one turn and the rest of the loop.
LEMMA LoopTyped ==
    ASSUME NEW turn, IsFramer(turn), NEW f \in [ByteStrings -> Results], NEW b \in ByteStrings
    PROVE  Loop(turn[b], b, f) \in Results
<1>1. turn[b] \in Turns
    BY DEF IsFramer
<1>2. CASE turn[b].act = "wait"
    BY <1>2, EmptySeq DEF Loop, Results, Extracted
<1>3. CASE turn[b].act = "fail"
    BY <1>3, EmptySeq DEF Loop, Results, FramingError, ByteStrings
<1>4. CASE turn[b].act = "take"
    <2>1. f[Drop(b, turn[b].n)] \in Results
        BY <1>4, RestIsShorter
    <2>2. turn[b].frames \in Seq(ByteStrings)
        BY <1>1 DEF Turns
    <2> QED BY <1>4, <2>1, <2>2, BeforeTyped DEF Loop
<1> QED BY <1>1, <1>2, <1>3, <1>4 DEF Turns

\* A turn asks for the result on the shorter rest only.
LEMMA LoopAgrees ==
    ASSUME NEW turn, IsFramer(turn), NEW f, NEW g, NEW b \in ByteStrings,
           turn[b].act = "take" => f[Drop(b, turn[b].n)] = g[Drop(b, turn[b].n)]
    PROVE  Loop(turn[b], b, f) = Loop(turn[b], b, g)
<1>1. turn[b] \in Turns
    BY DEF IsFramer
<1>2. CASE turn[b].act = "wait"
    BY <1>2 DEF Loop
<1>3. CASE turn[b].act = "fail"
    BY <1>3 DEF Loop
<1>4. CASE turn[b].act = "take"
    BY <1>4 DEF Loop
<1> QED BY <1>1, <1>2, <1>3, <1>4 DEF Turns

\* Two results of the loop agree on the strings both are right for.
LEMMA SolutionsAgree ==
    ASSUME NEW turn, IsFramer(turn), NEW m \in Nat, NEW n \in Nat, NEW f, NEW g,
           Solves(turn, f, m), Solves(turn, g, n)
    PROVE  \A b \in ByteStrings : Len(b) <= m /\ Len(b) <= n => f[b] = g[b]
<1> DEFINE T == {b \in ByteStrings : Len(b) <= m /\ Len(b) <= n /\ f[b] # g[b]}
<1>1. SUFFICES ASSUME T # {} PROVE FALSE
    OBVIOUS
<1>2. PICK b \in T : \A c \in T : Len(b) <= Len(c)
    BY <1>1, ShortestElement
<1>3. b \in ByteStrings /\ Len(b) \in Nat /\ Len(b) <= m /\ Len(b) <= n /\ f[b] # g[b]
    BY DEF ByteStrings
<1>4. ASSUME turn[b].act = "take"
      PROVE  f[Drop(b, turn[b].n)] = g[Drop(b, turn[b].n)]
    <2> DEFINE d == Drop(b, turn[b].n)
    <2>1. d \in ByteStrings /\ Len(d) \in Nat /\ Len(d) < Len(b)
        BY <1>3, <1>4, RestIsShorter
    <2> HIDE DEF d
    <2>2. d \notin T /\ Len(d) <= m /\ Len(d) <= n
        BY <1>2, <1>3, <2>1
    <2>3. f[d] = g[d]
        BY <2>1, <2>2
    <2> QED BY <2>3 DEF d
<1>5. Loop(turn[b], b, f) = Loop(turn[b], b, g)
    BY <1>3, <1>4, LoopAgrees
<1>6. f[b] = Loop(turn[b], b, f) /\ g[b] = Loop(turn[b], b, g)
    BY <1>3 DEF Solves
<1> QED BY <1>3, <1>5, <1>6

\* For every length there is a function that is right up to it.
LEMMA SolutionExists ==
    ASSUME NEW turn, IsFramer(turn), NEW n \in Nat
    PROVE  \E f \in [ByteStrings -> Results] : Solves(turn, f, n)
<1> DEFINE Good(k) == \E f \in [ByteStrings -> Results] : Solves(turn, f, k)
           T == {k \in Nat : ~Good(k)}
<1>1. SUFFICES ASSUME T # {} PROVE FALSE
    OBVIOUS
<1>2. PICK k \in T : \A j \in T : k <= j
    BY <1>1, LeastElement
<1>3. k \in Nat /\ ~Good(k)
    OBVIOUS
<1>4. \E g \in [ByteStrings -> Results] : k > 0 => Solves(turn, g, k - 1)
    <2>1. CASE k = 0
        <3>1. FramingError \in Results
            BY EmptySeq DEF FramingError, Results, ByteStrings
        <3>2. [b \in ByteStrings |-> FramingError] \in [ByteStrings -> Results]
            BY <3>1
        <3>3. ~(k > 0)
            BY <2>1
        <3> QED BY <3>2, <3>3
    <2>2. CASE k > 0
        <3>1. k - 1 \in Nat /\ k - 1 \notin T
            BY <1>2, <1>3, <2>2
        <3>2. Good(k - 1)
            BY <3>1
        <3> QED BY <3>2
    <2> QED BY <1>3, <2>1, <2>2
<1>5. PICK g \in [ByteStrings -> Results] : k > 0 => Solves(turn, g, k - 1)
    BY <1>4
<1> DEFINE h == [b \in ByteStrings |-> Loop(turn[b], b, g)]
<1>6. h \in [ByteStrings -> Results]
    BY LoopTyped
<1>7. ASSUME NEW b \in ByteStrings, Len(b) <= k
      PROVE  h[b] = Loop(turn[b], b, h)
    <2>1. ASSUME turn[b].act = "take"
          PROVE  g[Drop(b, turn[b].n)] = h[Drop(b, turn[b].n)]
        <3> DEFINE d == Drop(b, turn[b].n)
        <3>1. d \in ByteStrings /\ Len(b) \in Nat /\ Len(d) \in Nat /\ Len(d) < Len(b)
            BY <2>1, RestIsShorter
        <3> HIDE DEF d
        <3>2. k > 0 /\ Len(d) <= k - 1
            BY <1>3, <1>7, <3>1
        <3>3. g[d] = Loop(turn[d], d, g)
            BY <1>5, <3>1, <3>2 DEF Solves
        <3>4. g[d] = h[d]
            BY <3>1, <3>3
        <3> QED BY <3>4 DEF d
    <2>2. h[b] = Loop(turn[b], b, g)
        OBVIOUS
    <2> HIDE DEF h
    <2>3. Loop(turn[b], b, g) = Loop(turn[b], b, h)
        BY <2>1, LoopAgrees
    <2> QED BY <2>2, <2>3
<1>8. Solves(turn, h, k)
    BY <1>7 DEF Solves
<1> QED BY <1>3, <1>6, <1>8

\* f satisfies the equation of the loop.
Unfolds(turn, f) == f = [b \in ByteStrings |-> Loop(turn[b], b, f)]

\* The recursion equation, at one byte string.
LEMMA UnfoldsAt ==
    ASSUME NEW turn, NEW f, Unfolds(turn, f)
    PROVE  \A b \in ByteStrings : f[b] = Loop(turn[b], b, f)
BY DEF Unfolds

\* The loop ends on every byte string: some function satisfies its equation.
LEMMA FramerExists ==
    ASSUME NEW turn, IsFramer(turn)
    PROVE  \E f \in [ByteStrings -> Results] : Unfolds(turn, f)
<1> DEFINE Upto(k) == CHOOSE f : f \in [ByteStrings -> Results] /\ Solves(turn, f, k)
           F == [b \in ByteStrings |-> Upto(Len(b))[b]]
<1>1. ASSUME NEW k \in Nat
      PROVE  Upto(k) \in [ByteStrings -> Results] /\ Solves(turn, Upto(k), k)
    BY SolutionExists
<1>2. \A b \in ByteStrings : F[b] = Upto(Len(b))[b] /\ Len(b) \in Nat
    BY DEF ByteStrings
<1>3. F \in [ByteStrings -> Results]
    <2> HIDE DEF Upto
    <2>1. \A b \in ByteStrings : Upto(Len(b))[b] \in Results
        BY <1>1, <1>2
    <2> QED BY <2>1
<1> HIDE DEF Upto, F
<1>4. ASSUME NEW b \in ByteStrings PROVE F[b] = Loop(turn[b], b, F)
    <2>1. F[b] = Upto(Len(b))[b] /\ Len(b) \in Nat
        BY <1>2
    <2>2. Upto(Len(b))[b] = Loop(turn[b], b, Upto(Len(b)))
        BY <1>1, <2>1 DEF Solves
    <2>3. ASSUME turn[b].act = "take"
          PROVE  Upto(Len(b))[Drop(b, turn[b].n)] = F[Drop(b, turn[b].n)]
        <3> DEFINE d == Drop(b, turn[b].n)
        <3>1. d \in ByteStrings /\ Len(d) \in Nat /\ Len(d) < Len(b)
            BY <2>3, RestIsShorter
        <3> HIDE DEF d
        <3>2. Solves(turn, Upto(Len(b)), Len(b)) /\ Solves(turn, Upto(Len(d)), Len(d))
            BY <1>1, <2>1, <3>1
        <3>3. Len(d) <= Len(b) /\ Len(d) <= Len(d)
            BY <2>1, <3>1
        <3>4. Upto(Len(b))[d] = Upto(Len(d))[d]
            BY <2>1, <3>1, <3>2, <3>3, SolutionsAgree
        <3>5. Upto(Len(d))[d] = F[d]
            BY <1>2, <3>1
        <3> QED BY <3>4, <3>5 DEF d
    <2>4. Loop(turn[b], b, Upto(Len(b))) = Loop(turn[b], b, F)
        BY <2>3, LoopAgrees
    <2> QED BY <2>1, <2>2, <2>4
<1>5. F = [b \in ByteStrings |-> Loop(turn[b], b, F)]
    BY <1>3, <1>4
<1> QED BY <1>3, <1>5 DEF Unfolds

\* ... and only one does, so the framer has the type of that one.
LEMMA FramerTyped ==
    ASSUME NEW turn, IsFramer(turn), NEW f, Unfolds(turn, f)
    PROVE  f \in [ByteStrings -> Results]
<1>1. PICK F \in [ByteStrings -> Results] : Unfolds(turn, F)
    BY FramerExists
<1>2. ASSUME NEW b \in ByteStrings PROVE f[b] \in Results
    <2>1. Len(b) \in Nat /\ Len(b) <= Len(b)
        BY DEF ByteStrings
    <2>2. Solves(turn, F, Len(b)) /\ Solves(turn, f, Len(b))
        BY <1>1, UnfoldsAt DEF Solves
    <2>3. f[b] = F[b]
        BY <2>1, <2>2, SolutionsAgree
    <2> QED BY <1>1, <2>3
<1> QED BY <1>2 DEF Unfolds

\* A turn that takes a frame takes the same when more bytes follow.
Stable(turn) ==
    \A b, c \in ByteStrings : turn[b].act = "take" => turn[b \o c] = turn[b]

\* No frames before a result leave it as it is.
LEMMA BeforeNothing ==
    ASSUME NEW r \in Results
    PROVE  Before(<<>>, r) = r
<1>1. CASE r.error
    BY <1>1 DEF Before, Results
<1>2. CASE ~r.error
    <2>1. <<>> \o r.frames = r.frames
        BY DEF Results
    <2>2. r = [frames |-> r.frames, rest |-> r.rest, error |-> r.error] /\ r.error = FALSE
        BY <1>2 DEF Results
    <2> QED BY <1>2, <2>1, <2>2 DEF Before, Extracted
<1> QED BY <1>1, <1>2

\* Frames may be put before a result in two parts.
LEMMA BeforeTwice ==
    ASSUME NEW fs \in Seq(ByteStrings), NEW gs \in Seq(ByteStrings), NEW r \in Results
    PROVE  Before(fs, Before(gs, r)) = Before(fs \o gs, r)
<1>1. CASE r.error
    BY <1>1 DEF Before, FramingError
<1>2. CASE ~r.error
    <2> DEFINE hs == r.frames
    <2>1. hs \in Seq(ByteStrings)
        BY DEF Results
    <2>2. /\ Before(gs, r) = Extracted(gs \o hs, r.rest)
          /\ Before(fs \o gs, r) = Extracted((fs \o gs) \o hs, r.rest)
        BY <1>2 DEF Before
    <2> HIDE DEF hs
    <2>3. fs \o (gs \o hs) = (fs \o gs) \o hs
        BY <2>1, ConcatAssociative
    <2>4. Before(fs, Extracted(gs \o hs, r.rest)) = Extracted(fs \o (gs \o hs), r.rest)
        BY DEF Before, Extracted
    <2> QED BY <2>2, <2>3, <2>4
<1> QED BY <1>1, <1>2

(***************************************************************************)
(* The frames of b, and then those of its rest with c after it, are the     *)
(* frames of b with c after it; and at its rest the framer waits.           *)
(***************************************************************************)
LEMMA Resume ==
    ASSUME NEW turn, IsFramer(turn), Stable(turn), NEW f, Unfolds(turn, f),
           NEW b \in ByteStrings, NEW c \in ByteStrings, ~f[b].error
    PROVE  /\ turn[f[b].rest].act = "wait"
           /\ f[b \o c] = Before(f[b].frames, f[f[b].rest \o c])
<1> DEFINE Good(a) == ~f[a].error => /\ turn[f[a].rest].act = "wait"
                                     /\ f[a \o c] = Before(f[a].frames, f[f[a].rest \o c])
           T == {a \in ByteStrings : ~Good(a)}
<1>0. f \in [ByteStrings -> Results]
    BY FramerTyped
<1>1. SUFFICES ASSUME T # {} PROVE FALSE
    OBVIOUS
<1>2. PICK a \in T : \A d \in T : Len(a) <= Len(d)
    BY <1>1, ShortestElement
<1>3. a \in ByteStrings /\ ~Good(a) /\ ~f[a].error
    OBVIOUS
<1>4. turn[a] \in Turns /\ f[a] = Loop(turn[a], a, f) /\ a \o c \in ByteStrings
    BY <1>3, UnfoldsAt, ConcatTyped DEF IsFramer
<1>5. CASE turn[a].act = "wait"
    <2>1. f[a] = Extracted(<<>>, a)
        BY <1>4, <1>5 DEF Loop
    <2>2. f[a].frames = <<>> /\ f[a].rest = a
        BY <2>1 DEF Extracted
    <2>3. Before(<<>>, f[a \o c]) = f[a \o c]
        BY <1>0, <1>4, BeforeNothing
    <2> QED BY <1>3, <1>5, <2>2, <2>3
<1>6. CASE turn[a].act = "fail"
    BY <1>3, <1>4, <1>6 DEF Loop, FramingError
<1>7. CASE turn[a].act = "take"
    <2> DEFINE n == turn[a].n
               fs == turn[a].frames
               d == Drop(a, n)
    <2>1. d \in ByteStrings /\ Len(d) < Len(a) /\ Len(d) \in Nat /\ Len(a) \in Nat
        BY <1>3, <1>7, RestIsShorter
    <2>2. n \in 1..Len(a) /\ fs \in Seq(ByteStrings)
        BY <1>3, <1>4, <1>7 DEF IsFramer, Turns
    <2>3. f[a] = Before(fs, f[d])
        BY <1>4, <1>7 DEF Loop
    <2>4. f[a \o c] = Before(fs, f[d \o c])
        <3>1. turn[a \o c] = turn[a]
            BY <1>3, <1>7 DEF Stable
        <3>2. f[a \o c] = Loop(turn[a \o c], a \o c, f)
            BY <1>4, UnfoldsAt
        <3>3. Drop(a \o c, n) = d \o c
            BY <1>3, <2>2, DropOfConcat
        <3> QED BY <1>7, <3>1, <3>2, <3>3 DEF Loop
    <2> HIDE DEF d, n, fs
    <2>5. f[d] \in Results /\ ~f[d].error
        BY <1>0, <1>3, <2>1, <2>3 DEF Before, FramingError
    <2>6. f[a].frames = fs \o f[d].frames /\ f[a].rest = f[d].rest
        BY <2>3, <2>5 DEF Before, Extracted
    <2>7. d \notin T
        BY <1>2, <1>3, <2>1
    <2>8. turn[f[d].rest].act = "wait" /\ f[d \o c] = Before(f[d].frames, f[f[d].rest \o c])
        BY <2>1, <2>5, <2>7
    <2>9. f[d].frames \in Seq(ByteStrings) /\ f[d].rest \o c \in ByteStrings
        BY <2>5, ConcatTyped DEF Results
    <2>10. f[f[d].rest \o c] \in Results
        BY <1>0, <2>9
    <2>11. f[a \o c] = Before(fs \o f[d].frames, f[f[d].rest \o c])
        BY <2>2, <2>4, <2>8, <2>9, <2>10, BeforeTwice
    <2> QED BY <1>3, <2>6, <2>8, <2>11
<1> QED BY <1>4, <1>5, <1>6, <1>7 DEF Turns

-----------------------------------------------------------------------------
(***************************************************************************)
(* The three framers are such loops.                                        *)
(***************************************************************************)

\* A bounded set of numbers has a greatest one.
LEMMA GreatestElement ==
    ASSUME NEW n \in Nat, NEW T \in SUBSET (0..n), T # {}
    PROVE  \E x \in T : \A y \in T : x >= y
<1> DEFINE U == {k \in 0..n : n - k \in T}
<1>1. U \in SUBSET Nat /\ \A y \in T : n - y \in U
    OBVIOUS
<1>2. U # {}
    BY <1>1
<1>3. \A k \in U : n - k \in T /\ k \in 0..n
    OBVIOUS
<1> HIDE DEF U
<1>4. PICK k \in U : \A j \in U : k <= j
    BY <1>1, <1>2, LeastElement
<1>5. ASSUME NEW y \in T PROVE n - k >= y
    <2>1. k <= n - y
        BY <1>1, <1>4
    <2>2. k \in Int /\ y \in Int
        BY <1>3
    <2> QED BY <2>1, <2>2
<1> QED BY <1>3, <1>5

\* Min and Max of a set of positions.
LEMMA MinMax ==
    ASSUME NEW n \in Nat, NEW T \in SUBSET (1..n), T # {}
    PROVE  /\ Min(T) \in T /\ \A y \in T : Min(T) <= y
           /\ Max(T) \in T /\ \A y \in T : Max(T) >= y
<1>1. T \in SUBSET Nat /\ T \in SUBSET (0..n)
    OBVIOUS
<1>2. (\E x \in T : \A y \in T : x <= y) /\ (\E x \in T : \A y \in T : x >= y)
    BY <1>1, LeastElement, GreatestElement
<1> QED BY <1>2 DEF Min, Max

\* A byte of a byte string.
LEMMA ByteAt ==
    ASSUME NEW b \in ByteStrings, NEW i \in 1..Len(b)
    PROVE  b[i] \in 0..255
BY ElementOfSeq DEF ByteStrings

\* The turns the framers return.
LEMMA TakeTyped ==
    ASSUME NEW n \in Nat
    PROVE  /\ Take(n, <<>>) \in Turns
           /\ \A raw \in ByteStrings : Take(n, <<raw>>) \in Turns
           /\ Wait \in Turns /\ Fail \in Turns
<1>1. <<>> \in Seq(ByteStrings) /\ \A raw \in ByteStrings : <<raw>> \in Seq(ByteStrings)
    OBVIOUS
<1> QED BY <1>1 DEF Take, Turns, Wait, Fail

\* The turns of the three framers, as functions.
Gt06Turns == [b \in ByteStrings |-> Gt06Turn(b)]
Gps103Turns == [b \in ByteStrings |-> Gps103Turn(b)]
TeltonikaTurns == [b \in ByteStrings |-> TeltonikaTurn(b)]

\* What makes a function of turns a framer.
LEMMA IsFramerIf ==
    ASSUME NEW turn, turn = [b \in ByteStrings |-> turn[b]],
           \A b \in ByteStrings : /\ turn[b] \in Turns
                                  /\ turn[b].act = "take" => turn[b].n \in 1..Len(b)
    PROVE  IsFramer(turn)
BY DEF IsFramer

\* The length of a GT06 frame is at least five.
LEMMA Gt06TotalTyped ==
    ASSUME NEW b \in ByteStrings, Len(b) >= 5
    PROVE  Gt06Total(b) \in Nat /\ Gt06Total(b) >= 5
<1>1. Len(b) \in Nat
    BY DEF ByteStrings
<1>2. 3 \in 1..Len(b) /\ 4 \in 1..Len(b)
    BY <1>1
<1>3. b[3] \in 0..255 /\ b[4] \in 0..255
    BY <1>2, ByteAt
<1>4. \A x, y \in 0..255 : /\ x + 5 \in Nat /\ x + 5 >= 5
                           /\ 256 * x + y + 6 \in Nat /\ 256 * x + y + 6 >= 5
    OBVIOUS
<1> QED BY <1>3, <1>4, ZenonT(60) DEF Gt06Total

\* The first n bytes.
LEMMA FrameTyped ==
    ASSUME NEW b \in ByteStrings, NEW n \in 0..Len(b)
    PROVE  SubSeq(b, 1, n) \in ByteStrings
<1>1. 1 \in 1..(Len(b) + 1)
    BY DEF ByteStrings
<1> QED BY <1>1, SubSeqTyped DEF ByteStrings

\* packet_buffer.extract_packets: each turn is legal,
LEMMA Gt06IsFramer == IsFramer(Gt06Turns)
<1>1. ASSUME NEW b \in ByteStrings
      PROVE  Gt06Turn(b) \in Turns /\ (Gt06Turn(b).act = "take" => Gt06Turn(b).n \in 1..Len(b))
    <2>1. Len(b) \in Nat
        BY DEF ByteStrings
    <2>2. CASE Gt06Turn(b) = Wait
        BY <2>2, TakeTyped DEF Wait
    <2>3. CASE Len(b) >= 5 /\ Gt06Turn(b) = Take(1, <<>>)
        BY <2>1, <2>3, TakeTyped DEF Take
    <2>4. CASE /\ Len(b) >= 5 /\ Len(b) >= Gt06Total(b)
               /\ Gt06Turn(b) = Take(Gt06Total(b), <<SubSeq(b, 1, Gt06Total(b))>>)
        <3>1. Gt06Total(b) \in Nat /\ Gt06Total(b) \in 1..Len(b) /\ Gt06Total(b) \in 0..Len(b)
            BY <2>1, <2>4, Gt06TotalTyped
        <3>2. SubSeq(b, 1, Gt06Total(b)) \in ByteStrings
            BY <3>1, FrameTyped
        <3>3. Gt06Turn(b) \in Turns
            BY <2>4, <3>1, <3>2, TakeTyped
        <3> QED BY <2>4, <3>1, <3>3 DEF Take
    <2>5. Len(b) >= 5 => Gt06Total(b) \in Nat
        BY Gt06TotalTyped
    <2> QED BY <2>1, <2>2, <2>3, <2>4, <2>5 DEF Gt06Turn
<1> QED BY <1>1, IsFramerIf DEF Gt06Turns

\* ... is not changed by the bytes that follow,
LEMMA Gt06Stable == Stable(Gt06Turns)
<1>1. SUFFICES ASSUME NEW b \in ByteStrings, NEW c \in ByteStrings, Gt06Turn(b).act = "take"
               PROVE  Gt06Turn(b \o c) = Gt06Turn(b)
    BY ConcatTyped DEF Stable, Gt06Turns
<1>2. /\ b \o c \in ByteStrings /\ Len(b) \in Nat /\ Len(c) \in Nat
      /\ Len(b \o c) = Len(b) + Len(c)
    BY ConcatTyped
<1>3. Len(b) >= 5
    BY <1>1, <1>2 DEF Gt06Turn, Wait
<1>4. (b \o c)[1] = b[1] /\ (b \o c)[2] = b[2] /\ (b \o c)[3] = b[3] /\ (b \o c)[4] = b[4]
    <2>1. \A i \in {1, 2, 3, 4} : i \in 1..(Len(b) + Len(c)) /\ i <= Len(b)
        BY <1>2, <1>3
    <2> QED BY <2>1, ConcatIndex
<1>5. Gt06Total(b \o c) = Gt06Total(b) /\ Gt06Total(b) \in Nat
    BY <1>3, <1>4, Gt06TotalTyped DEF Gt06Total
<1>6. CASE b[1] \notin {120, 121} \/ b[2] # b[1]
    BY <1>2, <1>3, <1>4, <1>6 DEF Gt06Turn
<1>7. CASE ~(b[1] \notin {120, 121} \/ b[2] # b[1])
    <2>1. Len(b) >= Gt06Total(b)
        BY <1>1, <1>2, <1>3, <1>5, <1>7 DEF Gt06Turn, Wait
    <2>2. SubSeq(b \o c, 1, Gt06Total(b)) = SubSeq(b, 1, Gt06Total(b))
        <3>1. Gt06Total(b) \in 0..Len(b)
            BY <1>2, <1>5, <2>1
        <3> QED BY <3>1, PrefixOfConcat
    <2>3. Len(b \o c) >= 5 /\ Len(b \o c) >= Gt06Total(b)
        BY <1>2, <1>3, <1>5, <2>1
    <2>4. /\ ~(Len(b) < 5) /\ ~(Len(b \o c) < 5) /\ ~(Len(b) < Gt06Total(b))
          /\ ~(Len(b \o c) < Gt06Total(b))
        BY <1>2, <1>3, <1>5, <2>1, <2>3
    <2> QED BY <1>5, <1>7, <1>4, <2>2, <2>4 DEF Gt06Turn
<1> QED BY <1>6, <1>7

\* ... and the function satisfies the equation that defines it.
LEMMA Gt06Unfolds == Unfolds(Gt06Turns, extract_packets)
<1> DEFINE Is(f) == f = [b \in ByteStrings |-> Loop(Gt06Turn(b), b, f)]
<1>1. \A f : Unfolds(Gt06Turns, f) <=> Is(f)
    BY DEF Unfolds, Gt06Turns
<1>2. \E f : Is(f)
    BY <1>1, Gt06IsFramer, FramerExists
<1>3. extract_packets = CHOOSE f : Is(f)
    BY DEF extract_packets
<1> HIDE DEF Is
<1>4. Is(extract_packets)
    BY <1>2, <1>3
<1> QED BY <1>1, <1>4

\* data.find(b";")
LEMMA SemicolonIsFirst ==
    ASSUME NEW b \in ByteStrings
    PROVE  /\ Semicolon(b) \in 0..Len(b)
           /\ Semicolon(b) = 0 => \A i \in 1..Len(b) : b[i] # 59
           /\ Semicolon(b) # 0 => /\ b[Semicolon(b)] = 59
                                  /\ \A i \in 1..Len(b) : i < Semicolon(b) => b[i] # 59
<1> DEFINE I == {i \in 1..Len(b) : b[i] = 59}
<1>1. Len(b) \in Nat /\ I \in SUBSET (1..Len(b))
    BY DEF ByteStrings
<1>2. Semicolon(b) = IF I # {} THEN Min(I) ELSE 0
    BY DEF Semicolon, SelectInSeq
<1>3. \A i \in 1..Len(b) : i \in I <=> b[i] = 59
    OBVIOUS
<1> HIDE DEF I
<1>4. CASE I = {}
    BY <1>1, <1>2, <1>3, <1>4
<1>5. CASE I # {}
    <2>1. Min(I) \in I /\ \A y \in I : Min(I) <= y
        BY <1>1, <1>5, MinMax
    <2>2. Min(I) \in 1..Len(b) /\ b[Min(I)] = 59
        BY <1>1, <1>3, <2>1
    <2>3. \A i \in 1..Len(b) : i < Min(I) => b[i] # 59
        BY <1>1, <1>3, <2>1, <2>2
    <2> QED BY <1>1, <1>2, <1>5, <2>2, <2>3
<1> QED BY <1>4, <1>5

\* bytes.strip returns bytes.
LEMMA StripTyped ==
    ASSUME NEW b \in ByteStrings
    PROVE  Strip(b) \in ByteStrings
<1> DEFINE I == {i \in 1..Len(b) : IsText(b[i])}
<1>1. Len(b) \in Nat /\ I \in SUBSET (1..Len(b))
    BY DEF ByteStrings
<1>2. /\ SelectInSeq(b, IsText) = IF I # {} THEN Min(I) ELSE 0
      /\ SelectLastInSeq(b, IsText) = IF I # {} THEN Max(I) ELSE 0
    BY DEF SelectInSeq, SelectLastInSeq
<1> HIDE DEF I
<1>3. CASE I = {}
    BY <1>2, <1>3 DEF Strip, ByteStrings
<1>4. CASE I # {}
    <2>1. Min(I) \in 1..Len(b) /\ Max(I) \in 1..Len(b)
        BY <1>1, <1>4, MinMax
    <2>2. Min(I) # 0 /\ Min(I) \in 1..(Len(b) + 1) /\ Max(I) \in 0..Len(b)
        BY <1>1, <2>1
    <2>3. SubSeq(b, Min(I), Max(I)) \in ByteStrings
        BY <2>2, SubSeqTyped DEF ByteStrings
    <2> QED BY <1>2, <1>4, <2>2, <2>3 DEF Strip
<1> QED BY <1>3, <1>4

\* gps103_parser.extract_messages, in the same three steps.
LEMMA Gps103IsFramer == IsFramer(Gps103Turns)
<1>1. ASSUME NEW b \in ByteStrings
      PROVE  Gps103Turn(b) \in Turns /\ (Gps103Turn(b).act = "take" => Gps103Turn(b).n \in 1..Len(b))
    <2> DEFINE raw == Strip(SubSeq(b, 1, Semicolon(b) - 1))
    <2>1. Len(b) \in Nat /\ Semicolon(b) \in 0..Len(b) /\ Semicolon(b) \in Nat
        BY SemicolonIsFirst DEF ByteStrings
    <2>2. CASE Gps103Turn(b) = Wait \/ Gps103Turn(b) = Fail
        BY <2>2, TakeTyped DEF Wait, Fail
    <2>3. CASE /\ Semicolon(b) # 0
               /\ Gps103Turn(b) = Take(Semicolon(b), IF raw = <<>> THEN <<>> ELSE <<raw>>)
        <3>1. Semicolon(b) - 1 \in 0..Len(b) /\ Semicolon(b) \in 1..Len(b)
            BY <2>1, <2>3
        <3>2. raw \in ByteStrings
            BY <3>1, FrameTyped, StripTyped
        <3> HIDE DEF raw
        <3>3. Gps103Turn(b) \in Turns
            BY <2>1, <2>3, <3>2, TakeTyped
        <3> QED BY <2>3, <3>1, <3>3 DEF Take
    <2> QED BY <2>2, <2>3 DEF Gps103Turn
<1> QED BY <1>1, IsFramerIf DEF Gps103Turns

\* The first ';' stays the first.
LEMMA Gps103Stable == Stable(Gps103Turns)
<1>1. SUFFICES ASSUME NEW b \in ByteStrings, NEW c \in ByteStrings, Gps103Turn(b).act = "take"
               PROVE  Gps103Turn(b \o c) = Gps103Turn(b)
    BY ConcatTyped DEF Stable, Gps103Turns
<1> DEFINE d == b \o c
           s == Semicolon(b)
<1>2. d \in ByteStrings /\ Len(b) \in Nat /\ Len(c) \in Nat /\ Len(d) = Len(b) + Len(c)
    BY ConcatTyped
<1>3. s # 0 /\ s \in 1..Len(b)
    <2>1. s # 0
        BY <1>1 DEF Gps103Turn, Wait, Fail
    <2> QED BY <1>2, <2>1, SemicolonIsFirst
<1>4. \A i \in 1..Len(b) : i \in 1..Len(d) /\ d[i] = b[i]
    <2>1. ASSUME NEW i \in 1..Len(b) PROVE i \in 1..(Len(b) + Len(c)) /\ i <= Len(b)
        BY <1>2
    <2> QED BY <1>2, <2>1, ConcatIndex
<1>5. SubSeq(d, 1, s - 1) = SubSeq(b, 1, s - 1)
    <2>1. s - 1 \in 0..Len(b)
        BY <1>2, <1>3
    <2> QED BY <2>1, PrefixOfConcat
<1>6. b[s] = 59 /\ \A i \in 1..Len(b) : i < s => b[i] # 59
    BY <1>3, SemicolonIsFirst
<1> HIDE DEF d
<1>7. /\ Semicolon(d) \in 0..Len(d)
      /\ Semicolon(d) = 0 => \A i \in 1..Len(d) : d[i] # 59
      /\ Semicolon(d) # 0 => /\ d[Semicolon(d)] = 59
                             /\ \A i \in 1..Len(d) : i < Semicolon(d) => d[i] # 59
    BY <1>2, SemicolonIsFirst
<1> HIDE DEF s
<1>8. Semicolon(d) = s
    <2>1. d[s] = 59 /\ s \in 1..Len(d)
        BY <1>3, <1>4, <1>6
    <2>2. Semicolon(d) # 0 /\ ~(s < Semicolon(d))
        BY <1>7, <2>1
    <2>3. ~(Semicolon(d) < s)
        <3>1. SUFFICES ASSUME Semicolon(d) < s PROVE FALSE
            OBVIOUS
        <3>2. Semicolon(d) \in 1..Len(b)
            BY <1>2, <1>3, <1>7, <2>2, <3>1
        <3> QED BY <1>4, <1>6, <1>7, <2>2, <3>1, <3>2
    <2> QED BY <1>2, <1>3, <1>7, <2>2, <2>3
<1>9. Gps103Turn(d) = Gps103Turn(b)
    BY <1>3, <1>5, <1>8 DEF Gps103Turn, s
<1> QED BY <1>9 DEF d

\* extract_messages satisfies its equation.
LEMMA Gps103Unfolds == Unfolds(Gps103Turns, extract_messages)
<1> DEFINE Is(f) == f = [b \in ByteStrings |-> Loop(Gps103Turn(b), b, f)]
<1>1. \A f : Unfolds(Gps103Turns, f) <=> Is(f)
    BY DEF Unfolds, Gps103Turns
<1>2. \E f : Is(f)
    BY <1>1, Gps103IsFramer, FramerExists
<1>3. extract_messages = CHOOSE f : Is(f)
    BY DEF extract_messages
<1> HIDE DEF Is
<1>4. Is(extract_messages)
    BY <1>2, <1>3
<1> QED BY <1>1, <1>4

\* Bytes that follow do not change a test of the start,
LEMMA PrefixStable ==
    ASSUME NEW p \in ByteStrings, NEW b \in ByteStrings, NEW c \in ByteStrings, Len(p) <= Len(b)
    PROVE  IsPrefix(p, b \o c) <=> IsPrefix(p, b)
<1>1. Len(p) \in Nat /\ Len(b) \in Nat /\ Len(c) \in Nat /\ Len(b \o c) = Len(b) + Len(c)
    BY ConcatTyped
<1>2. Len(p) \in 0..Len(b) /\ Len(p) <= Len(b \o c)
    BY <1>1
<1>3. SubSeq(b \o c, 1, Len(p)) = SubSeq(b, 1, Len(p))
    BY <1>2, PrefixOfConcat
<1> QED BY <1>2, <1>3 DEF IsPrefix

\* ... nor a slice.
LEMMA SliceStable ==
    ASSUME NEW b \in ByteStrings, NEW c \in ByteStrings,
           NEW m \in Nat \ {0}, NEW n \in Nat, n <= Len(b)
    PROVE  SubSeq(b \o c, m, n) = SubSeq(b, m, n)
<1>1. CASE n < m
    <2>1. m \in Int /\ n \in Int
        OBVIOUS
    <2> QED BY <1>1, <2>1, SubSeqEmpty
<1>2. CASE m <= n
    <2>1. m \in 1..Len(b) /\ n \in 1..Len(b)
        BY <1>2 DEF ByteStrings
    <2> QED BY <2>1, SubSeqOfConcat1 DEF ByteStrings
<1> QED BY <1>1, <1>2

\* The length of a Teltonika frame is positive.
LEMMA TeltonikaTotal ==
    ASSUME NEW b \in ByteStrings
    PROVE  /\ LoginLen \in Nat \ {0}
           /\ LegalLength(AvlLength(b)) => AvlTotal(b) \in Nat \ {0}
<1>1. /\ LoginLen \in Nat /\ PreambleLen \in Nat /\ LengthLen \in Nat
      /\ TrailerLen \in Nat /\ MaxPacket \in Nat
      /\ PreambleLen >= 2 /\ LoginLen >= PreambleLen
    BY SizesAssumption
<1> QED BY <1>1 DEF LegalLength, AvlTotal

\* teltonika_parser.extract_frames, in the same three steps.
LEMMA TeltonikaIsFramer == IsFramer(TeltonikaTurns)
<1>1. ASSUME NEW b \in ByteStrings
      PROVE  /\ TeltonikaTurn(b) \in Turns
             /\ TeltonikaTurn(b).act = "take" => TeltonikaTurn(b).n \in 1..Len(b)
    <2> DEFINE login == IsPrefix(<<0, 15>>, b)
               avl == IsPrefix(Zeros(PreambleLen), b)
               total == IF login THEN LoginLen ELSE AvlTotal(b)
    <2>1. Len(b) \in Nat
        BY DEF ByteStrings
    <2>2. CASE TeltonikaTurn(b) \in {Wait, Fail}
        BY <2>2, TakeTyped DEF Wait, Fail
    <2>3. CASE /\ login \/ avl
               /\ avl => LegalLength(AvlLength(b))
               /\ ~(Len(b) < total)
               /\ TeltonikaTurn(b) = Take(total, <<SubSeq(b, 1, total)>>)
        <3>1. total \in Nat \ {0}
            BY <2>3, TeltonikaTotal
        <3> HIDE DEF total
        <3>2. total \in 1..Len(b) /\ total \in 0..Len(b) /\ total \in Nat
            BY <2>1, <2>3, <3>1
        <3>3. SubSeq(b, 1, total) \in ByteStrings
            BY <3>2, FrameTyped
        <3>4. TeltonikaTurn(b) \in Turns
            BY <2>3, <3>2, <3>3, TakeTyped
        <3> QED BY <2>3, <3>2, <3>4 DEF Take
    <2> QED BY <2>2, <2>3 DEF TeltonikaTurn
<1> QED BY <1>1, IsFramerIf DEF TeltonikaTurns

\* The starts of a login and of an AVL packet.
LEMMA Marks ==
    /\ <<0, 15>> \in ByteStrings /\ Len(<<0, 15>>) = 2
    /\ Zeros(PreambleLen) \in ByteStrings /\ Len(Zeros(PreambleLen)) = PreambleLen
<1>1. PreambleLen \in Nat
    BY SizesAssumption
<1>2. Zeros(PreambleLen) \in [1..PreambleLen -> 0..255]
    BY <1>1 DEF Zeros
<1>3. Zeros(PreambleLen) \in ByteStrings
    BY <1>1, <1>2, SeqDef DEF ByteStrings
<1>4. Len(Zeros(PreambleLen)) = PreambleLen
    BY <1>1 DEF Zeros
<1> QED BY <1>3, <1>4 DEF ByteStrings

\* The header of a frame, once there, decides the frame.
LEMMA TeltonikaStable == Stable(TeltonikaTurns)
<1>1. SUFFICES ASSUME NEW b \in ByteStrings, NEW c \in ByteStrings, TeltonikaTurn(b).act = "take"
               PROVE  TeltonikaTurn(b \o c) = TeltonikaTurn(b)
    BY ConcatTyped DEF Stable, TeltonikaTurns
<1> DEFINE d == b \o c
           login == IsPrefix(<<0, 15>>, b)
           avl == IsPrefix(Zeros(PreambleLen), b)
           total == IF login THEN LoginLen ELSE AvlTotal(b)
<1>2. /\ d \in ByteStrings /\ Len(b) \in Nat /\ Len(c) \in Nat
      /\ Len(d) = Len(b) + Len(c) /\ Len(b) <= Len(d)
    BY ConcatTyped
<1>3. /\ ~(Len(b) < PreambleLen) /\ (login \/ avl)
      /\ ~(avl /\ Len(b) < PreambleLen + LengthLen)
      /\ ~(avl /\ ~LegalLength(AvlLength(b)))
      /\ ~(Len(b) < total) /\ ~(login /\ ~GoodLogin(b))
    BY <1>1 DEF TeltonikaTurn, Wait, Fail
<1>4. TeltonikaTurn(b) = Take(total, <<SubSeq(b, 1, total)>>)
    BY <1>3 DEF TeltonikaTurn
<1>5. /\ PreambleLen \in Nat /\ PreambleLen >= 2 /\ LengthLen \in Nat /\ LoginLen \in Nat
      /\ PreambleLen <= Len(b) /\ 2 <= Len(b)
    BY <1>2, <1>3, SizesAssumption
<1>6. total \in Nat /\ total <= Len(b)
    <2>1. total \in Nat
        BY <1>3, TeltonikaTotal
    <2> HIDE DEF total
    <2> QED BY <1>2, <1>3, <2>1
<1>7. IsPrefix(<<0, 15>>, d) = login /\ IsPrefix(Zeros(PreambleLen), d) = avl
    BY <1>5, Marks, PrefixStable DEF IsPrefix
<1>8. avl => AvlLength(d) = AvlLength(b)
    <2>1. SUFFICES ASSUME avl PROVE AvlLength(d) = AvlLength(b)
        OBVIOUS
    <2>2. /\ PreambleLen + 1 \in Nat \ {0} /\ PreambleLen + LengthLen \in Nat
          /\ PreambleLen + LengthLen <= Len(b)
        BY <1>2, <1>3, <1>5, <2>1
    <2>3. SubSeq(d, PreambleLen + 1, PreambleLen + LengthLen)
              = SubSeq(b, PreambleLen + 1, PreambleLen + LengthLen)
        BY <2>2, SliceStable
    <2> QED BY <2>3 DEF AvlLength
<1>9. login => GoodLogin(d) = GoodLogin(b)
    <2>1. SUFFICES ASSUME login PROVE GoodLogin(d) = GoodLogin(b)
        OBVIOUS
    <2>2. LoginLen <= Len(b) /\ 3 \in Nat \ {0}
        BY <1>6, <2>1
    <2>3. SubSeq(d, 3, LoginLen) = SubSeq(b, 3, LoginLen)
        BY <1>5, <2>2, SliceStable
    <2> QED BY <2>3 DEF GoodLogin
<1>10. SubSeq(d, 1, total) = SubSeq(b, 1, total)
    <2>1. total \in 0..Len(b)
        BY <1>2, <1>6
    <2> HIDE DEF total
    <2> QED BY <2>1, PrefixOfConcat
<1>11. total = IF login THEN LoginLen ELSE AvlTotal(d)
    BY <1>3, <1>8 DEF AvlTotal
<1>12. ~(Len(d) < PreambleLen) /\ ~(avl /\ Len(d) < PreambleLen + LengthLen) /\ ~(Len(d) < total)
    <2> HIDE DEF total
    <2> QED BY <1>2, <1>3, <1>5, <1>6
<1> HIDE DEF d
<1>13. TeltonikaTurn(d) = Take(total, <<SubSeq(d, 1, total)>>)
    BY <1>3, <1>7, <1>8, <1>9, <1>11, <1>12 DEF TeltonikaTurn
<1> HIDE DEF total
<1>14. TeltonikaTurn(d) = TeltonikaTurn(b)
    BY <1>4, <1>10, <1>13
<1> QED BY <1>14 DEF d

\* extract_frames satisfies its equation.
LEMMA TeltonikaUnfolds == Unfolds(TeltonikaTurns, extract_frames)
<1> DEFINE Is(f) == f = [b \in ByteStrings |-> Loop(TeltonikaTurn(b), b, f)]
<1>1. \A f : Unfolds(TeltonikaTurns, f) <=> Is(f)
    BY DEF Unfolds, TeltonikaTurns
<1>2. \E f : Is(f)
    BY <1>1, TeltonikaIsFramer, FramerExists
<1>3. extract_frames = CHOOSE f : Is(f)
    BY DEF extract_frames
<1> HIDE DEF Is
<1>4. Is(extract_frames)
    BY <1>2, <1>3
<1> QED BY <1>1, <1>4

\* The turns and the framer of each family (PROTOCOL_PIPELINES).
TurnsOf(p) ==
    CASE p = "GT06" -> Gt06Turns
      [] p = "GPS103" -> Gps103Turns
      [] p = "TELTONIKA" -> TeltonikaTurns

FramerOf(p) ==
    CASE p = "GT06" -> extract_packets
      [] p = "GPS103" -> extract_messages
      [] p = "TELTONIKA" -> extract_frames

\* What has been shown of the three framers.
LEMMA FramersAreFramers ==
    ASSUME NEW p \in Protocols
    PROVE  /\ IsFramer(TurnsOf(p)) /\ Stable(TurnsOf(p)) /\ Unfolds(TurnsOf(p), FramerOf(p))
           /\ \A b : Extract(p, b) = FramerOf(p)[b]
<1>1. CASE p = "GT06"
    BY <1>1, Gt06IsFramer, Gt06Stable, Gt06Unfolds DEF TurnsOf, FramerOf, Extract
<1>2. CASE p = "GPS103"
    BY <1>2, Gps103IsFramer, Gps103Stable, Gps103Unfolds DEF TurnsOf, FramerOf, Extract
<1>3. CASE p = "TELTONIKA"
    BY <1>3, TeltonikaIsFramer, TeltonikaStable, TeltonikaUnfolds DEF TurnsOf, FramerOf, Extract
<1> QED BY <1>1, <1>2, <1>3 DEF Protocols

(***************************************************************************)
(* A framer may be run on a stream as it comes in.  Once it has returned    *)
(* from the bytes b without an error, running it on the rest it kept and    *)
(* the bytes c read next gives the frames it would have found in b and c at *)
(* once (extract_packets, extract_messages and extract_frames, on every     *)
(* byte string).                                                            *)
(***************************************************************************)
THEOREM FramingIsIncremental ==
    ASSUME NEW p \in Protocols, NEW b \in ByteStrings, NEW c \in ByteStrings, ~Extract(p, b).error
    PROVE  /\ Extract(p, b) \in Results
           /\ TurnsOf(p)[Extract(p, b).rest].act = "wait"
           /\ Extract(p, b \o c) = Before(Extract(p, b).frames, Extract(p, Extract(p, b).rest \o c))
<1>1. /\ IsFramer(TurnsOf(p)) /\ Stable(TurnsOf(p)) /\ Unfolds(TurnsOf(p), FramerOf(p))
      /\ \A x : Extract(p, x) = FramerOf(p)[x]
    BY FramersAreFramers
<1>2. FramerOf(p)[b] \in Results
    BY <1>1, FramerTyped
<1> QED BY <1>1, <1>2, Resume

-----------------------------------------------------------------------------
(***************************************************************************)
(* protocols/detect.py: the families it knows start differently.            *)
(***************************************************************************)

\* The bytes of a prefix.
LEMMA PrefixElements ==
    ASSUME NEW p \in ByteStrings, NEW b \in ByteStrings, IsPrefix(p, b), NEW i \in 1..Len(p)
    PROVE  b[i] = p[i] /\ Len(p) <= Len(b)
<1>1. /\ Len(p) \in Nat /\ Len(b) \in Nat /\ Len(p) <= Len(b)
      /\ SubSeq(p, 1, Len(p)) = SubSeq(b, 1, Len(p))
    BY DEF IsPrefix, ByteStrings
<1>2. i \in Nat /\ 1 <= i /\ i <= Len(p)
    BY <1>1
<1>3. SubSeq(p, 1, Len(p))[i] = p[i]
    BY <1>1, <1>2 DEF ByteStrings
<1>4. SubSeq(b, 1, Len(p))[i] = b[i]
    BY <1>1, <1>2 DEF ByteStrings
<1> QED BY <1>1, <1>3, <1>4

\* The starts detect._sniff knows.
Short == <<120, 120>>
Long == <<121, 121>>
Hash == <<35, 35>>
Imei == <<105, 109, 101, 105, 58>>
Hello == <<0, 15>>

Gt06Start(b) == IsPrefix(Short, b) \/ IsPrefix(Long, b)
Gps103Start(b) == IsPrefix(Hash, b) \/ IsPrefix(Imei, b)
TeltonikaStart(b) == IsPrefix(Hello, b)
LoginDigits(b) == Digits(SubSeq(b, 3, Min({LoginLen, Len(b)})))

\* The stream starts as those of family p do.
Starts(p, b) ==
    CASE p = "GT06" -> Gt06Start(b)
      [] p = "GPS103" -> Gps103Start(b)
      [] p = "TELTONIKA" -> TeltonikaStart(b)

\* The starts of the families, byte by byte.
LEMMA Signs ==
    /\ {Short, Long, Hash, Imei, Hello} \subseteq ByteStrings
    /\ \A q \in {Short, Long, Hash, Hello} : Len(q) = 2
    /\ Len(Imei) = 5
    /\ Short[1] = 120 /\ Long[1] = 121 /\ Hash[1] = 35 /\ Imei[1] = 105
    /\ Hello[1] = 0 /\ Hello[2] = 15
<1>1. Short \in ByteStrings /\ Len(Short) = 2 /\ Short[1] = 120
    BY DEF Short, ByteStrings
<1>2. Long \in ByteStrings /\ Len(Long) = 2 /\ Long[1] = 121
    BY DEF Long, ByteStrings
<1>3. Hash \in ByteStrings /\ Len(Hash) = 2 /\ Hash[1] = 35
    BY DEF Hash, ByteStrings
<1>4. Imei \in ByteStrings /\ Len(Imei) = 5 /\ Imei[1] = 105
    BY DEF Imei, ByteStrings
<1>5. Hello \in ByteStrings /\ Len(Hello) = 2 /\ Hello[1] = 0 /\ Hello[2] = 15
    BY DEF Hello, ByteStrings
<1> QED BY <1>1, <1>2, <1>3, <1>4, <1>5

\* The first bytes tell the families apart.
LEMMA FirstByte ==
    ASSUME NEW b \in ByteStrings
    PROVE  /\ Gt06Start(b) => b[1] \in {120, 121} /\ Len(b) >= 2
           /\ Gps103Start(b) => b[1] \in {35, 105} /\ Len(b) >= 2
           /\ TeltonikaStart(b) => b[1] = 0 /\ b[2] = 15 /\ Len(b) >= 2
<1>1. ASSUME NEW q \in {Short, Long, Hash, Imei, Hello}, IsPrefix(q, b)
      PROVE  b[1] = q[1] /\ b[2] = q[2] /\ Len(b) >= 2
    <2>1. q \in ByteStrings /\ Len(q) >= 2 /\ 1 \in 1..Len(q) /\ 2 \in 1..Len(q)
        <3>1. q \in ByteStrings /\ Len(q) \in {2, 5}
            BY Signs
        <3> QED BY <3>1
    <2>2. b[1] = q[1] /\ b[2] = q[2] /\ Len(q) <= Len(b)
        BY <1>1, <2>1, PrefixElements
    <2>3. Len(q) \in Nat /\ Len(b) \in Nat
        BY <2>1 DEF ByteStrings
    <2> QED BY <2>1, <2>2, <2>3
<1>2. Gt06Start(b) => b[1] \in {120, 121} /\ Len(b) >= 2
    BY <1>1, Signs DEF Gt06Start
<1>3. Gps103Start(b) => b[1] \in {35, 105} /\ Len(b) >= 2
    BY <1>1, Signs DEF Gps103Start
<1>4. TeltonikaStart(b) => b[1] = 0 /\ b[2] = 15 /\ Len(b) >= 2
    BY <1>1, Signs DEF TeltonikaStart
<1> QED BY <1>2, <1>3, <1>4

\* detect._sniff, without the order of its tests.
LEMMA SniffIs ==
    ASSUME NEW b \in ByteStrings
    PROVE  /\ Sniff(b) = "GT06" <=> Gt06Start(b)
           /\ Sniff(b) = "GPS103" <=> Gps103Start(b)
           /\ Sniff(b) = "TELTONIKA" <=> TeltonikaStart(b) /\ LoginDigits(b)
           /\ Sniff(b) \in Protocols \cup {None}
<1>1. /\ ~(Gt06Start(b) /\ Gps103Start(b)) /\ ~(Gt06Start(b) /\ TeltonikaStart(b))
      /\ ~(Gps103Start(b) /\ TeltonikaStart(b))
    BY FirstByte
<1>2. None \notin {"GT06", "GPS103", "TELTONIKA"}
    BY NoneAssumption DEF Protocols
<1>3. Sniff(b) = IF Gt06Start(b) THEN "GT06" ELSE IF Gps103Start(b) THEN "GPS103"
                 ELSE IF TeltonikaStart(b) /\ LoginDigits(b) THEN "TELTONIKA" ELSE None
    BY DEF Sniff, Gt06Start, Gps103Start, TeltonikaStart, LoginDigits,
           Short, Long, Hash, Imei, Hello
<1> QED BY <1>1, <1>2, <1>3 DEF Protocols

\* The start of a stream stays its start.
LEMMA StartsStays ==
    ASSUME NEW p \in Protocols, NEW b \in ByteStrings, NEW c \in ByteStrings, Starts(p, b)
    PROVE  Starts(p, b \o c)
<1>1. ASSUME NEW q \in ByteStrings, IsPrefix(q, b) PROVE IsPrefix(q, b \o c)
    <2>1. Len(q) <= Len(b)
        BY <1>1 DEF IsPrefix
    <2> QED BY <1>1, <2>1, PrefixStable
<1>2. \A q \in {Short, Long, Hash, Imei, Hello} : IsPrefix(q, b) => IsPrefix(q, b \o c)
    BY <1>1, Signs
<1>4. CASE p = "GT06"
    BY <1>2, <1>4 DEF Starts, Gt06Start
<1>5. CASE p = "GPS103"
    BY <1>2, <1>5 DEF Starts, Gps103Start
<1>6. CASE p = "TELTONIKA"
    BY <1>2, <1>6 DEF Starts, TeltonikaStart
<1> QED BY <1>4, <1>5, <1>6 DEF Protocols

-----------------------------------------------------------------------------
(***************************************************************************)
(* handle_device                                                            *)
(***************************************************************************)

TypeInv ==
    /\ setup \in Setups
    /\ sent \in ByteStrings
    /\ buffer \in ByteStrings
    /\ frames \in Seq(ByteStrings)
    /\ family \in Protocols \cup {None}
    /\ closed \in BOOLEAN

(***************************************************************************)
(* The inductive invariant: until the family is known nothing has been      *)
(* framed; from then on it is enabled, the stream starts like it, a         *)
(* connection given up keeps no bytes, and the frames and the rest are      *)
(* those of the bytes read so far (FramedAsOneStream).                      *)
(***************************************************************************)
FramingInv ==
    /\ TypeInv
    /\ (family = None /\ ~closed) => buffer = sent /\ frames = <<>>
    /\ (family # None /\ closed) => buffer = <<>>
    /\ family # None => family \in setup.enabled /\ Starts(family, sent)
    /\ FramedAsOneStream

\* The fields of a setup.
LEMMA SetupTyped ==
    ASSUME setup \in Setups
    PROVE  /\ setup.bytes \subseteq 0..255 /\ setup.maxSent \in Nat
           /\ setup.enabled \subseteq Protocols
BY SetupsAssumption

\* What a read returns.
LEMMA ChunkTyped ==
    ASSUME setup \in Setups, NEW n \in ReadSizes, NEW chunk \in [1..n -> setup.bytes]
    PROVE  chunk \in ByteStrings
<1>1. n \in Nat
    BY ReadAssumption DEF ReadSizes
<1>2. chunk \in [1..n -> 0..255]
    BY SetupTyped
<1> QED BY <1>1, <1>2, SeqDef DEF ByteStrings

\* What a framer returns.
LEMMA ExtractTyped ==
    ASSUME NEW p \in Protocols, NEW b \in ByteStrings
    PROVE  Extract(p, b) \in Results
BY FramersAreFramers, FramerTyped

\* A family that is detected is enabled, and the bytes start like it.
LEMMA DetectTyped ==
    ASSUME setup \in Setups, NEW b \in ByteStrings, detect_protocol(b) # None
    PROVE  /\ detect_protocol(b) \in Protocols /\ detect_protocol(b) \in setup.enabled
           /\ Starts(detect_protocol(b), b)
<1>1. detect_protocol(b) = Sniff(b) /\ Sniff(b) \in setup.enabled /\ Sniff(b) \in Protocols
    BY SetupTyped, SniffIs DEF detect_protocol
<1>2. Starts(Sniff(b), b)
    BY <1>1, SniffIs DEF Starts, Protocols
<1> QED BY <1>1, <1>2

\* What feeding the framer leaves.
LEMMA FeedTyped ==
    ASSUME TypeInv, NEW p \in Protocols, NEW b \in ByteStrings, Feed(p, b)
    PROVE  /\ buffer' \in ByteStrings /\ frames' \in Seq(ByteStrings) /\ closed' \in BOOLEAN
           /\ closed' => buffer' = <<>>
<1> DEFINE r == Extract(p, b)
<1>1. r \in Results
    BY ExtractTyped
<1>2. buffer' = r.rest /\ frames' = frames \o r.frames /\ closed' = r.error
    BY DEF Feed
<1> HIDE DEF r
<1>3. /\ r.rest \in ByteStrings /\ r.frames \in Seq(ByteStrings) /\ r.error \in BOOLEAN
      /\ (r.error => r.rest = <<>>)
    BY <1>1 DEF Results, FramingError
<1> QED BY <1>2, <1>3 DEF TypeInv

\* No bytes give no frames, and no error.
LEMMA NothingFramed ==
    ASSUME NEW p \in Protocols
    PROVE  <<>> \in ByteStrings /\ Extract(p, <<>>) = Extracted(<<>>, <<>>)
<1> DEFINE b == <<>>
<1>1. b \in ByteStrings /\ Len(b) = 0
    BY EmptySeq DEF ByteStrings
<1>2. TurnsOf(p)[b] = Wait
    <2> HIDE DEF b
    <2>1. Gt06Turn(b) = Wait
        BY <1>1 DEF Gt06Turn
    <2>2. Gps103Turn(b) = Wait
        <3>1. Semicolon(b) = 0
            BY <1>1, SemicolonIsFirst
        <3>2. ~Overflows(b)
            BY <1>1, SizesAssumption DEF Overflows
        <3> QED BY <3>1, <3>2 DEF Gps103Turn
    <2>3. TeltonikaTurn(b) = Wait
        <3>1. Len(b) < PreambleLen
            BY <1>1, SizesAssumption
        <3> QED BY <3>1 DEF TeltonikaTurn
    <2> QED BY <1>1, <2>1, <2>2, <2>3 DEF TurnsOf, Gt06Turns, Gps103Turns, TeltonikaTurns, Protocols
<1>3. Extract(p, b) = Loop(TurnsOf(p)[b], b, FramerOf(p))
    BY <1>1, FramersAreFramers, UnfoldsAt
<1>4. Loop(Wait, b, FramerOf(p)) = Extracted(<<>>, b)
    BY DEF Loop, Wait
<1> QED BY <1>1, <1>2, <1>3, <1>4

\* The first bytes are framed whole.
LEMMA DecideKeeps ==
    ASSUME FramingInv, setup' = setup, ~closed, family = None, NEW b \in ByteStrings, sent' = b,
           sent' \in ByteStrings, Decide(b)
    PROVE  FramingInv'
<1>1. CASE detect_protocol(b) = None
    <2>1. family' = None /\ closed' = TRUE /\ buffer' = buffer /\ frames' = frames
        BY <1>1 DEF Decide
    <2>2. TypeInv'
        BY <2>1 DEF FramingInv, TypeInv
    <2> QED BY <2>1, <2>2 DEF FramingInv, FramedAsOneStream
<1>2. CASE detect_protocol(b) # None
    <2> DEFINE p == detect_protocol(b)
               r == Extract(p, b)
    <2>1. family' = p /\ Feed(p, b)
        BY <1>2 DEF Decide
    <2>2. p \in Protocols /\ p \in setup.enabled /\ Starts(p, b) /\ p # None
        BY <1>2, DetectTyped DEF FramingInv, TypeInv
    <2>3. r \in Results
        BY <2>2, ExtractTyped
    <2>4. buffer' = r.rest /\ frames' = frames \o r.frames /\ closed' = r.error
        BY <2>1 DEF Feed
    <2>5. frames' = r.frames
        <3>1. frames = <<>> /\ r.frames \in Seq(ByteStrings)
            BY <2>3 DEF FramingInv, Results
        <3> HIDE DEF r
        <3> QED BY <2>4, <3>1
    <2>6. TypeInv' /\ (closed' => buffer' = <<>>)
        <3> HIDE DEF p
        <3> QED BY <2>1, <2>2, FeedTyped DEF FramingInv, TypeInv
    <2>7. FramedAsOneStream'
        <3>1. Extract(family', sent') = r
            BY <2>1
        <3>2. r.error => r.frames = <<>>
            BY <2>3 DEF Results, FramingError
        <3>3. SubSeq(sent', 1, 0) = <<>>
            BY DEF ByteStrings
        <3>4. Extract(p, SubSeq(sent', 1, 0)) = Extracted(<<>>, <<>>)
            BY <2>2, <3>3, NothingFramed
        <3>5. 0 \in 0..Len(sent')
            BY DEF ByteStrings
        <3> HIDE DEF p, r
        <3>6. ASSUME closed'
              PROVE  \E k \in 0..Len(sent') :
                        /\ ~Extract(family', SubSeq(sent', 1, k)).error
                        /\ frames' = Extract(family', SubSeq(sent', 1, k)).frames
            <4>1. ~Extract(family', SubSeq(sent', 1, 0)).error
                BY <2>1, <3>4 DEF Extracted
            <4>2. frames' = Extract(family', SubSeq(sent', 1, 0)).frames
                BY <2>1, <2>4, <2>5, <3>2, <3>4, <3>6 DEF Extracted
            <4> QED BY <3>5, <4>1, <4>2
        <3> QED BY <2>4, <2>5, <3>1, <3>6 DEF FramedAsOneStream
    <2>8. family' \in setup'.enabled /\ Starts(family', sent')
        <3> HIDE DEF p
        <3> QED BY <2>1, <2>2
    <2> HIDE DEF p
    <2> QED BY <2>1, <2>2, <2>6, <2>7, <2>8 DEF FramingInv
<1> QED BY <1>1, <1>2

\* The bytes of a later read are framed as if they had come with the first.
LEMMA FeedKeeps ==
    ASSUME FramingInv, setup' = setup, ~closed, family # None, family' = family,
           NEW chunk \in ByteStrings, sent' = sent \o chunk, Feed(family, buffer \o chunk)
    PROVE  FramingInv'
<1> DEFINE p == family
           r == Extract(p, buffer \o chunk)
<1>1. /\ p \in Protocols /\ sent \in ByteStrings /\ buffer \in ByteStrings
      /\ buffer \o chunk \in ByteStrings /\ sent \o chunk \in ByteStrings
      /\ frames \in Seq(ByteStrings)
    BY ConcatTyped DEF FramingInv, TypeInv
<1>2. /\ ~Extract(p, sent).error /\ frames = Extract(p, sent).frames
      /\ buffer = Extract(p, sent).rest
    BY DEF FramingInv, FramedAsOneStream
<1>3. Extract(p, sent \o chunk) = Before(frames, r)
    BY <1>1, <1>2, FramingIsIncremental
<1>4. r \in Results
    BY <1>1, ExtractTyped
<1>5. buffer' = r.rest /\ frames' = frames \o r.frames /\ closed' = r.error
    BY DEF Feed
<1>6. TypeInv' /\ (closed' => buffer' = <<>>)
    BY <1>1, FeedTyped DEF FramingInv, TypeInv
<1>7. Starts(p, sent')
    BY <1>1, StartsStays DEF FramingInv
<1>8. Extract(family', sent') = Before(frames, r)
    BY <1>3
<1> HIDE DEF r
<1>9. FramedAsOneStream'
    <2>1. CASE r.error
        <3>1. Before(frames, r).error = TRUE
            BY <2>1 DEF Before, FramingError
        <3>2. r.frames = <<>>
            BY <1>4, <2>1 DEF Results, FramingError
        <3>3. frames' = frames
            BY <1>1, <1>5, <3>2
        <3>4. Len(sent) \in 0..Len(sent')
            BY <1>1, ConcatTyped
        <3>5. SubSeq(sent', 1, Len(sent)) = sent
            <4>1. Len(sent) \in 0..Len(sent)
                BY <1>1 DEF ByteStrings
            <4>2. SubSeq(sent \o chunk, 1, Len(sent)) = SubSeq(sent, 1, Len(sent))
                BY <1>1, <4>1, PrefixOfConcat
            <4>3. SubSeq(sent, 1, Len(sent)) = sent
                BY <1>1 DEF ByteStrings
            <4> QED BY <4>2, <4>3
        <3>6. \E k \in 0..Len(sent') : /\ ~Extract(family', SubSeq(sent', 1, k)).error
                                       /\ frames' = Extract(family', SubSeq(sent', 1, k)).frames
            BY <1>2, <3>3, <3>4, <3>5
        <3> QED BY <1>5, <1>8, <2>1, <3>1, <3>6 DEF FramedAsOneStream
    <2>2. CASE ~r.error
        <3>1. /\ Before(frames, r).error = FALSE /\ Before(frames, r).frames = frames \o r.frames
              /\ Before(frames, r).rest = r.rest
            BY <2>2 DEF Before, Extracted
        <3>2. closed' = FALSE
            BY <1>4, <1>5, <2>2 DEF Results
        <3> QED BY <1>5, <1>8, <3>1, <3>2 DEF FramedAsOneStream
    <2> QED BY <2>1, <2>2
<1> QED BY <1>6, <1>7, <1>9 DEF FramingInv

\* The invariant holds at first,
LEMMA FramingInit == Init => FramingInv
<1>1. SUFFICES ASSUME Init PROVE FramingInv
    OBVIOUS
<1>2. TypeInv
    BY <1>1, EmptySeq DEF Init, TypeInv, ByteStrings
<1> QED BY <1>1, <1>2 DEF Init, FramingInv, FramedAsOneStream

\* ... and every step keeps it.
LEMMA FramingStep == FramingInv /\ [Next]_vars => FramingInv'
<1>1. SUFFICES ASSUME FramingInv, [Next]_vars PROVE FramingInv'
    OBVIOUS
<1>2. setup \in Setups /\ sent \in ByteStrings /\ buffer \in ByteStrings
    BY <1>1 DEF FramingInv, TypeInv
<1>3. CASE UNCHANGED vars
    BY <1>1, <1>3 DEF vars, FramingInv, TypeInv, FramedAsOneStream
<1>4. CASE ProbeTimeout
    <2>1. CASE buffer = <<>>
        <3>1. /\ closed' = TRUE /\ family' = None /\ family = None /\ buffer' = buffer
              /\ frames' = frames
              /\ setup' = setup /\ sent' = sent
            BY <1>4, <2>1 DEF ProbeTimeout
        <3>2. TypeInv'
            BY <1>1, <3>1 DEF FramingInv, TypeInv
        <3> QED BY <3>1, <3>2 DEF FramingInv, FramedAsOneStream
    <2>2. CASE buffer # <<>>
        <3>1. ~closed /\ family = None /\ Decide(buffer) /\ setup' = setup /\ sent' = sent
            BY <1>4, <2>2 DEF ProbeTimeout
        <3>2. sent' = buffer
            BY <1>1, <3>1 DEF FramingInv
        <3> QED BY <1>1, <1>2, <3>1, <3>2, DecideKeeps
    <2> QED BY <2>1, <2>2
<1>5. ASSUME NEW n \in ReadSizes, NEW chunk \in [1..n -> setup.bytes], Read(chunk)
      PROVE  FramingInv'
    <2>1. chunk \in ByteStrings
        BY <1>2, ChunkTyped
    <2>2. ~closed /\ sent' = sent \o chunk /\ setup' = setup
        BY <1>5 DEF Read
    <2>3. buffer \o chunk \in ByteStrings /\ sent \o chunk \in ByteStrings
        BY <1>2, <2>1, ConcatTyped
    <2>4. CASE family # None
        <3>1. Feed(family, buffer \o chunk) /\ family' = family
            BY <1>5, <2>4 DEF Read
        <3> QED BY <1>1, <2>1, <2>2, <2>4, <3>1, FeedKeeps
    <2>5. CASE family = None
        <3>1. buffer = sent /\ frames = <<>>
            BY <1>1, <2>2, <2>5 DEF FramingInv
        <3>2. CASE Decide(buffer \o chunk)
            BY <1>1, <2>2, <2>3, <2>5, <3>1, <3>2, DecideKeeps
        <3>3. CASE buffer' = buffer \o chunk /\ UNCHANGED <<family, frames, closed>>
            <4>1. TypeInv'
                BY <1>1, <2>2, <2>3, <3>3 DEF FramingInv, TypeInv
            <4> QED BY <2>2, <2>5, <3>1, <3>3, <4>1 DEF FramingInv, FramedAsOneStream
        <3> QED BY <1>5, <2>5, <3>2, <3>3 DEF Read
    <2> QED BY <2>4, <2>5
<1> QED BY <1>1, <1>3, <1>4, <1>5 DEF Next

(***************************************************************************)
(* The inductive invariant holds in every reachable state.                  *)
(***************************************************************************)
THEOREM FramingInvariant == Spec => []FramingInv
BY FramingInit, FramingStep, PTL DEF Spec

(***************************************************************************)
(* handle_device frames the pieces TCP makes of a stream as the bytes read  *)
(* so far at once, and hands over the frames of a prefix when it gives the  *)
(* connection up, for every stream, size of read and configuration.         *)
(***************************************************************************)
THEOREM StreamIsFramed == Spec => []FramedAsOneStream
<1>1. FramingInv => FramedAsOneStream
    BY DEF FramingInv
<1> QED BY <1>1, FramingInvariant, PTL

\* A framer waits only for the rest of a frame of legal length.
LEMMA WaitIsBounded ==
    ASSUME NEW b \in ByteStrings
    PROVE  /\ Gps103Turn(b).act = "wait" => Len(b) <= MaxUnframed
           /\ TeltonikaTurn(b).act = "wait" =>
                 \/ Len(b) < LoginLen
                 \/ Len(b) < PreambleLen + LengthLen + MaxPacket + TrailerLen
<1>1. /\ Len(b) \in Nat /\ MaxUnframed \in Nat /\ LoginLen \in Nat /\ PreambleLen \in Nat
      /\ LengthLen \in Nat /\ TrailerLen \in Nat /\ MaxPacket \in Nat /\ PreambleLen <= LoginLen
    BY SizesAssumption DEF ByteStrings
<1>2. Gps103Turn(b).act = "wait" => Len(b) <= MaxUnframed
    BY <1>1 DEF Gps103Turn, Overflows, Wait, Fail, Take
<1>3. ASSUME TeltonikaTurn(b).act = "wait"
      PROVE  \/ Len(b) < LoginLen
             \/ Len(b) < PreambleLen + LengthLen + MaxPacket + TrailerLen
    <2> DEFINE login == IsPrefix(<<0, 15>>, b)
               avl == IsPrefix(Zeros(PreambleLen), b)
               total == IF login THEN LoginLen ELSE AvlTotal(b)
    <2>1. \/ Len(b) < PreambleLen
          \/ Len(b) < PreambleLen + LengthLen
          \/ (login \/ LegalLength(AvlLength(b))) /\ Len(b) < total
        BY <1>3 DEF TeltonikaTurn, Wait, Fail, Take
    <2>2. CASE login /\ Len(b) < total
        BY <2>2
    <2>3. CASE LegalLength(AvlLength(b)) /\ ~login /\ Len(b) < total
        BY <1>1, <2>3 DEF LegalLength, AvlTotal
    <2> QED BY <1>1, <2>1, <2>2, <2>3
<1> QED BY <1>2, <1>3

(***************************************************************************)
(* What handle_device keeps between reads is bounded, whatever the peer     *)
(* sends.                                                                   *)
(***************************************************************************)
THEOREM BuffersAreBounded == Spec => []BufferBounded
<1>1. ASSUME FramingInv PROVE BufferBounded
    <2>1. /\ MaxUnframed \in Nat /\ LoginLen \in Nat /\ LoginLen > 0
          /\ sent \in ByteStrings /\ buffer \in ByteStrings
        BY <1>1, SizesAssumption DEF FramingInv, TypeInv
    <2>2. CASE family = None \/ closed
        <3>1. family # None => Len(buffer) = 0
            BY <1>1, <2>2 DEF FramingInv
        <3>2. "GPS103" # None /\ "TELTONIKA" # None
            BY NoneAssumption DEF Protocols
        <3> QED BY <2>1, <3>1, <3>2 DEF BufferBounded
    <2>3. CASE family # None /\ ~closed
        <3>1. family \in Protocols
            BY <1>1, <2>3 DEF FramingInv, TypeInv
        <3>2. ~Extract(family, sent).error /\ buffer = Extract(family, sent).rest
            BY <1>1, <2>3 DEF FramingInv, FramedAsOneStream
        <3>3. TurnsOf(family)[buffer].act = "wait"
            BY <2>1, <3>1, <3>2, FramingIsIncremental
        <3>4. family = "GPS103" => Gps103Turn(buffer).act = "wait"
            BY <2>1, <3>3 DEF TurnsOf, Gps103Turns
        <3>5. family = "TELTONIKA" => TeltonikaTurn(buffer).act = "wait"
            BY <2>1, <3>3 DEF TurnsOf, TeltonikaTurns
        <3> QED BY <2>1, <3>4, <3>5, WaitIsBounded DEF BufferBounded
    <2> QED BY <2>2, <2>3
<1> QED BY <1>1, FramingInvariant, PTL

\* A stream that starts like a login and has no error: the digits are right, or
\* the login is not complete.
LEMMA FirstLogin ==
    ASSUME NEW b \in ByteStrings, TeltonikaStart(b), ~Extract("TELTONIKA", b).error
    PROVE  \/ LoginDigits(b)
           \/ Extract("TELTONIKA", b).frames = <<>> /\ Len(b) < LoginLen
<1>1. /\ Len(b) \in Nat /\ LoginLen \in Nat /\ PreambleLen \in Nat /\ PreambleLen >= 2
      /\ PreambleLen <= LoginLen
    BY SizesAssumption DEF ByteStrings
<1>2. IsPrefix(<<0, 15>>, b)
    BY DEF TeltonikaStart, Hello
<1>3. ~IsPrefix(Zeros(PreambleLen), b)
    <2>1. SUFFICES ASSUME IsPrefix(Zeros(PreambleLen), b) PROVE FALSE
        OBVIOUS
    <2>2. 2 \in 1..Len(Zeros(PreambleLen)) /\ Zeros(PreambleLen) \in ByteStrings
        BY <1>1, Marks
    <2>3. b[2] = Zeros(PreambleLen)[2]
        BY <2>1, <2>2, PrefixElements
    <2>4. Zeros(PreambleLen)[2] = 0
        BY <1>1 DEF Zeros
    <2> QED BY <2>3, <2>4, FirstByte
<1>4. Extract("TELTONIKA", b) = Loop(TeltonikaTurn(b), b, extract_frames)
    BY TeltonikaUnfolds, UnfoldsAt DEF TeltonikaTurns, Extract
<1>5. CASE Len(b) < LoginLen
    <2>1. TeltonikaTurn(b) = Wait
        BY <1>2, <1>3, <1>5 DEF TeltonikaTurn
    <2>2. Extract("TELTONIKA", b) = Extracted(<<>>, b)
        BY <1>4, <2>1 DEF Loop, Wait
    <2> QED BY <1>5, <2>2 DEF Extracted
<1>6. CASE ~(Len(b) < LoginLen)
    <2>1. TeltonikaTurn(b) # Fail
        BY <1>4 DEF Loop, Fail, FramingError
    <2>2. ~(Len(b) < PreambleLen)
        BY <1>1, <1>6
    <2>3. GoodLogin(b)
        BY <1>2, <1>3, <1>6, <2>1, <2>2 DEF TeltonikaTurn
    <2>4. Min({LoginLen, Len(b)}) = LoginLen
        <3>1. \E x \in {LoginLen, Len(b)} : \A y \in {LoginLen, Len(b)} : x <= y
            BY <1>1, <1>6
        <3>2. /\ Min({LoginLen, Len(b)}) \in {LoginLen, Len(b)}
              /\ Min({LoginLen, Len(b)}) <= LoginLen
            BY <3>1 DEF Min
        <3> QED BY <1>1, <1>6, <3>2
    <2> QED BY <2>3, <2>4 DEF GoodLogin, LoginDigits
<1> QED BY <1>5, <1>6

(***************************************************************************)
(* The family chosen from the first read stands: a framer that has returned *)
(* a frame has checked what detect_protocol could not yet see.              *)
(***************************************************************************)
THEOREM DetectionIsRight == Spec => []DetectionStands
<1>1. ASSUME FramingInv, family # None, ~closed
      PROVE  /\ family \in setup.enabled
             /\ \/ Sniff(sent) = family
                \/ Sniff(sent) = None /\ frames = <<>> /\ Len(sent) < LoginLen
    <2>1. /\ family \in Protocols /\ family \in setup.enabled /\ Starts(family, sent)
          /\ sent \in ByteStrings
        BY <1>1 DEF FramingInv, TypeInv
    <2>2. ~Extract(family, sent).error /\ frames = Extract(family, sent).frames
        BY <1>1 DEF FramingInv, FramedAsOneStream
    <2>3. CASE family = "GT06"
        BY <2>1, <2>3, SniffIs DEF Starts
    <2>4. CASE family = "GPS103"
        BY <2>1, <2>4, SniffIs DEF Starts
    <2>5. CASE family = "TELTONIKA"
        <3>1. TeltonikaStart(sent)
            BY <2>1, <2>5 DEF Starts
        <3>2. LoginDigits(sent) \/ (frames = <<>> /\ Len(sent) < LoginLen)
            BY <2>1, <2>2, <2>5, <3>1, FirstLogin
        <3>3. Sniff(sent) \in {"TELTONIKA", None}
            <4>1. ~Gt06Start(sent) /\ ~Gps103Start(sent)
                BY <2>1, <3>1, FirstByte
            <4> QED BY <2>1, <4>1, SniffIs DEF Protocols
        <3> QED BY <2>1, <2>5, <3>1, <3>2, <3>3, SniffIs
    <2> QED BY <2>1, <2>3, <2>4, <2>5 DEF Protocols
<1>2. FramingInv => DetectionStands
    BY <1>1 DEF DetectionStands
<1> QED BY <1>2, FramingInvariant, PTL

\* Bytes that start a sign and are as long as it are the sign.
LEMMA WholePrefix ==
    ASSUME NEW q \in ByteStrings, NEW b \in ByteStrings, Len(q) <= Len(b), IsPrefix(b, q)
    PROVE  IsPrefix(q, b)
<1>1. Len(q) \in Nat /\ Len(b) \in Nat /\ Len(b) <= Len(q)
    BY DEF IsPrefix, ByteStrings
<1>2. Len(q) = Len(b)
    BY <1>1
<1> QED BY <1>2 DEF IsPrefix

\* Five bytes that could still become known are known already.
LEMMA KnownIsSniffed ==
    ASSUME setup \in Setups, NEW b \in ByteStrings, Len(b) >= 5, CouldBecomeKnown(b)
    PROVE  Sniff(b) \in setup.enabled
<1>0. Len(b) \in Nat
    BY DEF ByteStrings
<1>1. Len(b) \in Nat /\ 2 <= Len(b) /\ 5 <= Len(b) /\ Len(b) # 1
    BY <1>0, Len(b) >= 5
<1>2. ASSUME NEW q \in {Short, Long, Hash, Imei}, IsPrefix(q, b) \/ IsPrefix(b, q)
      PROVE  IsPrefix(q, b)
    <2>1. q \in ByteStrings /\ Len(q) \in {2, 5}
        BY Signs
    <2>2. Len(q) <= Len(b)
        <3>1. Len(q) = 2 \/ Len(q) = 5
            BY <2>1
        <3> QED BY <1>1, <3>1
    <2> QED BY <1>2, <2>1, <2>2, WholePrefix
<1>3. ASSUME NEW sig \in Signatures, sig.family \in setup.enabled,
             IsPrefix(sig.bytes, b) \/ IsPrefix(b, sig.bytes)
      PROVE  Sniff(b) \in setup.enabled
    <2>1. \/ sig.family = "GT06" /\ sig.bytes \in {Short, Long}
          \/ sig.family = "GPS103" /\ sig.bytes \in {Hash, Imei}
        BY DEF Signatures, Short, Long, Hash, Imei
    <2>2. IsPrefix(sig.bytes, b)
        BY <1>2, <1>3, <2>1
    <2>3. CASE sig.family = "GT06" /\ sig.bytes \in {Short, Long}
        <3>1. Gt06Start(b)
            BY <2>2, <2>3 DEF Gt06Start
        <3> QED BY <1>3, <2>3, <3>1, SniffIs
    <2>4. CASE sig.family = "GPS103" /\ sig.bytes \in {Hash, Imei}
        <3>1. Gps103Start(b)
            BY <2>2, <2>4 DEF Gps103Start
        <3> QED BY <1>3, <2>4, <3>1, SniffIs
    <2> QED BY <2>1, <2>3, <2>4
<1>4. ASSUME "TELTONIKA" \in setup.enabled, IsPrefix(<<0, 15>>, b) \/ b = << 0 >>,
             \A k \in 3..LoginLen : k <= Len(b) => b[k] \in 48..57
      PROVE  Sniff(b) \in setup.enabled
    <2>1. TeltonikaStart(b)
        <3>1. b # <<0>>
            <4>1. Len(<<0>>) = 1
                OBVIOUS
            <4> QED BY <1>1, <4>1
        <3> QED BY <1>4, <3>1 DEF TeltonikaStart, Hello
    <2>2. LoginLen \in Nat /\ 3 \in Int
        BY SizesAssumption
    <2> DEFINE m == Min({LoginLen, Len(b)})
    <2>3. m \in Nat /\ m <= LoginLen /\ m <= Len(b)
        <3>1. \E x \in {LoginLen, Len(b)} : \A y \in {LoginLen, Len(b)} : x <= y
            BY <1>1, <2>2
        <3> QED BY <1>1, <2>2, <3>1 DEF Min
    <2> HIDE DEF m
    <2>4. ASSUME NEW k \in 3..m PROVE b[k] \in 48..57
        <3>1. k \in 3..LoginLen /\ k <= Len(b)
            BY <1>1, <2>2, <2>3
        <3> QED BY <1>4, <3>1
    <2>5. LoginDigits(b)
        <3>1. SubSeq(b, 3, m) \in Seq(48..57)
            BY <2>2, <2>3, <2>4, SubSeqProperties
        <3> DEFINE t == SubSeq(b, 3, m)
        <3> HIDE DEF t
        <3>2. t \in Seq(48..57)
            BY <3>1 DEF t
        <3>3. \A k \in 1..Len(t) : t[k] \in 48..57
            BY <3>2, ElementOfSeq
        <3> QED BY <3>3 DEF LoginDigits, Digits, t, m
    <2> QED BY <1>4, <2>1, <2>5, SniffIs
<1> QED BY <1>3, <1>4 DEF CouldBecomeKnown

(***************************************************************************)
(* handle_device refuses five bytes or more only if no more bytes could     *)
(* have made them known.                                                    *)
(***************************************************************************)
THEOREM RefusalIsFinal == Spec => RefusedForGood
<1>1. ASSUME FramingInv, [Next]_vars, sent' # sent, closed', family' = None
      PROVE  ~CouldBecomeKnown(sent')
    <2>1. setup \in Setups /\ sent \in ByteStrings /\ buffer \in ByteStrings
        BY <1>1 DEF FramingInv, TypeInv
    <2>2. PICK n \in ReadSizes : \E chunk \in [1..n -> setup.bytes] : Read(chunk)
        BY <1>1 DEF Next, ProbeTimeout, vars
    <2>3. PICK chunk \in [1..n -> setup.bytes] : Read(chunk)
        BY <2>2
    <2> DEFINE b == buffer \o chunk
    <2>4. chunk \in ByteStrings
        BY <2>1, ChunkTyped
    <2>5. b \in ByteStrings
        BY <2>1, <2>4, ConcatTyped
    <2>6. family = None /\ ~closed /\ setup' = setup /\ sent' = sent \o chunk
        BY <1>1, <2>3 DEF Read
    <2>7. sent = buffer
        BY <1>1, <2>6 DEF FramingInv
    <2>8. EnoughToDecide(b) /\ Decide(b)
        BY <1>1, <2>3, <2>6 DEF Read
    <2>9. detect_protocol(b) = None
        BY <1>1, <2>8 DEF Decide
    <2>10. Sniff(b) \notin setup.enabled
        BY <2>1, <2>9, SetupTyped, NoneAssumption DEF detect_protocol
    <2>11. ~CouldBecomeKnown(b)
        BY <2>1, <2>5, <2>8, <2>10, KnownIsSniffed DEF EnoughToDecide
    <2> QED BY <2>6, <2>7, <2>11
<1>2. FramingInv /\ [Next]_vars =>
          [(sent' # sent /\ closed' /\ family' = None) => ~CouldBecomeKnown(sent')]_vars
    BY <1>1
<1> QED BY <1>2, FramingInvariant, PTL DEF Spec, RefusedForGood
-----------------------------------------------------------------------------
(***************************************************************************)
(* parsers/gps103_parser.py: what resolve_utc_timestamp returns, for every  *)
(* date and every time zone.                                                *)
(***************************************************************************)

\* The offset the loops leave lies within half a day, and is changed by whole
\* days only.
LEMMA WrappedWithin ==
    ASSUME NEW d \in Int, -Day < d, d < Day
    PROVE  /\ Wrapped(d) \in Int
           /\ -720 < Wrapped(d) /\ Wrapped(d) <= 720
           /\ \E k \in {-1, 0, 1} : Wrapped(d) = d + k * Day
<1>1. CASE d > 720
    <2>1. Wrapped(d) = d - 1440
        BY <1>1 DEF Wrapped, Day
    <2>2. Wrapped(d) = d + (-1) * Day
        BY <2>1 DEF Day
    <2> QED BY <1>1, <2>1, <2>2 DEF Day
<1>2. CASE d <= -720
    <2>1. Wrapped(d) = d + 1440
        BY <1>2 DEF Wrapped, Day
    <2>2. Wrapped(d) = d + 1 * Day
        BY <2>1 DEF Day
    <2> QED BY <1>2, <2>1, <2>2 DEF Day
<1>3. CASE ~(d > 720) /\ ~(d <= -720)
    <2>1. Wrapped(d) = d
        BY <1>3 DEF Wrapped
    <2>2. Wrapped(d) = d + 0 * Day
        BY <2>1 DEF Day
    <2> QED BY <1>3, <2>1, <2>2
<1> QED BY <1>1, <1>2, <1>3

\* What is left of an offset of at most a day without whole days.
LEMMA DayOffWithin ==
    ASSUME NEW offset \in Int, -Day <= offset, offset <= Day
    PROVE  /\ DayOff(offset) \in Int
           /\ -720 < offset - DayOff(offset) /\ offset - DayOff(offset) <= 720
           /\ \E j \in {-1, 0, 1} : DayOff(offset) = j * 1440
<1>1. CASE offset > 720
    <2>1. DayOff(offset) = 1440
        BY <1>1 DEF DayOff, Day
    <2> QED BY <1>1, <2>1 DEF Day
<1>2. CASE offset <= -720
    <2>1. DayOff(offset) = -1440
        BY <1>2 DEF DayOff, Day
    <2> QED BY <1>2, <2>1 DEF Day
<1>3. CASE ~(offset > 720) /\ ~(offset <= -720)
    <2>1. DayOff(offset) = 0
        BY <1>3 DEF DayOff
    <2> QED BY <1>3, <2>1
<1> QED BY <1>1, <1>2, <1>3

(***************************************************************************)
(* The local clock of a device is at most a day from UTC.  From -11:59 to   *)
(* +12:00 resolve_utc_timestamp returns the very instant, across midnight,  *)
(* month and year; beyond, it is off by exactly one day, forward east of    *)
(* +12:00 and backward from -12:00 on.                                      *)
(***************************************************************************)
THEOREM ResolvesToUtc ==
    ASSUME NEW instant \in Int, NEW offset \in Int, -Day <= offset, offset <= Day
    PROVE  resolve_utc_timestamp(instant + offset, TimeOfDay(instant)) = instant + DayOff(offset)
<1> DEFINE local == instant + offset
           d == TimeOfDay(local) - TimeOfDay(instant)
<1>1. /\ TimeOfDay(local) \in 0..(Day - 1) /\ TimeOfDay(instant) \in 0..(Day - 1)
      /\ d \in Int /\ -Day < d /\ d < Day
    BY DEF TimeOfDay, Day
<1>2. PICK m \in Int : local = TimeOfDay(local) + m * 1440
    <2>1. local = TimeOfDay(local) + (local \div 1440) * 1440
        BY DEF TimeOfDay, Day
    <2> QED BY <2>1
<1>3. PICK n \in Int : instant = TimeOfDay(instant) + n * 1440
    <2>1. instant = TimeOfDay(instant) + (instant \div 1440) * 1440
        BY DEF TimeOfDay, Day
    <2> QED BY <2>1
<1>4. PICK k \in {-1, 0, 1} : Wrapped(d) = d + k * Day
    BY <1>1, WrappedWithin
<1>5. -720 < Wrapped(d) /\ Wrapped(d) <= 720 /\ Wrapped(d) \in Int
    BY <1>1, WrappedWithin
<1>6. offset - Wrapped(d) = (m - n - k) * 1440
    <2>1. k \in Int /\ Wrapped(d) = TimeOfDay(local) - TimeOfDay(instant) + k * 1440
        BY <1>1, <1>4, <1>5 DEF Day
    <2>2. instant + offset = TimeOfDay(local) + m * 1440
        BY <1>2
    <2>3. TimeOfDay(local) \in Int /\ TimeOfDay(instant) \in Int
        BY DEF TimeOfDay, Day
    <2> HIDE DEF local, d
    <2> QED BY <1>3, <1>5, <2>1, <2>2, <2>3
<1>7. PICK j \in {-1, 0, 1} : DayOff(offset) = j * 1440
    BY DayOffWithin
<1>8. /\ DayOff(offset) \in Int
      /\ -720 < offset - DayOff(offset) /\ offset - DayOff(offset) <= 720
    BY DayOffWithin
<1>9. offset = Wrapped(d) + DayOff(offset)
    <2> DEFINE q == m - n - k - j
    <2>1. q \in Int /\ offset - DayOff(offset) - Wrapped(d) = q * 1440
        <3>1. j \in Int /\ k \in Int
            OBVIOUS
        <3> HIDE DEF d
        <3> QED BY <1>5, <1>6, <1>7, <1>8, <3>1
    <2>2. -1440 < offset - DayOff(offset) - Wrapped(d) /\ offset - DayOff(offset) - Wrapped(d) < 1440
        BY <1>5, <1>8
    <2> HIDE DEF q, d
    <2>3. q = 0
        BY <2>1, <2>2, <1>5, <1>8
    <2> QED BY <2>1, <2>3, <1>5, <1>8
<1>10. resolve_utc_timestamp(instant + offset, TimeOfDay(instant)) = (instant + offset) - Wrapped(d)
    BY Zenon DEF resolve_utc_timestamp
<1> HIDE DEF d
<1> QED BY <1>5, <1>8, <1>9, <1>10
-----------------------------------------------------------------------------
(***************************************************************************)
(* Loops over the bytes of a string, as functions of the number of turns.   *)
(***************************************************************************)

\* f[i] is what n turns from x on have made after the i-th, which step[i] is.
Iterates(f, n, x, step) == f = [i \in 0..n |-> IF i = 0 THEN x ELSE step[i][f[i - 1]]]

\* There is such a function, found turn by turn.
LEMMA Iteration ==
    ASSUME NEW n \in Nat, NEW S, NEW x \in S, NEW step \in [1..n -> [S -> S]]
    PROVE  \E f \in [0..n -> S] : Iterates(f, n, x, step)
<1> DEFINE Upto(m) == \E f \in [0..m -> S] : Iterates(f, m, x, step)
           T == {m \in 0..n : ~Upto(m)}
<1>1. SUFFICES ASSUME T # {} PROVE FALSE
    OBVIOUS
<1>2. PICK m \in T : \A k \in T : m <= k
    <2>1. T \in SUBSET Nat
        OBVIOUS
    <2> HIDE DEF T
    <2> QED BY <1>1, <2>1, LeastElement
<1>3. Upto(0)
    <2> DEFINE f == [i \in 0..0 |-> x]
    <2>1. f \in [0..0 -> S]
        OBVIOUS
    <2>2. Iterates(f, 0, x, step)
        BY DEF Iterates
    <2> HIDE DEF f
    <2> QED BY <2>1, <2>2
<1>4. m \in Nat /\ m # 0 /\ m - 1 \in 0..n /\ m \in 1..n
    <2>1. m \in 0..n /\ ~Upto(m)
        OBVIOUS
    <2> HIDE DEF Upto
    <2>2. m # 0
        BY <1>3, <2>1
    <2> QED BY <2>1, <2>2
<1>5. Upto(m - 1)
    BY <1>2, <1>4
<1>6. PICK f \in [0..(m - 1) -> S] : Iterates(f, m - 1, x, step)
    BY <1>5
<1> DEFINE v == step[m][f[m - 1]]
           g == [i \in 0..m |-> IF i = m THEN v ELSE f[i]]
<1>7. v \in S
    BY <1>4, <1>6
<1>8. g \in [0..m -> S]
    BY <1>4, <1>6, <1>7
<1>9. ASSUME NEW i \in 0..m PROVE g[i] = IF i = 0 THEN x ELSE step[i][g[i - 1]]
    <2>1. CASE i = m
        <3>1. g[i] = v /\ g[m - 1] = f[m - 1] /\ i # 0
            BY <2>1, <1>4
        <3> HIDE DEF g
        <3> QED BY <2>1, <3>1
    <2>2. CASE i # m
        <3>1. i \in 0..(m - 1)
            BY <1>4, <2>2
        <3>2. f[i] = IF i = 0 THEN x ELSE step[i][f[i - 1]]
            BY <1>6, <3>1 DEF Iterates
        <3>3. g[i] = f[i] /\ (i # 0 => g[i - 1] = f[i - 1])
            BY <1>4, <2>2, <3>1
        <3> HIDE DEF g
        <3> QED BY <3>2, <3>3
    <2> QED BY <2>1, <2>2
<1>10. Iterates(g, m, x, step)
    <2> HIDE DEF v
    <2>1. g = [i \in 0..m |-> g[i]]
        OBVIOUS
    <2> HIDE DEF g
    <2> QED BY <1>9, <2>1 DEF Iterates
<1> HIDE DEF g, v
<1>11. Upto(m)
    BY <1>8, <1>10
<1> QED BY <1>2, <1>11
-----------------------------------------------------------------------------
(***************************************************************************)
(* Numbers and their bytes.                                                 *)
(***************************************************************************)

\* One byte more of a number.
NextByte(n, byte) == IF n > MaxPrefix THEN n ELSE 256 * n + byte

\* A step of int.from_bytes gives a number.
LEMMA NextByteNat ==
    ASSUME NEW n \in Nat, NEW byte \in 0..255
    PROVE  NextByte(n, byte) \in Nat
<1>1. 256 * n + byte \in Nat
    OBVIOUS
<1> QED BY <1>1 DEF NextByte

\* A number is read byte by byte.
LEMMA BigEndianSteps ==
    ASSUME NEW b \in ByteStrings
    PROVE  \E f \in [0..Len(b) -> Nat] :
              /\ BigEndian(b) = f[Len(b)] /\ f[0] = 0
              /\ \A i \in 1..Len(b) : f[i] = NextByte(f[i - 1], b[i])
<1> DEFINE step == [i \in 1..Len(b) |-> [n \in Nat |-> NextByte(n, b[i])]]
           F == CHOOSE f : f = [i \in 0..Len(b) |->
                    IF i = 0 THEN 0
                    ELSE IF f[i - 1] > MaxPrefix THEN f[i - 1] ELSE 256 * f[i - 1] + b[i]]
<1>1. Len(b) \in Nat /\ \A i \in 1..Len(b) : b[i] \in 0..255
    BY ByteAt DEF ByteStrings
<1>2. ASSUME NEW i \in 1..Len(b), NEW n \in Nat PROVE NextByte(n, b[i]) \in Nat
    <2>1. b[i] \in 0..255
        BY <1>1
    <2> QED BY <2>1, NextByteNat
<1>3. step \in [1..Len(b) -> [Nat -> Nat]]
    <2>1. ASSUME NEW i \in 1..Len(b) PROVE [n \in Nat |-> NextByte(n, b[i])] \in [Nat -> Nat]
        BY <1>2
    <2> QED BY <2>1
<1>4. PICK f \in [0..Len(b) -> Nat] : Iterates(f, Len(b), 0, step)
    <2>1. 0 \in Nat
        OBVIOUS
    <2> HIDE DEF step
    <2> QED BY <1>1, <1>3, <2>1, Iteration
<1>5. ASSUME NEW i \in 0..Len(b)
      PROVE  f[i] = IF i = 0 THEN 0 ELSE NextByte(f[i - 1], b[i])
    <2>1. f[i] = IF i = 0 THEN 0 ELSE step[i][f[i - 1]]
        <3> HIDE DEF step
        <3> QED BY <1>4 DEF Iterates
    <2>2. i # 0 => i \in 1..Len(b) /\ f[i - 1] \in Nat
        BY <1>1
    <2> QED BY <2>1, <2>2
<1>6. f = [i \in 0..Len(b) |-> IF i = 0 THEN 0
                    ELSE IF f[i - 1] > MaxPrefix THEN f[i - 1] ELSE 256 * f[i - 1] + b[i]]
    BY <1>5 DEF NextByte
<1>7. F = [i \in 0..Len(b) |-> IF i = 0 THEN 0
                    ELSE IF F[i - 1] > MaxPrefix THEN F[i - 1] ELSE 256 * F[i - 1] + b[i]]
    BY <1>6, ZenonT(60)
<1>8. BigEndian(b) = F[Len(b)]
    BY DEF BigEndian
<1> HIDE DEF F
<1>9. ASSUME NEW i \in 0..Len(b) PROVE F[i] = IF i = 0 THEN 0 ELSE NextByte(F[i - 1], b[i])
    BY <1>7 DEF NextByte
<1>10. ASSUME NEW i \in 0..Len(b) PROVE F[i] = f[i]
    <2> DEFINE T == {k \in 0..Len(b) : F[k] # f[k]}
    <2>1. SUFFICES ASSUME T # {} PROVE FALSE
        OBVIOUS
    <2>2. PICK k \in T : \A l \in T : k <= l
        <3>1. T \in SUBSET Nat
            OBVIOUS
        <3> HIDE DEF T
        <3> QED BY <2>1, <3>1, LeastElement
    <2>3. k # 0
        BY <1>1, <1>5, <1>9
    <2>4. k \in 1..Len(b) /\ k - 1 \in 0..Len(b) /\ k - 1 \notin T
        BY <1>1, <2>2, <2>3
    <2>5. F[k - 1] = f[k - 1]
        BY <2>4
    <2> QED BY <1>5, <1>9, <2>3, <2>5
<1>11. \A i \in 1..Len(b) : f[i] = NextByte(f[i - 1], b[i])
    BY <1>1, <1>5
<1> QED BY <1>1, <1>5, <1>8, <1>10, <1>11, SMTT(40)

\* Numbers of two, three and four bytes.
TwoBytes(a, b) == 256 * a + b

ThreeBytes(a, b, c) == 256 * TwoBytes(a, b) + c

FourBytes(a, b, c, d) == 256 * ThreeBytes(a, b, c) + d

\* The first four steps.
LEMMA FirstByteIs ==
    ASSUME NEW a \in 0..255
    PROVE  NextByte(0, a) = a
BY SMT DEF NextByte, MaxPrefix

\* Its second step.
LEMMA SecondByteIs ==
    ASSUME NEW a \in 0..255, NEW b \in 0..255
    PROVE  NextByte(a, b) = TwoBytes(a, b)
BY SMT DEF NextByte, MaxPrefix, TwoBytes

\* Its third step.
LEMMA ThirdByteIs ==
    ASSUME NEW a \in 0..255, NEW b \in 0..255, NEW c \in 0..255
    PROVE  NextByte(TwoBytes(a, b), c) = ThreeBytes(a, b, c)
BY SMT DEF NextByte, MaxPrefix, TwoBytes, ThreeBytes

\* Its fourth step, while the number stays within TLC's integers.
LEMMA FourthByteIs ==
    ASSUME NEW a \in 0..127, NEW b \in 0..255, NEW c \in 0..255, NEW d \in 0..255
    PROVE  NextByte(ThreeBytes(a, b, c), d) = FourBytes(a, b, c, d)
BY SMT DEF NextByte, MaxPrefix, TwoBytes, ThreeBytes, FourBytes

\* Beyond them the number stays what it is.
LEMMA NoFourthByte ==
    ASSUME NEW a \in 0..255, NEW b \in 0..255, NEW c \in 0..255, NEW d \in 0..255, a > 127
    PROVE  NextByte(ThreeBytes(a, b, c), d) = ThreeBytes(a, b, c)
BY SMT DEF NextByte, MaxPrefix, TwoBytes, ThreeBytes

\* A first byte without its top bit.
LEMMA SmallByte ==
    ASSUME NEW a \in 0..255, a <= 127
    PROVE  a \in 0..127
OBVIOUS

\* One to four bytes; a number from 2^31 on is cut off.
LEMMA BigEndianIs ==
    ASSUME NEW b \in ByteStrings
    PROVE  /\ Len(b) = 1 => BigEndian(b) = b[1]
           /\ Len(b) = 2 => BigEndian(b) = TwoBytes(b[1], b[2])
           /\ Len(b) = 3 => BigEndian(b) = ThreeBytes(b[1], b[2], b[3])
           /\ (Len(b) = 4 /\ b[1] <= 127) => BigEndian(b) = FourBytes(b[1], b[2], b[3], b[4])
           /\ (Len(b) = 4 /\ b[1] > 127) => BigEndian(b) = ThreeBytes(b[1], b[2], b[3])
<1>1. PICK f \in [0..Len(b) -> Nat] :
         /\ BigEndian(b) = f[Len(b)] /\ f[0] = 0
         /\ \A i \in 1..Len(b) : f[i] = NextByte(f[i - 1], b[i])
    BY BigEndianSteps
<1>2. \A i \in 1..Len(b) : b[i] \in 0..255
    BY ByteAt
<1>3. Len(b) \in Nat
    BY DEF ByteStrings
<1>4. /\ Len(b) >= 1 => f[1] = NextByte(f[0], b[1]) /\ b[1] \in 0..255
      /\ Len(b) >= 2 => f[2] = NextByte(f[1], b[2]) /\ b[2] \in 0..255
      /\ Len(b) >= 3 => f[3] = NextByte(f[2], b[3]) /\ b[3] \in 0..255
      /\ Len(b) >= 4 => f[4] = NextByte(f[3], b[4]) /\ b[4] \in 0..255
    BY <1>1, <1>2, <1>3
<1>5. /\ Len(b) >= 4 => Len(b) >= 3
      /\ Len(b) >= 3 => Len(b) >= 2
      /\ Len(b) >= 2 => Len(b) >= 1
    BY <1>3
<1>6. Len(b) >= 1 => f[1] = b[1]
    BY <1>1, <1>4, FirstByteIs, Zenon
<1>7. Len(b) >= 2 => f[2] = TwoBytes(b[1], b[2])
    BY <1>4, <1>5, <1>6, SecondByteIs, Zenon
<1>8. Len(b) >= 3 => f[3] = ThreeBytes(b[1], b[2], b[3])
    <2>1. SUFFICES ASSUME Len(b) >= 3 PROVE f[3] = ThreeBytes(b[1], b[2], b[3])
        OBVIOUS
    <2>2. b[1] \in 0..255 /\ b[2] \in 0..255 /\ b[3] \in 0..255
        BY <1>4, <1>5, <2>1, Zenon
    <2>3. f[3] = NextByte(TwoBytes(b[1], b[2]), b[3])
        BY <1>4, <1>5, <1>7, <2>1, Zenon
    <2>4. NextByte(TwoBytes(b[1], b[2]), b[3]) = ThreeBytes(b[1], b[2], b[3])
        BY ONLY <2>2, ThirdByteIs, Zenon
    <2> QED BY ONLY <2>3, <2>4, Zenon
<1>9. (Len(b) >= 4 /\ b[1] <= 127) => f[4] = FourBytes(b[1], b[2], b[3], b[4])
    <2>1. SUFFICES ASSUME Len(b) >= 4, b[1] <= 127 PROVE f[4] = FourBytes(b[1], b[2], b[3], b[4])
        OBVIOUS
    <2>2. b[1] \in 0..255 /\ b[2] \in 0..255 /\ b[3] \in 0..255 /\ b[4] \in 0..255
        BY <1>4, <1>5, <2>1, Zenon
    <2>3. f[4] = NextByte(ThreeBytes(b[1], b[2], b[3]), b[4])
        BY <1>4, <1>5, <1>8, <2>1, Zenon
    <2>4. b[1] \in 0..127
        BY <2>1, <2>2, SmallByte, ZenonT(60)
    <2>5. NextByte(ThreeBytes(b[1], b[2], b[3]), b[4]) = FourBytes(b[1], b[2], b[3], b[4])
        BY ONLY <2>2, <2>4, FourthByteIs, ZenonT(60)
    <2> QED BY ONLY <2>3, <2>5, Zenon
<1>11. (Len(b) >= 4 /\ b[1] > 127) => f[4] = ThreeBytes(b[1], b[2], b[3])
    <2>1. SUFFICES ASSUME Len(b) >= 4, b[1] > 127 PROVE f[4] = ThreeBytes(b[1], b[2], b[3])
        OBVIOUS
    <2>2. b[1] \in 0..255 /\ b[2] \in 0..255 /\ b[3] \in 0..255 /\ b[4] \in 0..255
        BY <1>4, <1>5, <2>1, Zenon
    <2>3. f[4] = NextByte(ThreeBytes(b[1], b[2], b[3]), b[4])
        BY <1>4, <1>5, <1>8, <2>1, Zenon
    <2>4. NextByte(ThreeBytes(b[1], b[2], b[3]), b[4]) = ThreeBytes(b[1], b[2], b[3])
        BY ONLY <2>1, <2>2, NoFourthByte, ZenonT(60)
    <2> QED BY ONLY <2>3, <2>4, Zenon
<1>10. /\ Len(b) = 1 => Len(b) >= 1
       /\ Len(b) = 2 => Len(b) >= 2
       /\ Len(b) = 3 => Len(b) >= 3
       /\ Len(b) = 4 => Len(b) >= 4
    OBVIOUS
<1> QED BY <1>1, <1>6, <1>7, <1>8, <1>9, <1>10, <1>11, Zenon

\* The last byte of a quotient.
LEMMA LowByte ==
    ASSUME NEW n \in Nat, NEW d \in {1, 256, 65536, 16777216}
    PROVE  (n \div d) % 256 \in 0..255
<1>1. n \div d \in Nat
    BY SMT
<1>2. ASSUME NEW q \in Nat PROVE q % 256 \in 0..255
    BY SMT
<1> QED BY <1>1, <1>2

\* The bytes of a number are as many as they should be.
LEMMA BytesSize ==
    ASSUME NEW n \in Nat, NEW w \in {1, 2, 3, 4}
    PROVE  Bytes(n, w) \in ByteStrings /\ Len(Bytes(n, w)) = w
<1>1. ASSUME NEW k \in 1..w
      PROVE  (n \div PowersOf256[w - k + 1]) % 256 \in 0..255
    <2>1. w - k + 1 \in {1, 2, 3, 4}
        BY SMT
    <2>2. PowersOf256[w - k + 1] \in {1, 256, 65536, 16777216}
        BY <2>1, SMT DEF PowersOf256
    <2> QED BY <2>2, LowByte
<1>2. Bytes(n, w) \in [1..w -> 0..255]
    BY <1>1 DEF Bytes
<1>3. w \in Nat
    OBVIOUS
<1> QED BY <1>2, <1>3 DEF ByteStrings

\* A number from its digits to the base 256.
LEMMA Base256 ==
    ASSUME NEW n \in Nat
    PROVE  /\ n = 256 * (n \div 256) + (n % 256)
           /\ n \div 256 = 256 * (n \div 65536) + ((n \div 256) % 256)
           /\ n \div 65536 = 256 * (n \div 16777216) + ((n \div 65536) % 256)
           /\ {n % 256, n \div 256, n \div 65536, n \div 16777216} \subseteq Nat
           /\ n < 256 => n % 256 = n
           /\ n < 65536 => (n \div 256) % 256 = n \div 256
           /\ n < 16777216 => (n \div 65536) % 256 = n \div 65536
           /\ n < 2147483648 => n \div 16777216 <= 127 /\ (n \div 16777216) % 256 = n \div 16777216
<1>1. n = 256 * (n \div 256) + (n % 256) /\ n % 256 \in Nat /\ n \div 256 \in Nat
    BY SMT
<1>2. n \div 256 = 256 * (n \div 65536) + ((n \div 256) % 256) /\ n \div 65536 \in Nat
    BY SMT
<1>3. n \div 65536 = 256 * (n \div 16777216) + ((n \div 65536) % 256) /\ n \div 16777216 \in Nat
    BY SMT
<1>4. n < 256 => n % 256 = n
    BY SMT
<1>5. n < 65536 => (n \div 256) % 256 = n \div 256
    BY SMT
<1>6. n < 16777216 => (n \div 65536) % 256 = n \div 65536
    BY SMT
<1>7. n < 2147483648 => n \div 16777216 <= 127 /\ (n \div 16777216) % 256 = n \div 16777216
    BY SMT
<1> QED BY <1>1, <1>2, <1>3, <1>4, <1>5, <1>6, <1>7, SMT

\* What a number is, read from its bytes.
LEMMA BytesAreRead ==
    ASSUME NEW n \in Nat
    PROVE  /\ n < 256 => BigEndian(Bytes(n, 1)) = n
           /\ n < 65536 => BigEndian(Bytes(n, 2)) = n
           /\ n < 16777216 => BigEndian(Bytes(n, 3)) = n
           /\ n < 2147483648 => BigEndian(Bytes(n, 4)) = n
<1> DEFINE a == n % 256
           b == (n \div 256) % 256
           c == (n \div 65536) % 256
           d == (n \div 16777216) % 256
<1>0. /\ PowersOf256[1] = 1 /\ PowersOf256[2] = 256
      /\ PowersOf256[3] = 65536 /\ PowersOf256[4] = 16777216 /\ n \div 1 = n
    BY SMT DEF PowersOf256
<1>1. BigEndian(Bytes(n, 1)) = a
    <2>1. Bytes(n, 1)[1] = a
        BY <1>0, SMT DEF Bytes
    <2>2. Bytes(n, 1) \in ByteStrings /\ Len(Bytes(n, 1)) = 1
        BY BytesSize
    <2> HIDE DEF a, b, c, d
    <2> QED BY <2>1, <2>2, BigEndianIs, Zenon
<1>2. BigEndian(Bytes(n, 2)) = TwoBytes(b, a)
    <2>1. Bytes(n, 2)[1] = b /\ Bytes(n, 2)[2] = a
        BY <1>0, SMT DEF Bytes
    <2>2. Bytes(n, 2) \in ByteStrings /\ Len(Bytes(n, 2)) = 2
        BY BytesSize
    <2> HIDE DEF a, b, c, d
    <2> QED BY <2>1, <2>2, BigEndianIs, Zenon
<1>3. BigEndian(Bytes(n, 3)) = ThreeBytes(c, b, a)
    <2>1. Bytes(n, 3)[1] = c /\ Bytes(n, 3)[2] = b /\ Bytes(n, 3)[3] = a
        BY <1>0, SMT DEF Bytes
    <2>2. Bytes(n, 3) \in ByteStrings /\ Len(Bytes(n, 3)) = 3
        BY BytesSize
    <2> HIDE DEF a, b, c, d
    <2> QED BY <2>1, <2>2, BigEndianIs, Zenon
<1>4. d <= 127 => BigEndian(Bytes(n, 4)) = FourBytes(d, c, b, a)
    <2>1. Bytes(n, 4)[1] = d /\ Bytes(n, 4)[2] = c /\ Bytes(n, 4)[3] = b /\ Bytes(n, 4)[4] = a
        BY <1>0, SMT DEF Bytes
    <2>2. Bytes(n, 4) \in ByteStrings /\ Len(Bytes(n, 4)) = 4
        BY BytesSize
    <2> HIDE DEF a, b, c, d
    <2> QED BY <2>1, <2>2, BigEndianIs, Zenon
<1>5. /\ n = 256 * (n \div 256) + a
      /\ n \div 256 = 256 * (n \div 65536) + b
      /\ n \div 65536 = 256 * (n \div 16777216) + c
      /\ {a, n \div 256, n \div 65536, n \div 16777216} \subseteq Nat
      /\ n < 256 => a = n
      /\ n < 65536 => b = n \div 256
      /\ n < 16777216 => c = n \div 65536
      /\ n < 2147483648 => n \div 16777216 <= 127 /\ d = n \div 16777216
    BY Base256, SMT
<1> HIDE DEF a, b, c, d
<1> DEFINE q1 == n \div 256
           q2 == n \div 65536
           q3 == n \div 16777216
<1> HIDE DEF q1, q2, q3
<1>6. /\ n = 256 * q1 + a /\ q1 = 256 * q2 + b /\ q2 = 256 * q3 + c
      /\ {a, q1, q2, q3} \subseteq Nat
      /\ n < 256 => a = n
      /\ n < 65536 => b = q1
      /\ n < 16777216 => c = q2
      /\ n < 2147483648 => q3 <= 127 /\ d = q3
    BY <1>5, SMT DEF q1, q2, q3
<1>7. n < 256 => BigEndian(Bytes(n, 1)) = n
    BY ONLY <1>1, <1>6, SMT
<1>8. n < 65536 => BigEndian(Bytes(n, 2)) = n
    BY ONLY <1>2, <1>6, SMT DEF TwoBytes
<1>9. n < 16777216 => BigEndian(Bytes(n, 3)) = n
    <2>1. n < 16777216 => ThreeBytes(c, b, a) = n
        BY ONLY <1>6, SMT DEF TwoBytes, ThreeBytes
    <2> QED BY <1>3, <2>1, SMT
<1>10. n < 2147483648 => BigEndian(Bytes(n, 4)) = n
    <2>1. n < 2147483648 => d <= 127 /\ FourBytes(d, c, b, a) = n
        BY ONLY <1>6, SMT DEF TwoBytes, ThreeBytes, FourBytes
    <2> QED BY <1>4, <2>1, SMT
<1> QED BY <1>7, <1>8, <1>9, <1>10, SMT

\* Induction over the turns of a loop: T holds those of which the claim is true.
LEMMA Upwards ==
    ASSUME NEW n \in Nat, NEW T, 0 \in T, \A i \in 1..n : i - 1 \in T => i \in T
    PROVE  \A i \in 0..n : i \in T
<1> DEFINE Bad == {i \in 0..n : i \notin T}
<1>1. SUFFICES ASSUME Bad # {} PROVE FALSE
    OBVIOUS
<1>2. PICK k \in Bad : \A l \in Bad : k <= l
    <2>1. Bad \in SUBSET Nat
        OBVIOUS
    <2> HIDE DEF Bad
    <2> QED BY <1>1, <2>1, LeastElement
<1>3. k \in 1..n /\ k - 1 \in 0..n /\ k - 1 \notin Bad
    BY <1>2
<1> QED BY <1>3

\* Induction from the end of an interval to its start.
LEMMA Downwards ==
    ASSUME NEW n \in Nat, NEW T, n + 1 \in T, \A i \in 1..n : i + 1 \in T => i \in T
    PROVE  \A i \in 1..(n + 1) : i \in T
<1> DEFINE U == {i \in 0..n : n + 1 - i \in T}
<1>1. 0 \in U
    OBVIOUS
<1>2. ASSUME NEW i \in 1..n, i - 1 \in U PROVE i \in U
    <2>1. n + 1 - i \in 1..n /\ (n + 1 - i) + 1 = n + 1 - (i - 1)
        OBVIOUS
    <2>2. n + 1 - (i - 1) \in T
        BY <1>2
    <2> QED BY <2>1, <2>2
<1>3. \A i \in 0..n : i \in U
    <2> HIDE DEF U
    <2> QED BY <1>1, <1>2, Upwards
<1>4. ASSUME NEW i \in 1..(n + 1) PROVE i \in T
    <2>1. n + 1 - i \in 0..n /\ n + 1 - (n + 1 - i) = i
        OBVIOUS
    <2>2. n + 1 - i \in U
        BY <1>3, <2>1
    <2> QED BY <2>1, <2>2
<1> QED BY <1>4

\* The same loop, counted down from x.
IsLoop(n, S, x, step) == n \in Nat /\ x \in S /\ step \in [1..n -> [S -> S]]

CountsDown(f, n, S, x, step) ==
    /\ f \in [1..(n + 1) -> S]
    /\ f[n + 1] = x
    /\ \A i \in 1..n : f[i] = step[i][f[i + 1]]

\* A loop that counts down computes what its steps say.
LEMMA DownwardIteration ==
    ASSUME NEW n, NEW S, NEW x, NEW step, IsLoop(n, S, x, step)
    PROVE  \E f : CountsDown(f, n, S, x, step)
<1>0. n \in Nat /\ x \in S /\ step \in [1..n -> [S -> S]]
    BY DEF IsLoop
<1> DEFINE back == [i \in 1..n |-> step[n + 1 - i]]
<1>1. back \in [1..n -> [S -> S]]
    <2>1. ASSUME NEW i \in 1..n PROVE step[n + 1 - i] \in [S -> S]
        <3>1. n + 1 - i \in 1..n
            BY <1>0
        <3> QED BY <1>0, <3>1
    <2> QED BY <2>1
<1>2. PICK g \in [0..n -> S] : Iterates(g, n, x, back)
    <2> HIDE DEF back
    <2> QED BY <1>0, <1>1, Iteration
<1> DEFINE f == [i \in 1..(n + 1) |-> g[n + 1 - i]]
<1>3. f \in [1..(n + 1) -> S]
    <2>1. ASSUME NEW i \in 1..(n + 1) PROVE g[n + 1 - i] \in S
        <3>1. n + 1 - i \in 0..n
            BY <1>0
        <3> QED BY <3>1
    <2> QED BY <2>1
<1>4. ASSUME NEW i \in 0..n PROVE g[i] = IF i = 0 THEN x ELSE back[i][g[i - 1]]
    <2> HIDE DEF back
    <2> QED BY <1>2 DEF Iterates
<1>5. f[n + 1] = x
    <2>1. n + 1 \in 1..(n + 1) /\ n + 1 - (n + 1) = 0 /\ 0 \in 0..n
        BY <1>0
    <2>2. g[0] = x
        BY <1>4, <2>1
    <2>3. f[n + 1] = g[n + 1 - (n + 1)]
        BY <2>1
    <2> HIDE DEF f
    <2> QED BY <2>1, <2>2, <2>3
<1>6. ASSUME NEW i \in 1..n PROVE f[i] = step[i][f[i + 1]]
    <2> DEFINE j == n + 1 - i
    <2>1. j \in 0..n /\ j \in 1..n /\ j # 0 /\ n + 1 - j = i /\ i \in 1..(n + 1) /\ i + 1 \in 1..(n + 1)
          /\ n + 1 - (i + 1) = j - 1
        BY <1>0
    <2>2. f[i] = g[j] /\ f[i + 1] = g[j - 1]
        BY <2>1
    <2>3. back[j] = step[i]
        BY <2>1
    <2> HIDE DEF j, f, back
    <2> QED BY <1>4, <2>1, <2>2, <2>3
<1> HIDE DEF f
<1> QED BY <1>3, <1>5, <1>6 DEF CountsDown
-----------------------------------------------------------------------------
(***************************************************************************)
(* Checksums.                                                               *)
(***************************************************************************)

\* Eight bits and their number.
LEMMA OctetInjective ==
    ASSUME NEW a, NEW b, NEW k, Octet(a, k) = Octet(b, k)
    PROVE  /\ k \in a <=> k \in b
           /\ \A j \in 1..7 : k + j \in a <=> k + j \in b
BY SMT DEF Octet, If

\* Eight bits are a byte.
LEMMA OctetRange ==
    ASSUME NEW a, NEW k
    PROVE  Octet(a, k) \in 0..255
BY SMT DEF Octet, If

\* The bits of a register are told apart by its number.
LEMMA NumberInjective ==
    ASSUME NEW a \in Registers, NEW b \in Registers, Number(a) = Number(b)
    PROVE  a = b
<1>1. TwoBytes(Octet(a, 8), Octet(a, 0)) = TwoBytes(Octet(b, 8), Octet(b, 0))
    BY DEF Number, TwoBytes
<1>2. Octet(a, 8) = Octet(b, 8) /\ Octet(a, 0) = Octet(b, 0)
    <2> DEFINE x == Octet(a, 8)
               y == Octet(a, 0)
               u == Octet(b, 8)
               v == Octet(b, 0)
    <2>1. /\ Octet(a, 8) \in 0..255 /\ Octet(b, 8) \in 0..255
          /\ Octet(a, 0) \in 0..255 /\ Octet(b, 0) \in 0..255
        BY OctetRange, Zenon
    <2>2. x \in 0..255 /\ y \in 0..255 /\ u \in 0..255 /\ v \in 0..255 /\ TwoBytes(x, y) = TwoBytes(u, v)
        BY <1>1, <2>1, Zenon
    <2> HIDE DEF x, y, u, v
    <2>3. x = u /\ y = v
        BY ONLY <2>2 DEF TwoBytes
    <2> QED BY <2>3 DEF x, y, u, v
<1>3. ASSUME NEW j \in 0..7 PROVE j \in a <=> j \in b
    BY <1>2, OctetInjective
<1>4. ASSUME NEW j \in 8..15 PROVE j \in a <=> j \in b
    <2>1. j = 8 \/ (j - 8 \in 1..7 /\ 8 + (j - 8) = j)
        OBVIOUS
    <2> QED BY <1>2, <2>1, OctetInjective
<1>5. ASSUME NEW j \in 0..15 PROVE j \in a <=> j \in b
    <2>1. j \in 0..7 \/ j \in 8..15
        OBVIOUS
    <2> QED BY <1>3, <1>4, <2>1
<1> QED BY <1>5 DEF Registers

\* A checksum fits two bytes, and one byte does if there are no bits above it.
LEMMA NumberRange ==
    ASSUME NEW a \in Registers
    PROVE  Number(a) \in Nat /\ Number(a) < 65536 /\ (a \subseteq 0..7 => Number(a) \in 0..255)
<1>1. Octet(a, 8) \in 0..255 /\ Octet(a, 0) \in 0..255
    BY OctetRange, Zenon
<1>2. a \subseteq 0..7 => Octet(a, 8) = 0
    BY DEF Octet, If
<1>4. Number(a) \in Nat /\ Number(a) < 65536
    <2>1. ASSUME NEW x \in 0..255, NEW y \in 0..255 PROVE 256 * x + y \in Nat /\ 256 * x + y < 65536
        BY SMT
    <2> DEFINE x == Octet(a, 8)
               y == Octet(a, 0)
    <2>2. x \in 0..255 /\ y \in 0..255 /\ Number(a) = 256 * x + y
        BY <1>1 DEF Number
    <2> HIDE DEF x, y
    <2> QED BY ONLY <2>1, <2>2, SMT
<1>3. a \subseteq 0..7 => Number(a) = Octet(a, 0)
    BY ONLY <1>1, <1>2 DEF Number
<1> QED BY <1>1, <1>3, <1>4, SMT

\* The bits of a byte.
LEMMA BitSetIs ==
    ASSUME NEW n \in 0..255
    PROVE  BitSet(n) \in Registers /\ BitSet(n) \subseteq 0..7 /\ Number(BitSet(n)) = n
<1>1. BitSet(n) \subseteq 0..7
    BY DEF BitSet
<1>2. BitSet(n) \in Registers
    BY <1>1 DEF Registers
<1>3. /\ 0 \in BitSet(n) <=> n % 2 = 1
      /\ 1 \in BitSet(n) <=> (n \div 2) % 2 = 1
      /\ 2 \in BitSet(n) <=> (n \div 4) % 2 = 1
      /\ 3 \in BitSet(n) <=> (n \div 8) % 2 = 1
      /\ 4 \in BitSet(n) <=> (n \div 16) % 2 = 1
      /\ 5 \in BitSet(n) <=> (n \div 32) % 2 = 1
      /\ 6 \in BitSet(n) <=> (n \div 64) % 2 = 1
      /\ 7 \in BitSet(n) <=> (n \div 128) % 2 = 1
    BY SMT DEF BitSet, Bit
<1>4. Octet(BitSet(n), 8) = 0
    BY ONLY <1>1, SMT DEF Octet, If
<1>5. Octet(BitSet(n), 0) = n
    BY ONLY <1>3, SMT DEF Octet, If
<1> QED BY <1>1, <1>2, <1>4, <1>5 DEF Number

\* A changed byte is a byte, and another one.
LEMMA ByteChanged ==
    ASSUME NEW n \in 0..255, NEW mask \in 1..255
    PROVE  /\ Number(Xor(BitSet(n), BitSet(mask))) \in 0..255
           /\ Number(Xor(BitSet(n), BitSet(mask))) # n
<1>1. /\ BitSet(n) \in Registers /\ BitSet(n) \subseteq 0..7 /\ Number(BitSet(n)) = n
      /\ BitSet(mask) \in Registers /\ BitSet(mask) \subseteq 0..7 /\ Number(BitSet(mask)) = mask
    BY BitSetIs
<1>2. Xor(BitSet(n), BitSet(mask)) \subseteq 0..7
    BY <1>1 DEF Xor
<1>3. Xor(BitSet(n), BitSet(mask)) \in Registers
    BY <1>2 DEF Registers
<1>4. {} \in Registers /\ Number({}) = 0
    BY DEF Registers, Number, Octet, If
<1>5. BitSet(mask) # {}
    BY <1>1, <1>4
<1>6. Xor(BitSet(n), BitSet(mask)) # BitSet(n)
    BY <1>5 DEF Xor
<1>7. Number(Xor(BitSet(n), BitSet(mask))) # Number(BitSet(n))
    BY <1>1, <1>3, <1>6, NumberInjective
<1> QED BY <1>1, <1>2, <1>3, <1>7, NumberRange
-----------------------------------------------------------------------------
\* The bits of a register that has been shifted.
LEMMA ShiftBits ==
    ASSUME NEW a \in Registers, NEW p \in Registers
    PROVE  /\ Shift(a, p) \in Registers
           /\ \A j \in 0..15 : j \in Shift(a, p) <=>
                 (j + 1 \in a) # (0 \in a /\ j \in p)
<1> DEFINE shifted == {k - 1 : k \in a \ {0}}
<1>1. ASSUME NEW j PROVE j \in shifted <=> (j \in 0..15 /\ j + 1 \in a)
    <2>1. ASSUME j \in shifted PROVE j \in 0..15 /\ j + 1 \in a
        <3>1. PICK k \in a \ {0} : j = k - 1
            BY <2>1
        <3>2. k \in 0..15
            BY DEF Registers
        <3>3. j + 1 = k /\ j \in 0..15
            BY <3>1, <3>2
        <3> QED BY <3>1, <3>3
    <2>2. ASSUME j \in 0..15, j + 1 \in a PROVE j \in shifted
        <3>1. j + 1 \in a \ {0} /\ j = (j + 1) - 1
            BY <2>2
        <3> QED BY <3>1
    <2> QED BY <2>1, <2>2
<1>2. Shift(a, p) = IF 0 \in a THEN Xor(shifted, p) ELSE shifted
    BY DEF Shift
<1> HIDE DEF shifted
<1>3. shifted \subseteq 0..15
    BY <1>1
<1>4. Shift(a, p) \in Registers
    BY <1>2, <1>3 DEF Registers, Xor
<1>5. ASSUME NEW j \in 0..15 PROVE j \in Shift(a, p) <=> (j + 1 \in a) # (0 \in a /\ j \in p)
    <2>1. CASE 0 \in a
        <3>1. j \in Shift(a, p) <=> (j \in shifted /\ j \notin p) \/ (j \in p /\ j \notin shifted)
            BY <1>2, <2>1 DEF Xor
        <3> QED BY <1>1, <2>1, <3>1
    <2>2. CASE 0 \notin a
        BY <1>1, <1>2, <2>2
    <2> QED BY <2>1, <2>2
<1> QED BY <1>4, <1>5

\* Shifts lose nothing: the highest bit tells whether the polynomial was applied.
LEMMA ShiftInjective ==
    ASSUME NEW a \in Registers, NEW b \in Registers, NEW p \in Registers, 15 \in p,
           Shift(a, p) = Shift(b, p)
    PROVE  a = b
<1>1. 16 \notin a /\ 16 \notin b
    BY DEF Registers
<1>2. 0 \in a <=> 0 \in b
    <2>1. 15 \in 0..15 /\ 15 + 1 = 16
        OBVIOUS
    <2>2. 15 \in Shift(a, p) <=> 0 \in a
        BY <1>1, <2>1, ShiftBits
    <2>3. 15 \in Shift(b, p) <=> 0 \in b
        BY <1>1, <2>1, ShiftBits
    <2> QED BY <2>2, <2>3
<1>3. ASSUME NEW j \in 0..15 PROVE j + 1 \in a <=> j + 1 \in b
    <2>1. j \in Shift(a, p) <=> (j + 1 \in a) # (0 \in a /\ j \in p)
        BY ShiftBits
    <2>2. j \in Shift(b, p) <=> (j + 1 \in b) # (0 \in b /\ j \in p)
        BY ShiftBits
    <2> QED BY <1>2, <2>1, <2>2
<1>4. ASSUME NEW j \in 0..15 PROVE j \in a <=> j \in b
    <2>1. j = 0 \/ (j - 1 \in 0..15 /\ (j - 1) + 1 = j)
        OBVIOUS
    <2> QED BY <1>2, <1>3, <2>1
<1> QED BY <1>4 DEF Registers

\* The polynomials of the two checksums have the highest bit.
Polynomials == {p \in Registers : 15 \in p}

\* Exclusive or stays within the register and can be undone.
LEMMA XorTyped ==
    ASSUME NEW a \in Registers, NEW b \in Registers
    PROVE  /\ Xor(a, b) \in Registers
           /\ \A c \in Registers : Xor(a, b) = Xor(a, c) => b = c
           /\ \A c \in Registers : Xor(a, b) = Xor(c, b) => a = c
BY Zenon DEF Xor, Registers

\* Two shifts, and eight.
Twice(c, p) == Shift(Shift(c, p), p)

EightTimes(c, p) == Twice(Twice(Twice(Twice(c, p), p), p), p)

\* Two shifts lose nothing.
LEMMA TwiceInjective ==
    ASSUME NEW a \in Registers, NEW b \in Registers, NEW p \in Polynomials
    PROVE  Twice(a, p) \in Registers /\ (Twice(a, p) = Twice(b, p) => a = b)
<1>1. p \in Registers /\ 15 \in p
    BY DEF Polynomials
<1>2. Shift(a, p) \in Registers /\ Shift(b, p) \in Registers
    BY <1>1, ShiftBits
<1>3. Twice(a, p) \in Registers
    BY <1>1, <1>2, ShiftBits DEF Twice
<1>4. Twice(a, p) = Twice(b, p) => Shift(a, p) = Shift(b, p)
    BY <1>1, <1>2, ShiftInjective DEF Twice
<1> QED BY <1>1, <1>3, <1>4, ShiftInjective

\* Nor do eight.
LEMMA EightInjective ==
    ASSUME NEW a \in Registers, NEW b \in Registers, NEW p \in Polynomials
    PROVE  EightTimes(a, p) \in Registers /\ (EightTimes(a, p) = EightTimes(b, p) => a = b)
<1> DEFINE a1 == Twice(a, p)
           a2 == Twice(a1, p)
           a3 == Twice(a2, p)
           b1 == Twice(b, p)
           b2 == Twice(b1, p)
           b3 == Twice(b2, p)
<1>1. a1 \in Registers /\ b1 \in Registers /\ (a1 = b1 => a = b)
    BY TwiceInjective
<1> HIDE DEF a1, b1
<1>2. a2 \in Registers /\ b2 \in Registers /\ (a2 = b2 => a1 = b1)
    BY <1>1, TwiceInjective
<1> HIDE DEF a2, b2
<1>3. a3 \in Registers /\ b3 \in Registers /\ (a3 = b3 => a2 = b2)
    BY <1>2, TwiceInjective
<1> HIDE DEF a3, b3
<1>4. Twice(a3, p) \in Registers /\ (Twice(a3, p) = Twice(b3, p) => a3 = b3)
    BY <1>3, TwiceInjective
<1>5. EightTimes(a, p) = Twice(a3, p) /\ EightTimes(b, p) = Twice(b3, p)
    BY DEF EightTimes, a1, a2, a3, b1, b2, b3
<1> QED BY <1>1, <1>2, <1>3, <1>4, <1>5

\* Adding a byte loses nothing either, of the register or of the byte.
LEMMA AddByteInjective ==
    ASSUME NEW a \in Registers, NEW b \in Registers, NEW p \in Polynomials,
           NEW x \in 0..255, NEW y \in 0..255
    PROVE  /\ AddByte(a, p, x) \in Registers
           /\ a # b => AddByte(a, p, x) # AddByte(b, p, x)
           /\ x # y => AddByte(a, p, x) # AddByte(a, p, y)
<1>1. ASSUME NEW c, NEW z PROVE AddByte(c, p, z) = EightTimes(Xor(c, BitSet(z)), p)
    BY DEF AddByte, EightTimes, Twice
<1>2. BitSet(x) \in Registers /\ BitSet(y) \in Registers /\ (x # y => BitSet(x) # BitSet(y))
    BY BitSetIs
<1> DEFINE ax == Xor(a, BitSet(x))
           bx == Xor(b, BitSet(x))
           ay == Xor(a, BitSet(y))
<1>3. /\ ax \in Registers /\ bx \in Registers /\ ay \in Registers
      /\ ax = bx => a = b
      /\ ax = ay => BitSet(x) = BitSet(y)
    BY <1>2, XorTyped
<1>4. AddByte(a, p, x) = EightTimes(ax, p) /\ AddByte(b, p, x) = EightTimes(bx, p)
        /\ AddByte(a, p, y) = EightTimes(ay, p)
    BY <1>1
<1> HIDE DEF ax, bx, ay
<1> QED BY <1>2, <1>3, <1>4, EightInjective

\* The same, one at a time.
LEMMA AddByteTyped ==
    ASSUME NEW a \in Registers, NEW p \in Polynomials, NEW x \in 0..255
    PROVE  AddByte(a, p, x) \in Registers
BY AddByteInjective, ZenonT(60)

\* Registers that differ still differ after the same byte.
LEMMA AddByteKeepsRegister ==
    ASSUME NEW a \in Registers, NEW b \in Registers, NEW p \in Polynomials, NEW x \in 0..255, a # b
    PROVE  AddByte(a, p, x) # AddByte(b, p, x)
BY AddByteInjective, ZenonT(60)

\* The same register differs after different bytes.
LEMMA AddByteKeepsByte ==
    ASSUME NEW a \in Registers, NEW p \in Polynomials, NEW x \in 0..255, NEW y \in 0..255, x # y
    PROVE  AddByte(a, p, x) # AddByte(a, p, y)
BY AddByteInjective, ZenonT(60)

\* The bytes are added one after the other.
LEMMA Crc16Steps ==
    ASSUME NEW p \in Polynomials, NEW data \in ByteStrings
    PROVE  \E f \in [1..(Len(data) + 1) -> [Registers -> Registers]] :
              /\ \A c \in Registers : Crc16(c, p, data) = f[1][c]
              /\ \A c \in Registers : f[Len(data) + 1][c] = c
              /\ \A i \in 1..Len(data) : \A c \in Registers : f[i][c] = f[i + 1][AddByte(c, p, data[i])]
<1> DEFINE n == Len(data)
           S == [Registers -> Registers]
           Added(i, c) == AddByte(c, p, data[i])
           id == [c \in Registers |-> c]
           step == [i \in 1..n |-> [h \in S |-> [c \in Registers |-> h[Added(i, c)]]]]
           F == CHOOSE f : f = [i \in 1..(n + 1) |->
                    [c \in Registers |-> IF i > n THEN c ELSE f[i + 1][Added(i, c)]]]
<1>1. n \in Nat /\ \A i \in 1..n : data[i] \in 0..255
    BY ByteAt DEF ByteStrings
<1>2. ASSUME NEW c PROVE Crc16(c, p, data) = F[1][c]
    BY DEF Crc16
<1> HIDE DEF n
<1>3. ASSUME NEW i \in 1..n, NEW c \in Registers PROVE Added(i, c) \in Registers
    <2>1. data[i] \in 0..255
        BY <1>1
    <2> QED BY <2>1, AddByteTyped, Zenon
<1> HIDE DEF Added
<1>4. step \in [1..n -> [S -> S]]
    <2>1. ASSUME NEW i \in 1..n, NEW h \in S PROVE [c \in Registers |-> h[Added(i, c)]] \in S
        BY <1>3
    <2> QED BY <2>1
<1>5. id \in S
    OBVIOUS
<1>6. PICK f \in [1..(n + 1) -> S] :
         f[n + 1] = id /\ \A i \in 1..n : f[i] = step[i][f[i + 1]]
    <2> HIDE DEF id, S, step, F
    <2>1. IsLoop(n, S, id, step)
        BY <1>1, <1>4, <1>5 DEF IsLoop
    <2>2. \E f : CountsDown(f, n, S, id, step)
        BY <2>1, DownwardIteration, Zenon
    <2> QED BY <2>2, Zenon DEF CountsDown
<1>7. ASSUME NEW i \in 1..n PROVE f[i] = [c \in Registers |-> f[i + 1][Added(i, c)]]
    <2>1. i + 1 \in 1..(n + 1)
        BY <1>1
    <2>2. f[i + 1] \in S
        BY <2>1
    <2>3. step[i][f[i + 1]] = [c \in Registers |-> f[i + 1][Added(i, c)]]
        BY <2>2
    <2> QED BY <1>6, <2>3, Zenon
<1>8. ASSUME NEW i \in 1..(n + 1)
      PROVE  f[i] = [c \in Registers |-> IF i > n THEN c ELSE f[i + 1][Added(i, c)]]
    <2>1. CASE i = n + 1
        <3>1. i > n
            BY <1>1, <2>1
        <3> QED BY <1>6, <2>1, <3>1
    <2>2. CASE i # n + 1
        <3>1. i \in 1..n /\ ~(i > n)
            BY <1>1, <2>2
        <3> QED BY <1>7, <3>1
    <2> QED BY <2>1, <2>2
<1>9. f = [i \in 1..(n + 1) |-> [c \in Registers |-> IF i > n THEN c ELSE f[i + 1][Added(i, c)]]]
    BY <1>8
<1>10. F = [i \in 1..(n + 1) |-> [c \in Registers |-> IF i > n THEN c ELSE F[i + 1][Added(i, c)]]]
    BY <1>9
<1> HIDE DEF F
<1>11. ASSUME NEW i \in 1..(n + 1)
       PROVE  F[i] = [c \in Registers |-> IF i > n THEN c ELSE F[i + 1][Added(i, c)]]
    BY <1>10
<1> DEFINE T == {i \in 1..(n + 1) : F[i] = f[i]}
<1>12. n + 1 \in T
    <2>1. n + 1 \in 1..(n + 1) /\ n + 1 > n
        BY <1>1
    <2>2. F[n + 1] = id
        BY <1>11, <2>1
    <2> QED BY <1>6, <2>1, <2>2
<1>13. ASSUME NEW i \in 1..n, i + 1 \in T PROVE i \in T
    <2>1. i \in 1..(n + 1) /\ ~(i > n)
        BY <1>1
    <2>2. F[i + 1] = f[i + 1]
        BY <1>13
    <2>3. F[i] = [c \in Registers |-> f[i + 1][Added(i, c)]]
        BY <1>11, <2>1, <2>2
    <2> QED BY <1>7, <2>1, <2>3
<1>14. F[1] = f[1]
    <2>1. \A i \in 1..(n + 1) : i \in T
        <3> HIDE DEF T
        <3> QED BY <1>1, <1>12, <1>13, Downwards
    <2>2. 1 \in 1..(n + 1)
        BY <1>1
    <2> QED BY <2>1, <2>2
<1>15. \A c \in Registers : Crc16(c, p, data) = f[1][c]
    BY <1>2, <1>14, Zenon
<1>16. \A c \in Registers : f[n + 1][c] = c
    BY <1>6
<1>17. ASSUME NEW i \in 1..n, NEW c \in Registers PROVE f[i][c] = f[i + 1][Added(i, c)]
    BY <1>7, ZenonT(60)
<1> QED BY <1>15, <1>16, <1>17 DEF n, Added

\* The checksum of a string is a register.
LEMMA Crc16Typed ==
    ASSUME NEW p \in Polynomials, NEW data \in ByteStrings, NEW c \in Registers
    PROVE  Crc16(c, p, data) \in Registers
<1>1. 1 \in 1..(Len(data) + 1)
    BY DEF ByteStrings
<1> QED BY <1>1, Crc16Steps

\* A checksum tells strings apart that differ in one byte.
LEMMA OneByteMatters ==
    ASSUME NEW p \in Polynomials, NEW data \in ByteStrings, NEW other \in ByteStrings,
           Len(other) = Len(data), NEW k \in 1..Len(data), other[k] # data[k],
           \A i \in 1..Len(data) : i # k => other[i] = data[i], NEW initial \in Registers
    PROVE  Crc16(initial, p, other) # Crc16(initial, p, data)
<1> DEFINE n == Len(data)
           S == [Registers -> Registers]
           Added(i, c) == AddByte(c, p, data[i])
           Other(i, c) == AddByte(c, p, other[i])
<1>1. n \in Nat /\ \A i \in 1..n : data[i] \in 0..255 /\ other[i] \in 0..255
    <2>1. Len(data) \in Nat
        BY DEF ByteStrings
    <2>2. ASSUME NEW i \in 1..Len(data) PROVE data[i] \in 0..255 /\ other[i] \in 0..255
        <3>1. i \in 1..Len(other)
            BY Zenon
        <3> QED BY <3>1, ByteAt, Zenon
    <2> QED BY <2>1, <2>2, Zenon
<1>2. PICK f \in [1..(n + 1) -> S] :
              /\ \A c \in Registers : Crc16(c, p, data) = f[1][c]
              /\ \A c \in Registers : f[n + 1][c] = c
              /\ \A i \in 1..n : \A c \in Registers : f[i][c] = f[i + 1][Added(i, c)]
    BY Crc16Steps
<1>3. PICK g \in [1..(n + 1) -> S] :
              /\ \A c \in Registers : Crc16(c, p, other) = g[1][c]
              /\ \A c \in Registers : g[n + 1][c] = c
              /\ \A i \in 1..n : \A c \in Registers : g[i][c] = g[i + 1][Other(i, c)]
    BY Crc16Steps
<1>4. ASSUME NEW i \in 1..n, NEW c \in Registers
      PROVE  /\ Added(i, c) \in Registers /\ Other(i, c) \in Registers
             /\ \A d \in Registers : c # d => Added(i, c) # Added(i, d)
             /\ i # k => Added(i, c) = Other(i, c)
             /\ i = k => Added(i, c) # Other(i, c)
    <2>1. data[i] \in 0..255 /\ other[i] \in 0..255
        BY <1>1
    <2>2. AddByte(c, p, data[i]) \in Registers /\ AddByte(c, p, other[i]) \in Registers
        BY <2>1, AddByteTyped, Zenon
    <2>3. data[i] # other[i] => AddByte(c, p, data[i]) # AddByte(c, p, other[i])
        BY <2>1, AddByteKeepsByte, Zenon
    <2>4. \A d \in Registers : c # d => AddByte(c, p, data[i]) # AddByte(d, p, data[i])
        BY <2>1, AddByteKeepsRegister, ZenonT(60)
    <2>5. (i # k => other[i] = data[i]) /\ (i = k => other[i] # data[i])
        BY Zenon DEF n
    <2> HIDE DEF n
    <2> QED BY <2>2, <2>3, <2>4, <2>5, Zenon
<1>5. k \in 1..n
    OBVIOUS
<1> HIDE DEF n, S, Added, Other
<1> DEFINE Inj == {i \in 1..(n + 1) : \A c, d \in Registers : c # d => f[i][c] # f[i][d]}
<1>6. \A i \in 1..(n + 1) : i \in Inj
    <2>1. n + 1 \in Inj
        BY <1>1, <1>2
    <2>2. ASSUME NEW i \in 1..n, i + 1 \in Inj PROVE i \in Inj
        <3>1. ASSUME NEW c \in Registers, NEW d \in Registers, c # d PROVE f[i][c] # f[i][d]
            <4>1. f[i][c] = f[i + 1][Added(i, c)] /\ f[i][d] = f[i + 1][Added(i, d)]
                BY <1>2
            <4>2. Added(i, c) \in Registers /\ Added(i, d) \in Registers /\ Added(i, c) # Added(i, d)
                BY <1>4, <3>1
            <4> QED BY <2>2, <4>1, <4>2
        <3>2. i \in 1..(n + 1)
            BY <1>1
        <3> QED BY <3>1, <3>2
    <2> HIDE DEF Inj
    <2> QED BY <1>1, <2>1, <2>2, Downwards
<1> DEFINE Same == {i \in 1..(n + 1) : i > k => \A c \in Registers : f[i][c] = g[i][c]}
<1>7. \A i \in 1..(n + 1) : i \in Same
    <2>1. n + 1 \in Same
        BY <1>1, <1>2, <1>3
    <2>2. ASSUME NEW i \in 1..n, i + 1 \in Same PROVE i \in Same
        <3>1. ASSUME i > k, NEW c \in Registers PROVE f[i][c] = g[i][c]
            <4>1. f[i][c] = f[i + 1][Added(i, c)] /\ g[i][c] = g[i + 1][Other(i, c)]
                BY <1>2, <1>3
            <4>2. i + 1 > k /\ i # k
                BY <1>1, <1>5, <3>1
            <4>3. Added(i, c) \in Registers /\ Added(i, c) = Other(i, c)
                BY <1>4, <4>2
            <4> QED BY <2>2, <4>1, <4>2, <4>3
        <3>2. i \in 1..(n + 1)
            BY <1>1
        <3> QED BY <3>1, <3>2
    <2> HIDE DEF Same
    <2> QED BY <1>1, <2>1, <2>2, Downwards
<1> DEFINE Differ == {i \in 1..(n + 1) : i <= k => \A c \in Registers : f[i][c] # g[i][c]}
<1>8. \A i \in 1..(n + 1) : i \in Differ
    <2>1. n + 1 \in Differ
        BY <1>1, <1>5
    <2>2. ASSUME NEW i \in 1..n, i + 1 \in Differ PROVE i \in Differ
        <3>1. i \in 1..(n + 1) /\ i + 1 \in 1..(n + 1)
            BY <1>1
        <3>2. ASSUME i <= k, NEW c \in Registers PROVE f[i][c] # g[i][c]
            <4>1. f[i][c] = f[i + 1][Added(i, c)] /\ g[i][c] = g[i + 1][Other(i, c)]
                BY <1>2, <1>3
            <4>2. Added(i, c) \in Registers /\ Other(i, c) \in Registers
                BY <1>4
            <4>3. CASE i = k
                <5>1. i + 1 > k
                    BY <1>5, <4>3
                <5>2. g[i + 1][Other(i, c)] = f[i + 1][Other(i, c)]
                    BY <1>7, <3>1, <4>2, <5>1
                <5>3. Added(i, c) # Other(i, c)
                    BY <1>4, <4>3
                <5>4. f[i + 1][Added(i, c)] # f[i + 1][Other(i, c)]
                    BY <1>6, <3>1, <4>2, <5>3
                <5> QED BY <4>1, <5>2, <5>4
            <4>4. CASE i # k
                <5>1. i + 1 <= k
                    BY <1>1, <1>5, <3>2, <4>4
                <5>2. Added(i, c) = Other(i, c)
                    BY <1>4, <4>4
                <5> QED BY <2>2, <4>1, <4>2, <5>1, <5>2
            <4> QED BY <4>3, <4>4
        <3> QED BY <3>1, <3>2
    <2> HIDE DEF Differ
    <2> QED BY <1>1, <2>1, <2>2, Downwards
<1>9. 1 \in 1..(n + 1) /\ 1 <= k
    BY <1>1, <1>5
<1> QED BY <1>2, <1>3, <1>8, <1>9

\* So does the one of Teltonika's packets, which fits two bytes, like that of GT06.
LEMMA IbmMatters ==
    ASSUME NEW data \in ByteStrings, NEW other \in ByteStrings,
           Len(other) = Len(data), NEW k \in 1..Len(data), other[k] # data[k],
           \A i \in 1..Len(data) : i # k => other[i] = data[i]
    PROVE  crc16_ibm(other) # crc16_ibm(data)
<1> DEFINE p == {15, 13, 0}
<1>1. p \in Polynomials /\ {} \in Registers
    BY DEF Polynomials, Registers
<1> HIDE DEF p
<1>2. Crc16({}, p, other) # Crc16({}, p, data)
    BY <1>1, OneByteMatters
<1>3. Crc16({}, p, other) \in Registers /\ Crc16({}, p, data) \in Registers
    BY <1>1, Crc16Typed
<1> QED BY <1>2, <1>3, NumberInjective DEF crc16_ibm, p

\* Both checksums fit two bytes.
LEMMA ChecksumsFit ==
    ASSUME NEW data \in ByteStrings
    PROVE  /\ crc16_ibm(data) \in Nat /\ crc16_ibm(data) < 65536
           /\ crc16_x25(data) \in Nat /\ crc16_x25(data) < 65536
<1> DEFINE p == {15, 13, 0}
           q == {15, 10, 3}
<1>1. p \in Polynomials /\ q \in Polynomials /\ {} \in Registers /\ 0..15 \in Registers
    BY DEF Polynomials, Registers
<1> HIDE DEF p, q
<1>2. Crc16({}, p, data) \in Registers /\ Crc16(0..15, q, data) \in Registers
    BY <1>1, Crc16Typed
<1>3. Xor(Crc16(0..15, q, data), 0..15) \in Registers
    BY <1>1, <1>2, XorTyped
<1> QED BY <1>2, <1>3, NumberRange DEF crc16_ibm, crc16_x25, p, q
-----------------------------------------------------------------------------
(***************************************************************************)
(* Fields of a byte string.                                                 *)
(***************************************************************************)

\* The string f lies in b behind the first i bytes.
At(b, i, f) ==
    /\ b \in ByteStrings /\ f \in ByteStrings
    /\ i \in Nat /\ i + Len(f) <= Len(b)
    /\ \A k \in 1..Len(f) : b[i + k] = f[k]

\* It is the slice there.
LEMMA AtSlice ==
    ASSUME NEW b, NEW i, NEW f, At(b, i, f)
    PROVE  Slice(b, i, i + Len(f)) = f
<1>1. /\ b \in Seq(0..255) /\ f \in Seq(0..255) /\ i \in Nat
      /\ Len(b) \in Nat /\ Len(f) \in Nat /\ i + Len(f) <= Len(b)
    BY DEF At, ByteStrings
<1> DEFINE s == SubSeq(b, i + 1, i + Len(f))
<1>2. i + 1 \in 1..(Len(b) + 1) /\ i + Len(f) \in 0..Len(b)
    BY <1>1
<1>3. s \in Seq(0..255)
    BY <1>1, <1>2, SubSeqTyped
<1>4. Len(s) = Len(f)
    BY <1>1
<1>5. ASSUME NEW k \in 1..Len(s) PROVE s[k] = f[k]
    <2>1. s[k] = b[i + k]
        BY <1>1, <1>4
    <2>2. b[i + k] = f[k]
        BY <1>4 DEF At
    <2> QED BY <2>1, <2>2, Zenon
<1> HIDE DEF s
<1>6. s = f
    BY <1>1, <1>3, <1>4, <1>5, SeqEqual
<1> QED BY <1>6 DEF Slice, s

\* A byte of it.
LEMMA AtByte ==
    ASSUME NEW b, NEW i, NEW f, At(b, i, f), NEW k \in 1..Len(f)
    PROVE  b[i + k] = f[k]
BY DEF At

\* A single byte.
LEMMA OneByte ==
    ASSUME NEW x \in 0..255
    PROVE  <<x>> \in ByteStrings /\ Len(<<x>>) = 1 /\ <<x>>[1] = x
BY DEF ByteStrings

\* A field of one byte is that byte.
LEMMA AtOneByte ==
    ASSUME NEW b, NEW i, NEW x \in 0..255, At(b, i, <<x>>)
    PROVE  Byte(b, i) = x
<1>1. Len(<<x>>) = 1 /\ <<x>>[1] = x /\ 1 \in 1..1
    BY OneByte
<1>2. b[i + 1] = <<x>>[1]
    BY <1>1, AtByte
<1> QED BY <1>1, <1>2 DEF Byte

\* The whole string.
LEMMA AtWhole ==
    ASSUME NEW b \in ByteStrings
    PROVE  At(b, 0, b)
<1>1. Len(b) \in Nat
    BY DEF ByteStrings
<1>2. ASSUME NEW k \in 1..Len(b) PROVE b[0 + k] = b[k]
    <2>1. 0 + k = k
        BY <1>1
    <2> QED BY <2>1
<1>3. 0 \in Nat /\ 0 + Len(b) <= Len(b)
    BY <1>1
<1> QED BY <1>2, <1>3 DEF At

\* A string put behind another lies there, and moves none of its fields.
LEMMA AppendField ==
    ASSUME NEW b \in ByteStrings, NEW f \in ByteStrings
    PROVE  /\ b \o f \in ByteStrings /\ Len(b \o f) = Len(b) + Len(f)
           /\ At(b \o f, Len(b), f)
           /\ \A i, g : At(b, i, g) => At(b \o f, i, g)
<1>1. b \o f \in ByteStrings /\ Len(b) \in Nat /\ Len(f) \in Nat /\ Len(b \o f) = Len(b) + Len(f)
    BY ConcatTyped
<1>2. At(b \o f, Len(b), f)
    <2>1. ASSUME NEW k \in 1..Len(f) PROVE (b \o f)[Len(b) + k] = f[k]
        <3>1. Len(b) + k \in 1..(Len(b) + Len(f)) /\ ~(Len(b) + k <= Len(b)) /\ Len(b) + k - Len(b) = k
            BY <1>1
        <3>2. (b \o f)[Len(b) + k] = f[Len(b) + k - Len(b)]
            BY <3>1, ConcatIndex
        <3> QED BY <3>1, <3>2
    <2>2. Len(b) + Len(f) <= Len(b \o f)
        BY <1>1
    <2> QED BY <1>1, <2>1, <2>2 DEF At
<1>3. ASSUME NEW i, NEW g, At(b, i, g) PROVE At(b \o f, i, g)
    <2>1. g \in ByteStrings /\ i \in Nat /\ Len(g) \in Nat /\ i + Len(g) <= Len(b)
        BY <1>3 DEF At, ByteStrings
    <2>2. i + Len(g) <= Len(b \o f)
        BY <1>1, <2>1
    <2>3. ASSUME NEW k \in 1..Len(g) PROVE (b \o f)[i + k] = g[k]
        <3>1. i + k \in 1..(Len(b) + Len(f)) /\ i + k <= Len(b)
            BY <1>1, <2>1
        <3>2. (b \o f)[i + k] = b[i + k]
            BY <3>1, ConcatIndex
        <3>3. b[i + k] = g[k]
            BY <1>3, AtByte
        <3> QED BY <3>2, <3>3, Zenon
    <2> QED BY <1>1, <2>1, <2>2, <2>3 DEF At
<1> QED BY <1>1, <1>2, <1>3

\* A field of a field.
LEMMA AtWithin ==
    ASSUME NEW b, NEW i, NEW f, At(b, i, f), NEW j, NEW g, At(f, j, g)
    PROVE  At(b, i + j, g)
<1>1. /\ b \in ByteStrings /\ f \in ByteStrings /\ g \in ByteStrings /\ i \in Nat /\ j \in Nat
      /\ Len(b) \in Nat /\ Len(f) \in Nat /\ Len(g) \in Nat
      /\ i + Len(f) <= Len(b) /\ j + Len(g) <= Len(f)
    BY DEF At, ByteStrings
<1>2. i + j \in Nat /\ i + j + Len(g) <= Len(b)
    BY <1>1
<1>3. ASSUME NEW k \in 1..Len(g) PROVE b[i + j + k] = g[k]
    <2>1. j + k \in 1..Len(f) /\ i + (j + k) = i + j + k
        BY <1>1
    <2>2. b[i + (j + k)] = f[j + k]
        BY <2>1, AtByte
    <2>3. f[j + k] = g[k]
        BY AtByte
    <2> QED BY <2>1, <2>2, <2>3
<1> QED BY <1>1, <1>2, <1>3 DEF At
-----------------------------------------------------------------------------
(***************************************************************************)
(* What a Teltonika device sends.                                           *)
(***************************************************************************)

\* A function of 1..n is a sequence.
LEMMA FunctionIsSeq ==
    ASSUME NEW n \in Nat, NEW S, NEW f \in [1..n -> S]
    PROVE  f \in Seq(S) /\ Len(f) = n
OBVIOUS

\* Strings are joined from the last to the first.
LEMMA JoinedSteps ==
    ASSUME NEW parts \in Seq(ByteStrings)
    PROVE  \E f \in [1..(Len(parts) + 1) -> ByteStrings] :
              /\ Joined(parts) = f[1]
              /\ f[Len(parts) + 1] = <<>>
              /\ \A k \in 1..Len(parts) : f[k] = parts[k] \o f[k + 1]
<1> DEFINE n == Len(parts)
           F == CHOOSE f : f = [k \in 1..(n + 1) |-> IF k > n THEN <<>> ELSE parts[k] \o f[k + 1]]
           step == [k \in 1..n |-> [s \in ByteStrings |-> parts[k] \o s]]
<1>1. n \in Nat
    OBVIOUS
<1>2. Joined(parts) = F[1]
    BY DEF Joined
<1>3. ASSUME NEW k \in 1..n PROVE parts[k] \in ByteStrings
    BY ElementOfSeq
<1> HIDE DEF n, F
<1>4. step \in [1..n -> [ByteStrings -> ByteStrings]]
    <2>1. ASSUME NEW k \in 1..n PROVE [s \in ByteStrings |-> parts[k] \o s] \in [ByteStrings -> ByteStrings]
        <3>1. parts[k] \in ByteStrings
            BY <1>3
        <3>2. ASSUME NEW s \in ByteStrings PROVE parts[k] \o s \in ByteStrings
            BY <3>1, ConcatTyped
        <3> QED BY <3>2
    <2> QED BY <2>1
<1>5. << >> \in ByteStrings
    BY DEF ByteStrings
<1>6. PICK f : CountsDown(f, n, ByteStrings, << >>, step)
    <2> HIDE DEF step
    <2>1. IsLoop(n, ByteStrings, << >>, step)
        BY <1>1, <1>4, <1>5 DEF IsLoop
    <2> QED BY <2>1, DownwardIteration, Zenon
<1>7. f \in [1..(n + 1) -> ByteStrings] /\ f[n + 1] = << >>
    BY <1>6 DEF CountsDown
<1>8. ASSUME NEW k \in 1..n PROVE f[k] = parts[k] \o f[k + 1]
    <2>1. k + 1 \in 1..(n + 1)
        BY <1>1
    <2>2. f[k + 1] \in ByteStrings
        BY <1>7, <2>1
    <2>3. f[k] = step[k][f[k + 1]]
        BY <1>6 DEF CountsDown
    <2>4. step[k][f[k + 1]] = parts[k] \o f[k + 1]
        BY <2>2
    <2> QED BY <2>3, <2>4, Zenon
<1>9. f = [k \in 1..(n + 1) |-> IF k > n THEN << >> ELSE parts[k] \o f[k + 1]]
    <2>1. ASSUME NEW k \in 1..(n + 1) PROVE f[k] = IF k > n THEN << >> ELSE parts[k] \o f[k + 1]
        <3>1. CASE k = n + 1
            <4>1. k > n
                BY <1>1, <3>1
            <4> QED BY <1>7, <3>1, <4>1
        <3>2. CASE k # n + 1
            <4>1. k \in 1..n /\ ~(k > n)
                BY <1>1, <3>2
            <4> QED BY <1>8, <4>1, Zenon
        <3> QED BY <3>1, <3>2
    <2> QED BY <1>7, <2>1
<1>10. F = [k \in 1..(n + 1) |-> IF k > n THEN << >> ELSE parts[k] \o F[k + 1]]
    <2>1. \E g : g = [k \in 1..(n + 1) |-> IF k > n THEN << >> ELSE parts[k] \o g[k + 1]]
        BY <1>9, Zenon
    <2> QED BY <2>1, Zenon DEF F
<1>11. ASSUME NEW k \in 1..(n + 1) PROVE F[k] = IF k > n THEN << >> ELSE parts[k] \o F[k + 1]
    BY <1>10
<1> DEFINE T == {k \in 1..(n + 1) : F[k] = f[k]}
<1>12. n + 1 \in T
    <2>1. n + 1 \in 1..(n + 1) /\ n + 1 > n
        BY <1>1
    <2> QED BY <1>7, <1>11, <2>1
<1>13. ASSUME NEW k \in 1..n, k + 1 \in T PROVE k \in T
    <2>1. k \in 1..(n + 1) /\ ~(k > n)
        BY <1>1
    <2> QED BY <1>8, <1>11, <1>13, <2>1
<1>14. F[1] = f[1]
    <2>1. \A k \in 1..(n + 1) : k \in T
        <3> HIDE DEF T
        <3> QED BY <1>1, <1>12, <1>13, Downwards
    <2>2. 1 \in 1..(n + 1)
        BY <1>1
    <2> QED BY <2>1, <2>2
<1> QED BY <1>2, <1>7, <1>8, <1>14 DEF n

\* Byte strings one behind the other are a byte string.
LEMMA JoinedTyped ==
    ASSUME NEW parts \in Seq(ByteStrings)
    PROVE  Joined(parts) \in ByteStrings
<1>1. 1 \in 1..(Len(parts) + 1)
    OBVIOUS
<1> QED BY <1>1, JoinedSteps, ZenonT(60)

\* Zeros.
LEMMA ZerosTyped ==
    ASSUME NEW n \in Nat
    PROVE  Zeros(n) \in ByteStrings /\ Len(Zeros(n)) = n /\ \A k \in 1..n : Zeros(n)[k] = 0
<1>1. Zeros(n) \in [1..n -> 0..255]
    BY DEF Zeros
<1>2. Zeros(n) \in ByteStrings /\ Len(Zeros(n)) = n
    BY <1>1, FunctionIsSeq, Zenon DEF ByteStrings
<1>3. \A k \in 1..n : Zeros(n)[k] = 0
    BY DEF Zeros
<1> QED BY <1>2, <1>3

\* A value at its width.
LEMMA PaddedTyped ==
    ASSUME NEW w \in Nat, NEW v \in Numerals(w)
    PROVE  Padded(v, w) \in ByteStrings /\ Len(Padded(v, w)) = w
<1>1. v \in ByteStrings /\ Len(v) \in Nat /\ Len(v) <= w
    BY DEF Numerals, ByteStrings
<1>2. w - Len(v) \in Nat /\ (w - Len(v)) + Len(v) = w
    BY <1>1
<1> DEFINE z == Zeros(w - Len(v))
<1>3. z \in ByteStrings /\ Len(z) = w - Len(v)
    BY <1>2, ZerosTyped
<1> HIDE DEF z
<1>4. z \o v \in ByteStrings /\ Len(z \o v) = w
    BY <1>1, <1>2, <1>3, ConcatTyped
<1> QED BY <1>4 DEF Padded, z

\* Numbers with a sign.
LEMMA ComplementTyped ==
    ASSUME NEW n \in Int, NEW w \in {2, 4}
    PROVE  TwosComplement(n, w) \in ByteStrings /\ Len(TwosComplement(n, w)) = w
<1>1. CASE n >= 0
    <2>1. n \in Nat /\ w \in {1, 2, 3, 4}
        BY <1>1
    <2> QED BY <1>1, <2>1, BytesSize DEF TwosComplement
<1>2. CASE ~(n >= 0)
    <2> DEFINE b == Bytes(-1 - n, w)
               c == [k \in 1..w |-> 255 - b[k]]
    <2>1. -1 - n \in Nat /\ w \in {1, 2, 3, 4} /\ w \in Nat
        BY <1>2
    <2>2. b \in ByteStrings /\ Len(b) = w
        BY <2>1, BytesSize
    <2> HIDE DEF b
    <2>3. ASSUME NEW k \in 1..w PROVE 255 - b[k] \in 0..255
        <3>1. b[k] \in 0..255
            BY <2>2, ByteAt
        <3>2. ASSUME NEW x \in 0..255 PROVE 255 - x \in 0..255
            OBVIOUS
        <3> QED BY <3>1, <3>2
    <2>4. c \in [1..w -> 0..255]
        BY <2>3
    <2> HIDE DEF c
    <2>5. c \in ByteStrings /\ Len(c) = w
        BY <2>1, <2>4, FunctionIsSeq DEF ByteStrings
    <2>6. TwosComplement(n, w) = c
        BY <1>2 DEF TwosComplement, b, c
    <2> QED BY <2>5, <2>6
<1> QED BY <1>1, <1>2

\* The numbers below n.
LEMMA BelowIs ==
    ASSUME NEW n \in Nat, NEW x \in Below(n)
    PROVE  x \in Nat /\ x < n
BY DEF Below

\* Byte strings may be put together in either order.
LEMMA Associative ==
    ASSUME NEW b \in ByteStrings, NEW c \in ByteStrings, NEW d \in ByteStrings
    PROVE  (b \o c) \o d = b \o (c \o d)
BY ConcatAssociative DEF ByteStrings

\* Numbers that fit two bytes, and three.
LEMMA HalfwordIs ==
    ASSUME NEW n \in Halfwords
    PROVE  /\ n \in Nat /\ Bytes(n, 2) \in ByteStrings /\ Len(Bytes(n, 2)) = 2
           /\ BigEndian(Bytes(n, 2)) = n
<1>1. n \in Nat /\ n < 65536
    BY BelowIs, SMT DEF Halfwords
<1>2. n \in Nat
    BY <1>1
<1>3. Bytes(n, 2) \in ByteStrings /\ Len(Bytes(n, 2)) = 2
    BY <1>2, BytesSize
<1>4. BigEndian(Bytes(n, 2)) = n
    BY <1>1, BytesAreRead, SMT
<1> QED BY <1>2, <1>3, <1>4, Zenon

\* The same for three bytes.
LEMMA CellIdIs ==
    ASSUME NEW n \in CellIds
    PROVE  /\ n \in Nat /\ Bytes(n, 3) \in ByteStrings /\ Len(Bytes(n, 3)) = 3
           /\ BigEndian(Bytes(n, 3)) = n
<1>1. n \in Nat /\ n < 16777216
    BY BelowIs, SMT DEF CellIds
<1>2. n \in Nat
    BY <1>1, SMT
<1>3. Bytes(n, 3) \in ByteStrings /\ Len(Bytes(n, 3)) = 3
    BY <1>2, BytesSize
<1>4. BigEndian(Bytes(n, 3)) = n
    BY <1>1, BytesAreRead, SMT
<1> QED BY <1>2, <1>3, <1>4, Zenon

\* Identifiers of IO elements fit their bytes.
LEMMA IdIs ==
    ASSUME NEW w \in {1, 2}, NEW id \in Ids(w)
    PROVE  /\ id \in Nat /\ Bytes(id, w) \in ByteStrings /\ Len(Bytes(id, w)) = w
           /\ BigEndian(Bytes(id, w)) = id
<1>1. CASE w = 1
    <2>1. id \in 0..255
        BY <1>1 DEF Ids, Octets
    <2>2. id \in Nat /\ id < 256
        BY <2>1
    <2>3. Bytes(id, w) \in ByteStrings /\ Len(Bytes(id, w)) = w
        BY <2>2, BytesSize
    <2>4. BigEndian(Bytes(id, 1)) = id
        BY <2>2, BytesAreRead, SMT
    <2> QED BY <1>1, <2>2, <2>3, <2>4, Zenon
<1>2. CASE w = 2
    <2>1. id \in Halfwords
        BY <1>2 DEF Ids
    <2> QED BY <1>2, <2>1, HalfwordIs, Zenon
<1> QED BY <1>1, <1>2

\* Strings of a given length; a string put behind another.
IsString(b, n) == b \in ByteStrings /\ Len(b) = n

Keeps(b, c) == \A i, g : At(b, i, g) => At(c, i, g)

\* A field behind those that are there leaves them where they are.
LEMMA AppendAt ==
    ASSUME NEW b, NEW f, NEW n, NEW w, IsString(b, n), IsString(f, w)
    PROVE  /\ IsString(b \o f, n + w) /\ At(b \o f, n, f) /\ Keeps(b, b \o f)
           /\ b \o f \in ByteStrings
BY AppendField, Zenon DEF IsString, Keeps

\* One element of a group, and the group.
ElementBytes(id, value, idLen, w) == Bytes(id, idLen) \o Padded(value, w)

\* Elements with values of w bytes.
IsGroup(ids, io, idLen, w) ==
    /\ ids \in Seq(Ids(idLen)) /\ Len(ids) \in Ids(idLen)
    /\ \A k \in 1..Len(ids) : io[ids[k]] \in [int : {TRUE}, value : Numerals(w)]

\* The size of an element.
LEMMA ElementTyped ==
    ASSUME NEW idLen \in {1, 2}, NEW w \in {1, 2, 4, 8}, NEW id \in Ids(idLen), NEW value \in Numerals(w)
    PROVE  /\ ElementBytes(id, value, idLen, w) \in ByteStrings
           /\ Len(ElementBytes(id, value, idLen, w)) = idLen + w
<1>1. Bytes(id, idLen) \in ByteStrings /\ Len(Bytes(id, idLen)) = idLen
    BY IdIs
<1>2. Padded(value, w) \in ByteStrings /\ Len(Padded(value, w)) = w
    <2>1. w \in Nat
        OBVIOUS
    <2> QED BY <2>1, PaddedTyped
<1> QED BY <1>1, <1>2, ConcatTyped DEF ElementBytes

\* The strings of the elements of a group.
ElementStrings(ids, io, idLen, w) ==
    [k \in 1..Len(ids) |-> ElementBytes(ids[k], io[ids[k]].value, idLen, w)]

\* The elements of a group are byte strings.
LEMMA ElementsTyped ==
    ASSUME NEW idLen \in {1, 2}, NEW w \in {1, 2, 4, 8}, NEW ids, NEW io, IsGroup(ids, io, idLen, w)
    PROVE  /\ Len(ids) \in Nat /\ ElementStrings(ids, io, idLen, w) \in Seq(ByteStrings)
           /\ Len(ElementStrings(ids, io, idLen, w)) = Len(ids)
<1>1. Len(ids) \in Nat
    BY DEF IsGroup
<1>2. ASSUME NEW k \in 1..Len(ids)
      PROVE  ElementBytes(ids[k], io[ids[k]].value, idLen, w) \in ByteStrings
    <2>1. ids[k] \in Ids(idLen)
        BY ElementOfSeq DEF IsGroup
    <2>2. io[ids[k]].value \in Numerals(w)
        BY DEF IsGroup
    <2> QED BY <2>1, <2>2, ElementTyped
<1>3. ElementStrings(ids, io, idLen, w) \in [1..Len(ids) -> ByteStrings]
    BY <1>2 DEF ElementStrings
<1> QED BY <1>1, <1>3, FunctionIsSeq

\* The bytes of a group: its count and its elements.
LEMMA GroupTyped ==
    ASSUME NEW idLen \in {1, 2}, NEW w \in {1, 2, 4, 8}, NEW ids, NEW io, IsGroup(ids, io, idLen, w)
    PROVE  /\ GroupBytes(ids, io, idLen, w) \in ByteStrings
           /\ GroupBytes(ids, io, idLen, w)
                = Bytes(Len(ids), idLen) \o Joined(ElementStrings(ids, io, idLen, w))
<1>1. Bytes(Len(ids), idLen) \in ByteStrings
    BY IdIs DEF IsGroup
<1>2. Joined(ElementStrings(ids, io, idLen, w)) \in ByteStrings
    BY ElementsTyped, JoinedTyped
<1>3. GroupBytes(ids, io, idLen, w)
         = Bytes(Len(ids), idLen) \o Joined(ElementStrings(ids, io, idLen, w))
    BY DEF GroupBytes, ElementStrings, ElementBytes
<1> QED BY <1>1, <1>2, <1>3, ConcatTyped

\* The same for values that have a length.
VariableStrings(ids, io) ==
    [k \in 1..Len(ids) |-> Bytes(ids[k], 2) \o Bytes(Len(io[ids[k]].value), 2) \o io[ids[k]].value]

\* The length of a short string fits two bytes.
LEMMA ShortIs ==
    ASSUME NEW b \in ShortStrings
    PROVE  b \in ByteStrings /\ Len(b) \in Nat /\ Len(b) < 65536
BY SMT DEF ShortStrings, ByteStrings

IsVariable(ids, io) ==
    /\ ids \in Seq(Ids(2)) /\ Len(ids) \in Ids(2)
    /\ \A k \in 1..Len(ids) :
          io[ids[k]] \in [int : {FALSE}, value : ShortStrings]

\* The bytes of a group of elements with lengths of their own.
LEMMA VariableTyped ==
    ASSUME NEW ids, NEW io, IsVariable(ids, io)
    PROVE  /\ Len(ids) \in Nat /\ VariableStrings(ids, io) \in Seq(ByteStrings)
           /\ Len(VariableStrings(ids, io)) = Len(ids)
           /\ VariableBytes(ids, io) \in ByteStrings
           /\ VariableBytes(ids, io) = Bytes(Len(ids), 2) \o Joined(VariableStrings(ids, io))
<1>1. Len(ids) \in Nat
    BY DEF IsVariable
<1>2. ASSUME NEW k \in 1..Len(ids)
      PROVE  Bytes(ids[k], 2) \o Bytes(Len(io[ids[k]].value), 2) \o io[ids[k]].value \in ByteStrings
    <2>1. ids[k] \in Ids(2)
        BY ElementOfSeq DEF IsVariable
    <2>2. io[ids[k]].value \in ByteStrings
        <3>1. io[ids[k]].value \in ShortStrings
            BY DEF IsVariable
        <3> QED BY <3>1, ShortIs
    <2>3. Len(io[ids[k]].value) \in Nat
        BY <2>2 DEF ByteStrings
    <2>4. Bytes(ids[k], 2) \in ByteStrings /\ Bytes(Len(io[ids[k]].value), 2) \in ByteStrings
        BY <2>1, <2>3, IdIs, BytesSize
    <2> QED BY <2>2, <2>4, ConcatTyped
<1>3. VariableStrings(ids, io) \in [1..Len(ids) -> ByteStrings]
    BY <1>2 DEF VariableStrings
<1>4. VariableStrings(ids, io) \in Seq(ByteStrings) /\ Len(VariableStrings(ids, io)) = Len(ids)
    BY <1>1, <1>3, FunctionIsSeq
<1>5. Bytes(Len(ids), 2) \in ByteStrings /\ Joined(VariableStrings(ids, io)) \in ByteStrings
    BY <1>4, IdIs, JoinedTyped DEF IsVariable
<1>6. VariableBytes(ids, io) = Bytes(Len(ids), 2) \o Joined(VariableStrings(ids, io))
    BY DEF VariableBytes, VariableStrings
<1> QED BY <1>1, <1>4, <1>5, <1>6, ConcatTyped

\* The groups of elements of a record.
LEMMA GroupsOf ==
    ASSUME NEW idLen \in {1, 2}, NEW r, NEW order, RecordFits(r, order, idLen)
    PROVE  /\ IsGroup(order[1], r.io, idLen, 1) /\ IsGroup(order[2], r.io, idLen, 2)
           /\ IsGroup(order[3], r.io, idLen, 4) /\ IsGroup(order[4], r.io, idLen, 8)
           /\ idLen = 2 => IsVariable(order[5], r.io)
<1>1. ASSUME NEW j \in 1..5 PROVE GroupFits(order[j], r.io, j, idLen)
    BY DEF RecordFits
<1>2. ASSUME NEW j \in 1..4, NEW w, w = <<1, 2, 4, 8>>[j] PROVE IsGroup(order[j], r.io, idLen, w)
    <2>1. j # 5 /\ j \in 1..5
        OBVIOUS
    <2>2. GroupFits(order[j], r.io, j, idLen)
        BY <1>1, <2>1
    <2> QED BY <1>2, <2>1, <2>2, Zenon DEF GroupFits, IsGroup
<1>3. IsGroup(order[1], r.io, idLen, 1)
    <2>1. 1 = <<1, 2, 4, 8>>[1] /\ 1 \in 1..4
        OBVIOUS
    <2> QED BY <1>2, <2>1, Zenon
<1>4. IsGroup(order[2], r.io, idLen, 2)
    <2>1. 2 = <<1, 2, 4, 8>>[2] /\ 2 \in 1..4
        OBVIOUS
    <2> QED BY <1>2, <2>1, Zenon
<1>5. IsGroup(order[3], r.io, idLen, 4)
    <2>1. 4 = <<1, 2, 4, 8>>[3] /\ 3 \in 1..4
        OBVIOUS
    <2> QED BY <1>2, <2>1, Zenon
<1>6. IsGroup(order[4], r.io, idLen, 8)
    <2>1. 8 = <<1, 2, 4, 8>>[4] /\ 4 \in 1..4
        OBVIOUS
    <2> QED BY <1>2, <2>1, Zenon
<1>7. idLen = 2 => IsVariable(order[5], r.io)
    <2>1. GroupFits(order[5], r.io, 5, idLen)
        BY <1>1
    <2> QED BY <2>1, Zenon DEF GroupFits, IsVariable
<1> QED BY <1>3, <1>4, <1>5, <1>6, <1>7

\* The groups one behind the other.
Variable(order, io, idLen) == IF idLen = 1 THEN <<>> ELSE VariableBytes(order[5], io)

IoHead(event, order, idLen) ==
    Bytes(event, idLen)
      \o Bytes(Len(order[1]) + Len(order[2]) + Len(order[3]) + Len(order[4]) + Len(order[5]), idLen)

\* The IO part of a record: its head and five groups.
LEMMA IoTyped ==
    ASSUME NEW idLen \in {1, 2}, NEW r, NEW order, RecordFits(r, order, idLen)
    PROVE  /\ r.event_io_id \in Ids(idLen)
           /\ IoHead(r.event_io_id, order, idLen) \in ByteStrings
           /\ Len(IoHead(r.event_io_id, order, idLen)) = 2 * idLen
           /\ At(IoHead(r.event_io_id, order, idLen), 0, Bytes(r.event_io_id, idLen))
           /\ Variable(order, r.io, idLen) \in ByteStrings
           /\ IoBytes(r.event_io_id, r.io, order, idLen) \in ByteStrings
           /\ IoBytes(r.event_io_id, r.io, order, idLen)
                = IoHead(r.event_io_id, order, idLen)
                    \o GroupBytes(order[1], r.io, idLen, 1) \o GroupBytes(order[2], r.io, idLen, 2)
                    \o GroupBytes(order[3], r.io, idLen, 4) \o GroupBytes(order[4], r.io, idLen, 8)
                    \o Variable(order, r.io, idLen)
<1> DEFINE event == r.event_io_id
           n == Len(order[1]) + Len(order[2]) + Len(order[3]) + Len(order[4]) + Len(order[5])
           h == IoHead(event, order, idLen)
           g1 == GroupBytes(order[1], r.io, idLen, 1)
           g2 == GroupBytes(order[2], r.io, idLen, 2)
           g3 == GroupBytes(order[3], r.io, idLen, 4)
           g4 == GroupBytes(order[4], r.io, idLen, 8)
           v == Variable(order, r.io, idLen)
<1>1. event \in Ids(idLen)
    BY DEF RecordFits
<1>2. n \in Nat
    <2>1. ASSUME NEW j \in 1..5 PROVE Len(order[j]) \in Nat
        <3>1. GroupFits(order[j], r.io, j, idLen)
            BY DEF RecordFits
        <3>2. order[j] \in Seq(Ids(idLen))
            BY <3>1, Zenon DEF GroupFits
        <3> QED BY <3>2
    <2>2. /\ Len(order[1]) \in Nat /\ Len(order[2]) \in Nat /\ Len(order[3]) \in Nat
          /\ Len(order[4]) \in Nat /\ Len(order[5]) \in Nat
        BY <2>1
    <2>3. ASSUME NEW a \in Nat, NEW b \in Nat, NEW c \in Nat, NEW d \in Nat, NEW e \in Nat
          PROVE  a + b + c + d + e \in Nat
        OBVIOUS
    <2> QED BY <2>2, <2>3, Zenon
<1> HIDE DEF n
<1>3. Bytes(event, idLen) \in ByteStrings /\ Len(Bytes(event, idLen)) = idLen
    BY <1>1, IdIs
<1>4. Bytes(n, idLen) \in ByteStrings /\ Len(Bytes(n, idLen)) = idLen
    BY <1>2, BytesSize
<1>5. h = Bytes(event, idLen) \o Bytes(n, idLen)
    BY DEF IoHead, n
<1>6. h \in ByteStrings /\ Len(h) = 2 * idLen
    <2>0. IsString(Bytes(event, idLen), idLen) /\ IsString(Bytes(n, idLen), idLen)
        BY <1>3, <1>4, Zenon DEF IsString
    <2>1. IsString(h, idLen + idLen)
        BY <1>5, <2>0, AppendAt, Zenon
    <2>2. idLen + idLen = 2 * idLen
        OBVIOUS
    <2> QED BY <2>1, <2>2, Zenon DEF IsString
<1>7. At(h, 0, Bytes(event, idLen))
    <2>1. At(Bytes(event, idLen), 0, Bytes(event, idLen))
        BY <1>3, AtWhole, Zenon
    <2>2. Keeps(Bytes(event, idLen), h)
        BY <1>3, <1>4, <1>5, AppendAt, Zenon DEF IsString
    <2> QED BY <2>1, <2>2, Zenon DEF Keeps
<1>8. g1 \in ByteStrings /\ g2 \in ByteStrings /\ g3 \in ByteStrings /\ g4 \in ByteStrings
    BY GroupsOf, GroupTyped
<1>9. v \in ByteStrings
    <2>1. << >> \in ByteStrings
        BY DEF ByteStrings
    <2>2. idLen = 2 => VariableBytes(order[5], r.io) \in ByteStrings
        BY GroupsOf, VariableTyped
    <2> QED BY <2>1, <2>2 DEF Variable
<1>10. IoBytes(event, r.io, order, idLen) = h \o g1 \o g2 \o g3 \o g4 \o v
    BY Zenon DEF IoBytes, IoHead, Variable
<1> HIDE DEF h, g1, g2, g3, g4, v
<1>11. h \o g1 \o g2 \o g3 \o g4 \o v \in ByteStrings
    <2>1. h \o g1 \in ByteStrings
        BY <1>6, <1>8, ConcatTyped
    <2>2. h \o g1 \o g2 \in ByteStrings
        BY <1>8, <2>1, ConcatTyped
    <2>3. h \o g1 \o g2 \o g3 \in ByteStrings
        BY <1>8, <2>2, ConcatTyped
    <2>4. h \o g1 \o g2 \o g3 \o g4 \in ByteStrings
        BY <1>8, <2>3, ConcatTyped
    <2> QED BY <1>9, <2>4, ConcatTyped
<1> QED BY <1>1, <1>6, <1>7, <1>9, <1>10, <1>11 DEF h, g1, g2, g3, g4, v

\* The first 24 bytes of a record.
RecordHead(r) ==
    Padded(r.millis, 8) \o <<r.priority>> \o TwosComplement(r.longitude, 4)
      \o TwosComplement(r.latitude, 4) \o TwosComplement(r.altitude, 2) \o Bytes(r.angle, 2)
      \o <<r.satellites>> \o Bytes(r.speed, 2)

\* The fields of a record that fits.
LEMMA RecordFields ==
    ASSUME NEW idLen \in {1, 2}, NEW r, NEW order, RecordFits(r, order, idLen)
    PROVE  /\ r = [millis |-> r.millis, priority |-> r.priority, longitude |-> r.longitude,
                   latitude |-> r.latitude, altitude |-> r.altitude, angle |-> r.angle,
                   satellites |-> r.satellites, speed |-> r.speed, event_io_id |-> r.event_io_id,
                   io |-> r.io]
           /\ r.millis \in Numerals(8) /\ r.priority \in 0..255 /\ r.satellites \in 0..255
           /\ r.longitude \in Signed32 /\ r.latitude \in Signed32 /\ r.altitude \in Signed16
           /\ r.angle \in Halfwords /\ r.speed \in Halfwords
           /\ r.longitude \in Int /\ r.latitude \in Int /\ r.altitude \in Int
           /\ r.angle \in Nat /\ r.speed \in Nat
<1>1. r \in [millis : Numerals(8), priority : Octets, longitude : Signed32, latitude : Signed32,
             altitude : Signed16, angle : Halfwords, satellites : Octets, speed : Halfwords,
             event_io_id : Ids(idLen), io : {r.io}]
    BY DEF RecordFits
<1>2. Halfwords \subseteq Nat /\ Signed32 \subseteq Int /\ Signed16 \subseteq Int
    <2>1. Halfwords \subseteq Nat
        BY HalfwordIs, Zenon
    <2>2. Signed32 \subseteq Int /\ Signed16 \subseteq Int
        BY SMT DEF Signed32, Signed16
    <2> QED BY <2>1, <2>2
<1>4. r.angle \in Halfwords /\ r.speed \in Halfwords
    BY <1>1
<1>5. r.longitude \in Signed32 /\ r.latitude \in Signed32 /\ r.altitude \in Signed16
    BY <1>1
<1>6. r.millis \in Numerals(8) /\ r.priority \in 0..255 /\ r.satellites \in 0..255
    BY <1>1 DEF Octets
<1>7. r = [millis |-> r.millis, priority |-> r.priority, longitude |-> r.longitude,
                   latitude |-> r.latitude, altitude |-> r.altitude, angle |-> r.angle,
                   satellites |-> r.satellites, speed |-> r.speed, event_io_id |-> r.event_io_id,
                   io |-> r.io]
    BY <1>1
<1>8. r.longitude \in Int /\ r.latitude \in Int /\ r.altitude \in Int /\ r.angle \in Nat /\ r.speed \in Nat
    BY <1>2, <1>4, <1>5
<1> QED BY <1>4, <1>5, <1>6, <1>7, <1>8, Zenon

\* Where each of them lies in the 24 bytes in front of the IO part.
LEMMA RecordHeadFields ==
    ASSUME NEW idLen \in {1, 2}, NEW r, NEW order, RecordFits(r, order, idLen)
    PROVE  /\ RecordHead(r) \in ByteStrings /\ Len(RecordHead(r)) = 24
           /\ At(RecordHead(r), 0, Padded(r.millis, 8)) /\ At(RecordHead(r), 8, <<r.priority>>)
           /\ At(RecordHead(r), 9, TwosComplement(r.longitude, 4))
           /\ At(RecordHead(r), 13, TwosComplement(r.latitude, 4))
           /\ At(RecordHead(r), 17, TwosComplement(r.altitude, 2))
           /\ At(RecordHead(r), 19, Bytes(r.angle, 2)) /\ At(RecordHead(r), 21, <<r.satellites>>)
           /\ At(RecordHead(r), 22, Bytes(r.speed, 2))
<1> DEFINE f1 == Padded(r.millis, 8)
           f2 == <<r.priority>>
           f3 == TwosComplement(r.longitude, 4)
           f4 == TwosComplement(r.latitude, 4)
           f5 == TwosComplement(r.altitude, 2)
           f6 == Bytes(r.angle, 2)
           f7 == <<r.satellites>>
           f8 == Bytes(r.speed, 2)
<1>0. /\ r.millis \in Numerals(8) /\ r.priority \in 0..255 /\ r.satellites \in 0..255
      /\ r.longitude \in Int /\ r.latitude \in Int /\ r.altitude \in Int
      /\ r.angle \in Halfwords /\ r.speed \in Halfwords
      /\ 8 \in Nat /\ 2 \in {2, 4} /\ 4 \in {2, 4}
    BY RecordFields, ZenonT(60)
<1>1. IsString(f1, 8)
    BY <1>0, PaddedTyped, Zenon DEF IsString
<1>2. IsString(f2, 1) /\ IsString(f7, 1)
    BY <1>0, OneByte, Zenon DEF IsString
<1>3. IsString(f3, 4) /\ IsString(f4, 4) /\ IsString(f5, 2)
    BY <1>0, ComplementTyped, Zenon DEF IsString
<1>4. IsString(f6, 2) /\ IsString(f8, 2)
    BY <1>0, HalfwordIs, Zenon DEF IsString
<1>5. RecordHead(r) = f1 \o f2 \o f3 \o f4 \o f5 \o f6 \o f7 \o f8
    BY DEF RecordHead
<1> HIDE DEF f1, f2, f3, f4, f5, f6, f7, f8
<1> DEFINE p2 == f1 \o f2
           p3 == p2 \o f3
           p4 == p3 \o f4
           p5 == p4 \o f5
           p6 == p5 \o f6
           p7 == p6 \o f7
           p8 == p7 \o f8
<1>12. IsString(p2, 9) /\ At(p2, 8, f2) /\ Keeps(f1, p2)
    <2>1. IsString(p2, 8 + 1) /\ At(p2, 8, f2) /\ Keeps(f1, p2)
        BY <1>1, <1>2, AppendAt, Zenon
    <2> HIDE DEF p2
    <2> QED BY <2>1
<1> HIDE DEF p2
<1>13. IsString(p3, 13) /\ At(p3, 9, f3) /\ Keeps(p2, p3)
    <2>1. IsString(p3, 9 + 4) /\ At(p3, 9, f3) /\ Keeps(p2, p3)
        BY <1>12, <1>3, AppendAt, Zenon
    <2> HIDE DEF p3
    <2> QED BY <2>1
<1> HIDE DEF p3
<1>14. IsString(p4, 17) /\ At(p4, 13, f4) /\ Keeps(p3, p4)
    <2>1. IsString(p4, 13 + 4) /\ At(p4, 13, f4) /\ Keeps(p3, p4)
        BY <1>13, <1>3, AppendAt, Zenon
    <2> HIDE DEF p4
    <2> QED BY <2>1
<1> HIDE DEF p4
<1>15. IsString(p5, 19) /\ At(p5, 17, f5) /\ Keeps(p4, p5)
    <2>1. IsString(p5, 17 + 2) /\ At(p5, 17, f5) /\ Keeps(p4, p5)
        BY <1>14, <1>3, AppendAt, Zenon
    <2> HIDE DEF p5
    <2> QED BY <2>1
<1> HIDE DEF p5
<1>16. IsString(p6, 21) /\ At(p6, 19, f6) /\ Keeps(p5, p6)
    <2>1. IsString(p6, 19 + 2) /\ At(p6, 19, f6) /\ Keeps(p5, p6)
        BY <1>15, <1>4, AppendAt, Zenon
    <2> HIDE DEF p6
    <2> QED BY <2>1
<1> HIDE DEF p6
<1>17. IsString(p7, 22) /\ At(p7, 21, f7) /\ Keeps(p6, p7)
    <2>1. IsString(p7, 21 + 1) /\ At(p7, 21, f7) /\ Keeps(p6, p7)
        BY <1>16, <1>2, AppendAt, Zenon
    <2> HIDE DEF p7
    <2> QED BY <2>1
<1> HIDE DEF p7
<1>18. IsString(p8, 24) /\ At(p8, 22, f8) /\ Keeps(p7, p8)
    <2>1. IsString(p8, 22 + 2) /\ At(p8, 22, f8) /\ Keeps(p7, p8)
        BY <1>17, <1>4, AppendAt, Zenon
    <2> HIDE DEF p8
    <2> QED BY <2>1
<1> HIDE DEF p8
<1>19. /\ At(p8, 0, f1) /\ At(p8, 8, f2) /\ At(p8, 9, f3) /\ At(p8, 13, f4) /\ At(p8, 17, f5)
       /\ At(p8, 19, f6) /\ At(p8, 21, f7) /\ At(p8, 22, f8)
    <2>1. At(f1, 0, f1)
        BY <1>1, AtWhole, Zenon DEF IsString
    <2> QED BY <2>1, <1>12, <1>13, <1>14, <1>15, <1>16, <1>17, <1>18, Zenon DEF Keeps
<1>20. RecordHead(r) = p8
    BY <1>5 DEF p2, p3, p4, p5, p6, p7, p8
<1> QED BY <1>18, <1>19, <1>20, Zenon DEF IsString, f1, f2, f3, f4, f5, f6, f7, f8

\* A record.
LEMMA RecordTyped ==
    ASSUME NEW idLen \in {1, 2}, NEW r, NEW order, RecordFits(r, order, idLen)
    PROVE  /\ RecordBytes(r, order, idLen) \in ByteStrings
           /\ RecordBytes(r, order, idLen)
                = RecordHead(r) \o IoBytes(r.event_io_id, r.io, order, idLen)
           /\ Len(RecordBytes(r, order, idLen)) \in Nat /\ Len(RecordBytes(r, order, idLen)) >= 24
<1>1. RecordBytes(r, order, idLen) = RecordHead(r) \o IoBytes(r.event_io_id, r.io, order, idLen)
    BY DEF RecordBytes, RecordHead
<1>2. RecordHead(r) \in ByteStrings /\ Len(RecordHead(r)) = 24
    BY RecordHeadFields
<1>3. IoBytes(r.event_io_id, r.io, order, idLen) \in ByteStrings
    BY IoTyped
<1> DEFINE b == RecordHead(r)
           c == IoBytes(r.event_io_id, r.io, order, idLen)
<1> HIDE DEF b, c
<1>4. b \o c \in ByteStrings /\ Len(c) \in Nat /\ Len(b \o c) = 24 + Len(c)
    BY <1>2, <1>3, ConcatTyped DEF b, c
<1>5. Len(b \o c) \in Nat /\ Len(b \o c) >= 24
    BY <1>4
<1> QED BY <1>1, <1>4, <1>5, Zenon DEF b, c

\* The records of a packet, as strings.
RecordStrings(m) ==
    [k \in 1..Len(m.data.records) |-> RecordBytes(m.data.records[k], m.orders[k], IdLen(m.data.codec))]

\* What stands before and behind them.
AvlHead(m) == <<m.data.codec, m.count>>

AvlTail(m) == <<m.trailing>> \o m.extra

\* Identifiers have one byte or two.
LEMMA IdLenIs == ASSUME NEW codec PROVE IdLen(codec) \in {1, 2}
BY DEF IdLen

\* The records of a packet are byte strings.
LEMMA RecordStringsTyped ==
    ASSUME NEW m, AvlFits(m)
    PROVE  /\ Len(m.data.records) \in Nat
           /\ RecordStrings(m) \in Seq(ByteStrings) /\ Len(RecordStrings(m)) = Len(m.data.records)
<1>1. Len(m.data.records) \in Nat
    BY DEF AvlFits, Octets
<1>2. ASSUME NEW k \in 1..Len(m.data.records)
      PROVE  RecordBytes(m.data.records[k], m.orders[k], IdLen(m.data.codec)) \in ByteStrings
    <2>1. RecordFits(m.data.records[k], m.orders[k], IdLen(m.data.codec))
        BY DEF AvlFits
    <2> QED BY <2>1, IdLenIs, RecordTyped, Zenon
<1>3. RecordStrings(m) \in [1..Len(m.data.records) -> ByteStrings]
    BY <1>2 DEF RecordStrings
<1> QED BY <1>1, <1>3, FunctionIsSeq

\* What a packet's data consist of.
LEMMA AvlParts ==
    ASSUME NEW m, AvlFits(m)
    PROVE  /\ {m.data.codec, m.count, m.trailing} \subseteq 0..255 /\ m.extra \in ByteStrings
           /\ AvlHead(m) \in ByteStrings /\ Len(AvlHead(m)) = 2
           /\ AvlHead(m)[1] = m.data.codec /\ AvlHead(m)[2] = m.count
           /\ AvlTail(m) \in ByteStrings /\ Len(AvlTail(m)) = 1 + Len(m.extra)
           /\ Joined(RecordStrings(m)) \in ByteStrings
<1>1. {m.data.codec, m.count, m.trailing} \subseteq 0..255 /\ m.extra \in ByteStrings
    BY DEF AvlFits, Octets
<1>2. /\ AvlHead(m) \in ByteStrings /\ Len(AvlHead(m)) = 2
      /\ AvlHead(m)[1] = m.data.codec /\ AvlHead(m)[2] = m.count
    BY <1>1 DEF AvlHead, ByteStrings
<1>3. <<m.trailing>> \in ByteStrings /\ Len(<<m.trailing>>) = 1
    BY <1>1, OneByte
<1>4. AvlTail(m) \in ByteStrings /\ Len(AvlTail(m)) = 1 + Len(m.extra)
    BY <1>1, <1>3, ConcatTyped DEF AvlTail
<1> QED BY <1>1, <1>2, <1>4, RecordStringsTyped, JoinedTyped, SMTT(40)

\* They are a byte string whose length fits four bytes.
LEMMA AvlTyped ==
    ASSUME NEW m, AvlFits(m)
    PROVE  /\ AvlData(m) = AvlHead(m) \o (Joined(RecordStrings(m)) \o AvlTail(m))
           /\ AvlData(m) \in ByteStrings /\ Len(AvlData(m)) \in Nat
           /\ Len(AvlData(m)) >= 3 /\ Len(AvlData(m)) <= MaxInt
<1> DEFINE h == AvlHead(m)
           j == Joined(RecordStrings(m))
           t == <<m.trailing>>
           e == m.extra
<1>1. h \in ByteStrings /\ Len(h) = 2 /\ j \in ByteStrings /\ e \in ByteStrings
    BY AvlParts, Zenon
<1>2. t \in ByteStrings /\ Len(t) = 1
    BY AvlParts, OneByte
<1>3. AvlData(m) = h \o j \o t \o e
    BY Zenon DEF AvlData, AvlHead, RecordStrings
<1>4. AvlTail(m) = t \o e
    BY DEF AvlTail
<1> HIDE DEF h, j, t, e
<1>5. j \o t \in ByteStrings /\ t \o e \in ByteStrings /\ h \o j \in ByteStrings /\ h \o j \o t \in ByteStrings
    BY <1>1, <1>2, ConcatTyped
<1>6. h \o j \o t \o e = h \o (j \o (t \o e))
    <2>1. (h \o j \o t) \o e = (h \o j) \o (t \o e)
        <3> DEFINE a == h \o j
        <3>1. a \in ByteStrings
            BY <1>5
        <3> HIDE DEF a
        <3>2. (a \o t) \o e = a \o (t \o e)
            BY <1>1, <1>2, <3>1, Associative
        <3> QED BY <3>2 DEF a
    <2>2. (h \o j) \o (t \o e) = h \o (j \o (t \o e))
        <3> DEFINE a == t \o e
        <3>1. a \in ByteStrings
            BY <1>5
        <3> HIDE DEF a
        <3>2. (h \o j) \o a = h \o (j \o a)
            BY <1>1, <3>1, Associative
        <3> QED BY <3>2 DEF a
    <2> QED BY <2>1, <2>2
<1>7. j \o (t \o e) \in ByteStrings
    BY <1>1, <1>5, ConcatTyped
<1>8. h \o (j \o (t \o e)) \in ByteStrings
    BY <1>1, <1>7, ConcatTyped
<1>9. Len(h \o (j \o (t \o e))) = 2 + (Len(j) + (1 + Len(e)))
    <2>1. IsString(h, 2) /\ IsString(j, Len(j)) /\ IsString(t, 1) /\ IsString(e, Len(e))
        BY <1>1, <1>2, Zenon DEF IsString
    <2>2. IsString(t \o e, 1 + Len(e))
        BY <2>1, AppendAt, Zenon
    <2>3. IsString(j \o (t \o e), Len(j) + (1 + Len(e)))
        BY <2>1, <2>2, AppendAt, Zenon
    <2>4. IsString(h \o (j \o (t \o e)), 2 + (Len(j) + (1 + Len(e))))
        BY <2>1, <2>3, AppendAt, Zenon
    <2> QED BY <2>4, Zenon DEF IsString
<1>10. Len(j) \in Nat /\ Len(e) \in Nat
    BY <1>1 DEF ByteStrings
<1>11. AvlData(m) = h \o (j \o AvlTail(m))
    BY <1>3, <1>4, <1>6
<1>12. Len(AvlData(m)) = 2 + (Len(j) + (1 + Len(e)))
    BY <1>4, <1>9, <1>11
<1>13. Len(AvlData(m)) \in Nat /\ Len(AvlData(m)) >= 3
    BY <1>10, <1>12
<1>14. Len(AvlData(m)) <= MaxInt
    BY DEF AvlFits
<1>15. AvlData(m) \in ByteStrings
    BY <1>4, <1>8, <1>11
<1> QED BY <1>11, <1>13, <1>14, <1>15 DEF h, j

\* Numbers in four bytes.
LEMMA WordIsRead ==
    ASSUME NEW n \in Nat, n <= MaxInt
    PROVE  /\ Bytes(n, 4) \in ByteStrings /\ Len(Bytes(n, 4)) = 4
           /\ BigEndian(Bytes(n, 4)) = n
<1>1. n < 2147483648
    BY SMT DEF MaxInt
<1>2. BigEndian(Bytes(n, 4)) = n
    BY <1>1, BytesAreRead, SMT
<1>3. Bytes(n, 4) \in ByteStrings /\ Len(Bytes(n, 4)) = 4
    BY BytesSize, SMT
<1> QED BY <1>2, <1>3, SMT

\* The checksum fits the four bytes it is given.
LEMMA IbmFits ==
    ASSUME NEW data \in ByteStrings
    PROVE  crc16_ibm(data) \in Nat /\ crc16_ibm(data) <= MaxInt
<1>1. crc16_ibm(data) \in Nat /\ crc16_ibm(data) < 65536
    BY ChecksumsFit, SMT
<1> QED BY <1>1, SMT DEF MaxInt

\* The four parts of a packet.
LEMMA AvlWireFields ==
    ASSUME NEW m, AvlFits(m)
    PROVE  /\ IsString(AvlWire(m), 12 + Len(AvlData(m)))
           /\ At(AvlWire(m), 0, Zeros(4)) /\ At(AvlWire(m), 4, Bytes(Len(AvlData(m)), 4))
           /\ At(AvlWire(m), 8, AvlData(m))
           /\ At(AvlWire(m), 8 + Len(AvlData(m)), Bytes(crc16_ibm(AvlData(m)), 4))
           /\ IsString(Bytes(Len(AvlData(m)), 4), 4) /\ IsString(Bytes(crc16_ibm(AvlData(m)), 4), 4)
           /\ BigEndian(Bytes(Len(AvlData(m)), 4)) = Len(AvlData(m))
           /\ BigEndian(Bytes(crc16_ibm(AvlData(m)), 4)) = crc16_ibm(AvlData(m))
<1> DEFINE d == AvlData(m)
           n == Len(AvlData(m))
           c == crc16_ibm(AvlData(m))
           z == Zeros(4)
           l == Bytes(n, 4)
           s == Bytes(c, 4)
<1>1. IsString(d, n) /\ n \in Nat /\ n <= MaxInt
    BY AvlTyped, Zenon DEF IsString
<1>3. c \in Nat /\ c <= MaxInt
    BY <1>1, IbmFits, Zenon DEF IsString
<1>5. IsString(z, 4)
    <2>1. 4 \in Nat
        OBVIOUS
    <2> QED BY <2>1, ZerosTyped, Zenon DEF IsString
<1>6. IsString(l, 4) /\ IsString(s, 4) /\ BigEndian(l) = n /\ BigEndian(s) = c
    BY <1>1, <1>3, WordIsRead, Zenon DEF IsString
<1>8. AvlWire(m) = z \o l \o d \o s
    BY DEF AvlWire
<1> HIDE DEF d, n, c, z, l, s
<1> DEFINE p2 == z \o l
           p3 == p2 \o d
           p4 == p3 \o s
<1>12. IsString(p2, 8) /\ At(p2, 4, l) /\ Keeps(z, p2)
    <2>1. IsString(p2, 4 + 4) /\ At(p2, 4, l) /\ Keeps(z, p2)
        BY <1>5, <1>6, AppendAt, Zenon
    <2> HIDE DEF p2
    <2> QED BY <2>1
<1> HIDE DEF p2
<1>13. IsString(p3, 8 + n) /\ At(p3, 8, d) /\ Keeps(p2, p3)
    BY <1>1, <1>12, AppendAt, Zenon
<1> HIDE DEF p3
<1>14. IsString(p4, 12 + n) /\ At(p4, 8 + n, s) /\ Keeps(p3, p4)
    <2>1. IsString(p4, 8 + n + 4) /\ At(p4, 8 + n, s) /\ Keeps(p3, p4)
        BY <1>6, <1>13, AppendAt, Zenon
    <2>2. 8 + n + 4 = 12 + n
        BY <1>1
    <2> HIDE DEF p4
    <2> QED BY <2>1, <2>2, Zenon
<1> HIDE DEF p4
<1>15. At(p4, 0, z) /\ At(p4, 4, l) /\ At(p4, 8, d)
    <2>1. At(z, 0, z)
        BY <1>5, AtWhole, Zenon DEF IsString
    <2> QED BY <2>1, <1>12, <1>13, <1>14, Zenon DEF Keeps
<1>16. AvlWire(m) = p4
    BY <1>8 DEF p2, p3, p4
<1>17. /\ IsString(AvlWire(m), 12 + n) /\ At(AvlWire(m), 0, z) /\ At(AvlWire(m), 4, l)
       /\ At(AvlWire(m), 8, d) /\ At(AvlWire(m), 8 + n, s)
    BY <1>14, <1>15, <1>16, Zenon
<1> QED BY <1>6, <1>17, Zenon DEF d, n, c, z, l, s
-----------------------------------------------------------------------------
(***************************************************************************)
(* A byte changed on the way.                                               *)
(***************************************************************************)
Changed(c, b, k) ==
    /\ b \in ByteStrings /\ c \in ByteStrings /\ Len(c) = Len(b) /\ k \in 1..Len(b)
    /\ c[k] # b[k] /\ \A i \in 1..Len(b) : i # k => c[i] = b[i]

\* Damage does that.
LEMMA DamageChanges ==
    ASSUME NEW b \in ByteStrings, NEW k \in 1..Len(b), NEW mask \in 1..255
    PROVE  Changed([b EXCEPT ![k] = Number(Xor(BitSet(@), BitSet(mask)))], b, k)
<1> DEFINE x == Number(Xor(BitSet(b[k]), BitSet(mask)))
           c == [b EXCEPT ![k] = x]
<1>1. b[k] \in 0..255
    BY ByteAt, SMTT(40)
<1>2. x \in 0..255 /\ x # b[k]
    BY <1>1, ByteChanged
<1> HIDE DEF x
<1>3. c \in ByteStrings /\ Len(c) = Len(b) /\ c[k] = x /\ \A i \in 1..Len(b) : i # k => c[i] = b[i]
    BY <1>2 DEF ByteStrings
<1>4. Changed(c, b, k)
    BY <1>2, <1>3 DEF Changed
<1> QED BY <1>4 DEF x

\* A field that does not lie there is kept.
LEMMA ChangedElsewhere ==
    ASSUME NEW b, NEW c, NEW k, Changed(c, b, k), NEW i, NEW f, At(b, i, f),
           k <= i \/ k > i + Len(f)
    PROVE  At(c, i, f)
<1>1. /\ b \in ByteStrings /\ c \in ByteStrings /\ f \in ByteStrings /\ i \in Nat /\ k \in Nat
      /\ Len(b) \in Nat /\ Len(f) \in Nat /\ i + Len(f) <= Len(b) /\ Len(c) = Len(b)
    BY DEF At, Changed, ByteStrings
<1>2. ASSUME NEW j \in 1..Len(f) PROVE c[i + j] = f[j]
    <2>1. i + j \in 1..Len(b) /\ i + j # k
        BY <1>1
    <2>2. c[i + j] = b[i + j]
        BY <2>1 DEF Changed
    <2>3. b[i + j] = f[j]
        BY AtByte
    <2> QED BY <2>2, <2>3, Zenon
<1>3. i + Len(f) <= Len(c)
    BY <1>1
<1> QED BY <1>1, <1>2, <1>3 DEF At

\* A slice.
LEMMA SliceIs ==
    ASSUME NEW b \in ByteStrings, NEW i \in Nat, NEW w \in Nat, i + w <= Len(b)
    PROVE  /\ Slice(b, i, i + w) \in ByteStrings /\ Len(Slice(b, i, i + w)) = w
           /\ \A k \in 1..w : Slice(b, i, i + w)[k] = b[i + k]
<1>1. Len(b) \in Nat
    BY DEF ByteStrings
<1>2. i + 1 \in 1..(Len(b) + 1) /\ i + w \in 0..Len(b)
    BY <1>1
<1>3. Slice(b, i, i + w) \in ByteStrings
    BY <1>2, SubSeqTyped DEF ByteStrings, Slice
<1>4. Len(Slice(b, i, i + w)) = w
    BY <1>1 DEF Slice, ByteStrings
<1>5. \A k \in 1..w : Slice(b, i, i + w)[k] = b[i + k]
    BY <1>1 DEF Slice, ByteStrings
<1> QED BY <1>3, <1>4, <1>5

\* The slice of a field that is changed is changed.
LEMMA ChangedWithin ==
    ASSUME NEW b, NEW c, NEW k, Changed(c, b, k), NEW i, NEW f, At(b, i, f),
           k > i, k <= i + Len(f)
    PROVE  Changed(Slice(c, i, i + Len(f)), f, k - i)
<1> DEFINE s == Slice(c, i, i + Len(f))
<1>1. /\ b \in ByteStrings /\ c \in ByteStrings /\ f \in ByteStrings /\ i \in Nat /\ k \in Nat
      /\ Len(b) \in Nat /\ Len(f) \in Nat /\ i + Len(f) <= Len(b) /\ Len(c) = Len(b)
    BY DEF At, Changed, ByteStrings
<1>2. i + Len(f) <= Len(c)
    BY <1>1
<1>3. s \in ByteStrings /\ Len(s) = Len(f) /\ \A j \in 1..Len(f) : s[j] = c[i + j]
    BY <1>1, <1>2, SliceIs, Zenon
<1> HIDE DEF s
<1>4. k - i \in 1..Len(f) /\ i + (k - i) = k
    BY <1>1
<1>5. s[k - i] # f[k - i]
    <2>1. s[k - i] = c[k]
        BY <1>3, <1>4
    <2>2. f[k - i] = b[k]
        BY <1>4, AtByte
    <2> QED BY <2>1, <2>2 DEF Changed
<1>6. ASSUME NEW j \in 1..Len(f), j # k - i PROVE s[j] = f[j]
    <2>1. i + j \in 1..Len(b) /\ i + j # k
        BY <1>1, <1>6
    <2>2. c[i + j] = b[i + j]
        BY <2>1 DEF Changed
    <2>3. b[i + j] = f[j]
        BY AtByte
    <2> QED BY <1>3, <2>2, <2>3, Zenon
<1>7. Changed(s, f, k - i)
    BY <1>1, <1>3, <1>4, <1>5, <1>6 DEF Changed
<1> QED BY <1>7 DEF s

\* Four bytes are told apart by their number, if it is small.
LEMMA LastByteIs ==
    ASSUME NEW a \in Nat, NEW b \in 0..255
    PROVE  TwoBytes(a, b) \div 256 = a /\ TwoBytes(a, b) % 256 = b
BY SMT DEF TwoBytes

\* Two bytes are a number.
LEMMA TwoBytesNat ==
    ASSUME NEW a \in Nat, NEW b \in 0..255
    PROVE  TwoBytes(a, b) \in Nat
BY DEF TwoBytes

\* A number of two bytes, written with four.
LEMMA SmallWord ==
    ASSUME NEW n \in Halfwords
    PROVE  n \in Nat /\ n <= MaxInt /\ Bytes(n, 4)[1] = 0
<1>1. n \in Nat /\ n < 65536
    BY BelowIs, SMT DEF Halfwords
<1>2. Bytes(n, 4)[1] = (n \div 16777216) % 256
    BY <1>1, SMT DEF Bytes, PowersOf256
<1>3. (n \div 16777216) % 256 = 0
    BY <1>1, SMT
<1>4. n <= MaxInt
    BY <1>1, SMT DEF MaxInt
<1> QED BY <1>1, <1>2, <1>3, <1>4, SMT

\* The first byte of a number within TLC's integers.
LEMMA FirstOfFour ==
    ASSUME NEW n \in Nat, n <= MaxInt
    PROVE  Bytes(n, 4)[1] <= 127
<1>1. Bytes(n, 4)[1] = (n \div 16777216) % 256
    BY SMT DEF Bytes, PowersOf256
<1>2. (n \div 16777216) % 256 <= 127
    BY SMT DEF MaxInt
<1> QED BY <1>1, <1>2, SMT

\* A number that is cut off is above the limit.
LEMMA CutOff ==
    ASSUME NEW a \in 0..255, NEW b \in 0..255, NEW c \in 0..255, a > 127
    PROVE  ThreeBytes(a, b, c) > MaxPrefix
BY SMT DEF ThreeBytes, TwoBytes, MaxPrefix

\* Four bytes of which one was changed are another number, if they are not above
\* the limit.
LEMMA NumberChanged ==
    ASSUME NEW n \in Nat, n <= MaxInt, NEW c, NEW k, Changed(c, Bytes(n, 4), k)
    PROVE  BigEndian(c) # n \/ BigEndian(c) > MaxPrefix
<1> DEFINE b == Bytes(n, 4)
<1>1. b[1] <= 127
    BY FirstOfFour, Zenon
<1>3. b \in ByteStrings /\ Len(b) = 4 /\ BigEndian(b) = n
    BY WordIsRead
<1> HIDE DEF b
<1>4. c \in ByteStrings /\ Len(c) = 4 /\ k \in 1..4 /\ c[k] # b[k]
    BY <1>3, Zenon DEF Changed, b
<1>5. /\ b[1] \in 0..255 /\ b[2] \in 0..255 /\ b[3] \in 0..255 /\ b[4] \in 0..255
      /\ c[1] \in 0..255 /\ c[2] \in 0..255 /\ c[3] \in 0..255 /\ c[4] \in 0..255
    <2>1. ASSUME NEW i \in 1..4 PROVE b[i] \in 0..255 /\ c[i] \in 0..255
        <3>1. i \in 1..Len(b) /\ i \in 1..Len(c)
            BY <1>3, <1>4, Zenon
        <3> QED BY <1>3, <1>4, <3>1, ByteAt, Zenon
    <2>2. 1 \in 1..4 /\ 2 \in 1..4 /\ 3 \in 1..4 /\ 4 \in 1..4
        OBVIOUS
    <2> QED BY <2>1, <2>2, ZenonT(60)
<1>6. CASE c[1] > 127
    <2>1. BigEndian(c) = ThreeBytes(c[1], c[2], c[3])
        BY <1>4, <1>6, BigEndianIs, Zenon
    <2>2. ASSUME NEW y \in 0..255, NEW z \in 0..255 PROVE ThreeBytes(c[1], y, z) > MaxPrefix
        BY <1>5, <1>6, CutOff, Zenon
    <2> QED BY <1>5, <2>1, <2>2, Zenon
<1>7. CASE ~(c[1] > 127)
    <2>1. c[1] <= 127 /\ b[1] <= 127
        <3>1. ASSUME NEW x \in 0..255, ~(x > 127) PROVE x <= 127
            BY <3>1
        <3> QED BY <1>1, <1>5, <1>7, <3>1, Zenon
    <2>3. BigEndian(c) = FourBytes(c[1], c[2], c[3], c[4]) /\ BigEndian(b) = FourBytes(b[1], b[2], b[3], b[4])
        BY <1>3, <1>4, <2>1, BigEndianIs, Zenon
    <2>4. ASSUME FourBytes(c[1], c[2], c[3], c[4]) = FourBytes(b[1], b[2], b[3], b[4])
          PROVE  c[1] = b[1] /\ c[2] = b[2] /\ c[3] = b[3] /\ c[4] = b[4]
        <3> DEFINE p == TwoBytes(b[1], b[2])
                   q == TwoBytes(c[1], c[2])
                   r == TwoBytes(p, b[3])
                   t == TwoBytes(q, c[3])
        <3>1. TwoBytes(t, c[4]) = TwoBytes(r, b[4])
            BY <2>4, Zenon DEF FourBytes, ThreeBytes, TwoBytes
        <3>2. b[1] \in Nat /\ c[1] \in Nat
            <4>1. \A x \in 0..255 : x \in Nat
                OBVIOUS
            <4> QED BY <1>5, <4>1, Zenon
        <3>3. p \in Nat /\ q \in Nat
            BY <1>5, <3>2, TwoBytesNat, Zenon
        <3>4. r \in Nat /\ t \in Nat
            BY <1>5, <3>3, TwoBytesNat, Zenon
        <3> HIDE DEF r, t
        <3>5. t = r /\ c[4] = b[4]
            <4>1. TwoBytes(t, c[4]) \div 256 = t /\ TwoBytes(t, c[4]) % 256 = c[4]
                <5>1. t \in Nat /\ c[4] \in 0..255
                    BY <1>5, <3>4, Zenon
                <5> QED BY ONLY <5>1, LastByteIs, ZenonT(60)
            <4>2. TwoBytes(r, b[4]) \div 256 = r /\ TwoBytes(r, b[4]) % 256 = b[4]
                <5>1. r \in Nat /\ b[4] \in 0..255
                    BY <1>5, <3>4, Zenon
                <5> QED BY ONLY <5>1, LastByteIs, ZenonT(60)
            <4> QED BY <3>1, <4>1, <4>2, Zenon
        <3> HIDE DEF p, q
        <3>6. q = p /\ c[3] = b[3]
            <4>1. TwoBytes(q, c[3]) \div 256 = q /\ TwoBytes(q, c[3]) % 256 = c[3]
                <5>1. q \in Nat /\ c[3] \in 0..255
                    BY <1>5, <3>3, Zenon
                <5> QED BY ONLY <5>1, LastByteIs, ZenonT(60)
            <4>2. TwoBytes(p, b[3]) \div 256 = p /\ TwoBytes(p, b[3]) % 256 = b[3]
                <5>1. p \in Nat /\ b[3] \in 0..255
                    BY <1>5, <3>3, Zenon
                <5> QED BY ONLY <5>1, LastByteIs, ZenonT(60)
            <4> QED BY <3>5, <4>1, <4>2, Zenon DEF r, t
        <3>7. c[1] = b[1] /\ c[2] = b[2]
            <4>1. TwoBytes(c[1], c[2]) \div 256 = c[1] /\ TwoBytes(c[1], c[2]) % 256 = c[2]
                <5>1. c[1] \in Nat /\ c[2] \in 0..255
                    BY <1>5, <3>2, Zenon
                <5> QED BY ONLY <5>1, LastByteIs, Zenon
            <4>2. TwoBytes(b[1], b[2]) \div 256 = b[1] /\ TwoBytes(b[1], b[2]) % 256 = b[2]
                <5>1. b[1] \in Nat /\ b[2] \in 0..255
                    BY <1>5, <3>2, Zenon
                <5> QED BY ONLY <5>1, LastByteIs, Zenon
            <4> QED BY <3>6, <4>1, <4>2, Zenon DEF p, q
        <3> QED BY <3>5, <3>6, <3>7
    <2>5. k = 1 \/ k = 2 \/ k = 3 \/ k = 4
        BY <1>4
    <2>6. FourBytes(c[1], c[2], c[3], c[4]) # FourBytes(b[1], b[2], b[3], b[4])
        BY <1>4, <2>4, <2>5, Zenon
    <2> QED BY <1>3, <2>3, <2>6, Zenon
<1> QED BY <1>6, <1>7

\* A checksum of which one byte was changed is another number.
LEMMA WordChanged ==
    ASSUME NEW n \in Halfwords, NEW c, NEW k, Changed(c, Bytes(n, 4), k)
    PROVE  BigEndian(c) # BigEndian(Bytes(n, 4))
<1>1. n \in Nat /\ n <= MaxInt
    BY SmallWord, Zenon
<1>2. BigEndian(Bytes(n, 4)) = n
    BY <1>1, WordIsRead
<1>3. BigEndian(c) # n \/ BigEndian(c) > MaxPrefix
    BY <1>1, NumberChanged, Zenon
<1>4. n < 65536
    BY BelowIs, SMT DEF Halfwords
<1>5. ~(n > MaxPrefix)
    BY <1>1, <1>4, SMT DEF MaxPrefix
<1> QED BY <1>2, <1>3, <1>5, Zenon
-----------------------------------------------------------------------------
(***************************************************************************)
(* A string that is one frame, and nothing else.                            *)
(***************************************************************************)
LEMMA OneFrame ==
    ASSUME NEW turn, NEW f, Unfolds(turn, f), NEW b \in ByteStrings,
           turn[b] = Take(Len(b), <<b>>), turn[<<>>] = Wait
    PROVE  f[b] = Extracted(<<b>>, <<>>)
<1>1. << >> \in ByteStrings /\ Len(b) \in Nat
    BY DEF ByteStrings
<1>2. f[<< >>] = Extracted(<< >>, << >>)
    <2>1. f[<< >>] = Loop(Wait, << >>, f)
        BY <1>1, UnfoldsAt
    <2> QED BY <2>1 DEF Loop, Wait
<1>3. Drop(b, Len(b)) = << >>
    <2>1. Len(b) + 1 \in Int /\ Len(b) \in Int /\ Len(b) < Len(b) + 1
        BY <1>1
    <2> QED BY <2>1, SubSeqEmpty DEF Drop, ByteStrings
<1>4. f[b] = Loop(Take(Len(b), <<b>>), b, f)
    BY UnfoldsAt
<1>5. f[b] = Before(<<b>>, f[<< >>])
    BY <1>3, <1>4 DEF Loop, Take
<1>6. <<b>> \o << >> = <<b>>
    <2>1. <<b>> \in Seq(ByteStrings)
        OBVIOUS
    <2> QED BY <2>1, ConcatEmptySeq
<1> QED BY <1>2, <1>5, <1>6 DEF Before, Extracted

\* ... or none.
LEMMA NoFrame ==
    ASSUME NEW turn, NEW f, Unfolds(turn, f), NEW b \in ByteStrings
    PROVE  /\ turn[b] = Wait => f[b] = Extracted(<<>>, b)
           /\ turn[b] = Fail => f[b] = FramingError
<1>1. f[b] = Loop(turn[b], b, f)
    BY UnfoldsAt
<1> QED BY <1>1 DEF Loop, Wait, Fail

\* What the gateway makes of the bytes of a Teltonika connection.
Understood(b) == Taken(extract_frames[b], TeltonikaParse(extract_frames[b].frames[1]))

\* What becomes of bytes that the framer leaves, refuses or takes whole.
LEMMA TeltonikaTaken ==
    ASSUME NEW b \in ByteStrings
    PROVE  /\ TeltonikaTurn(b) = Wait => Understood(b) = Waiting
           /\ TeltonikaTurn(b) = Fail => Understood(b) = Refused
           /\ TeltonikaTurn(b) = Take(Len(b), <<b>>) => Understood(b) = TeltonikaParse(b)
<1>1. TeltonikaTurns[b] = TeltonikaTurn(b)
    BY DEF TeltonikaTurns
<1>2. TeltonikaTurn(b) = Wait => extract_frames[b] = Extracted(<< >>, b)
    BY <1>1, TeltonikaUnfolds, NoFrame
<1>3. TeltonikaTurn(b) = Fail => extract_frames[b] = FramingError
    BY <1>1, TeltonikaUnfolds, NoFrame
<1>4. TeltonikaTurn(b) = Take(Len(b), <<b>>) => extract_frames[b] = Extracted(<<b>>, << >>)
    <2>1. << >> \in ByteStrings /\ Len(<< >>) = 0
        BY DEF ByteStrings
    <2>2. TeltonikaTurn(<< >>) = Wait
        <3>1. 0 < PreambleLen
            BY FieldsAssumption
        <3> QED BY <2>1, <3>1 DEF TeltonikaTurn
    <2>3. TeltonikaTurns[<< >>] = Wait
        BY <2>1, <2>2 DEF TeltonikaTurns
    <2> QED BY <1>1, <2>3, TeltonikaUnfolds, OneFrame
<1>5. TeltonikaTurn(b) = Wait => Understood(b) = Waiting
    BY <1>2 DEF Understood, Taken, Extracted
<1>6. TeltonikaTurn(b) = Fail => Understood(b) = Refused
    BY <1>3 DEF Understood, Taken, FramingError
<1>7. TeltonikaTurn(b) = Take(Len(b), <<b>>) => Understood(b) = TeltonikaParse(b)
    BY <1>4 DEF Understood, Taken, Extracted
<1> QED BY <1>5, <1>6, <1>7

\* ... and of bytes whose first frame it takes, if it goes on to take the rest.
LEMMA FirstFrame ==
    ASSUME NEW b \in ByteStrings, NEW t \in 1..Len(b), NEW f \in ByteStrings, TeltonikaTurn(b) = Take(t, <<f>>)
    PROVE  Understood(b) \in {Refused, TeltonikaParse(f)}
<1>1. TeltonikaTurns[b] = TeltonikaTurn(b)
    BY DEF TeltonikaTurns
<1> DEFINE r == extract_frames[Drop(b, t)]
<1>2. extract_frames[b] = Before(<<f>>, r)
    BY <1>1, TeltonikaUnfolds, UnfoldsAt DEF Loop, Take
<1>3. r \in Results
    <2>1. Drop(b, t) \in ByteStrings
        BY DropShortens
    <2> QED BY <2>1, TeltonikaIsFramer, TeltonikaUnfolds, FramerTyped
<1> HIDE DEF r
<1>4. CASE r.error
    BY <1>2, <1>4 DEF Before, Understood, Taken, FramingError
<1>5. CASE ~r.error
    <2> DEFINE fs == <<f>> \o r.frames
    <2>1. r.frames \in Seq(ByteStrings)
        BY <1>3 DEF Results
    <2>2. fs # <<>> /\ fs[1] = f
        BY <2>1
    <2>3. extract_frames[b] = Extracted(fs, r.rest)
        BY <1>2, <1>5 DEF Before
    <2> HIDE DEF fs
    <2>4. extract_frames[b].error = FALSE /\ extract_frames[b].frames = fs
        BY <2>3 DEF Extracted
    <2> QED BY <2>2, <2>4 DEF Understood, Taken
<1> QED BY <1>4, <1>5

\* The start of a data packet.
LEMMA PrefixIs ==
    ASSUME NEW p \in ByteStrings, NEW b \in ByteStrings, Len(p) <= Len(b)
    PROVE  IsPrefix(p, b) <=> At(b, 0, p)
<1>1. Len(p) \in Nat /\ Len(b) \in Nat
    BY DEF ByteStrings
<1>2. ASSUME IsPrefix(p, b) PROVE At(b, 0, p)
    <2>1. ASSUME NEW k \in 1..Len(p) PROVE b[0 + k] = p[k]
        <3>1. b[k] = p[k]
            BY <1>2, PrefixElements
        <3>2. 0 + k = k
            BY <1>1
        <3> QED BY <3>1, <3>2
    <2>2. 0 \in Nat /\ 0 + Len(p) <= Len(b)
        BY <1>1
    <2> QED BY <2>1, <2>2 DEF At
<1>3. ASSUME At(b, 0, p) PROVE IsPrefix(p, b)
    <2>1. Slice(b, 0, 0 + Len(p)) = p
        BY <1>3, AtSlice
    <2>2. 0 + 1 = 1 /\ 0 + Len(p) = Len(p)
        BY <1>1
    <2>3. SubSeq(b, 1, Len(p)) = p
        BY <2>1, <2>2 DEF Slice
    <2>4. SubSeq(p, 1, Len(p)) = p
        BY <1>1 DEF ByteStrings
    <2> QED BY <2>3, <2>4 DEF IsPrefix
<1> QED BY <1>2, <1>3

\* The preamble.
LEMMA PreambleIs == Zeros(4) \in ByteStrings /\ Len(Zeros(4)) = 4 /\ \A k \in 1..4 : Zeros(4)[k] = 0
<1>1. 4 \in Nat
    OBVIOUS
<1> QED BY <1>1, ZerosTyped

\* A string that starts as a data packet does, of whatever length it announces.
LEMMA AnyPacketTurn ==
    ASSUME NEW b, NEW n \in Nat, IsString(b, 12 + n), At(b, 0, Zeros(4)),
           NEW l \in Nat, BigEndian(Slice(b, 4, 8)) = l
    PROVE  TeltonikaTurn(b) = IF ~LegalLength(l) THEN Fail
                              ELSE IF n < l THEN Wait ELSE Take(12 + l, <<SubSeq(b, 1, 12 + l)>>)
<1>1. b \in ByteStrings /\ Len(b) = 12 + n /\ Len(b) \in Nat
    BY DEF IsString
<1>2. PreambleLen = 4 /\ LengthLen = 4 /\ TrailerLen = 4
    BY FieldsAssumption
<1>3. Zeros(4) \in ByteStrings /\ Len(Zeros(4)) = 4 /\ Zeros(4)[2] = 0
    BY PreambleIs
<1>4. IsPrefix(Zeros(PreambleLen), b)
    <2>1. Len(Zeros(4)) <= Len(b)
        <3>1. 4 <= 12 + n
            OBVIOUS
        <3> QED BY <1>1, <1>3, <3>1
    <2> QED BY <1>1, <1>2, <1>3, <2>1, PrefixIs
<1>5. ~IsPrefix(<<0, 15>>, b)
    <2>1. 2 \in 1..Len(Zeros(4)) /\ 2 \in 1..Len(<<0, 15>>) /\ 0 + 2 = 2
        BY <1>3
    <2>2. b[0 + 2] = Zeros(4)[2]
        BY <2>1, AtByte
    <2>3. b[2] = 0
        BY <1>3, <2>1, <2>2
    <2>4. IsPrefix(<<0, 15>>, b) => b[2] = <<0, 15>>[2]
        BY <1>1, <2>1, Marks, PrefixElements
    <2> QED BY <2>3, <2>4
<1>6. AvlLength(b) = l
    BY <1>2 DEF AvlLength, Slice
<1>7. AvlTotal(b) = 12 + l
    BY <1>2, <1>6 DEF AvlTotal
<1>8. /\ ~(Len(b) < PreambleLen) /\ ~(Len(b) < PreambleLen + LengthLen)
      /\ Len(b) < 12 + l <=> n < l
    BY <1>1, <1>2
<1> QED BY <1>4, <1>5, <1>6, <1>7, <1>8 DEF TeltonikaTurn

\* A string that starts as a data packet of its length does is one, or the length
\* is not legal.
LEMMA PacketTurn ==
    ASSUME NEW b, NEW n \in Nat, IsString(b, 12 + n), At(b, 0, Zeros(4)), BigEndian(Slice(b, 4, 8)) = n
    PROVE  TeltonikaTurn(b) = IF LegalLength(n) THEN Take(Len(b), <<b>>) ELSE Fail
<1>1. b \in ByteStrings /\ Len(b) = 12 + n /\ Len(b) \in Nat
    BY DEF IsString
<1>2. SubSeq(b, 1, Len(b)) = b
    BY <1>1 DEF ByteStrings
<1>3. ~(n < n)
    OBVIOUS
<1> QED BY <1>1, <1>2, <1>3, AnyPacketTurn

\* It is parsed as one.
LEMMA PacketParse ==
    ASSUME NEW b, NEW n \in Nat, n >= 3, IsString(b, 12 + n), At(b, 0, Zeros(4)),
           BigEndian(Slice(b, 4, 8)) = n,
           ~CrcMatches(Slice(b, 8, 8 + n), BigEndian(Drop(b, 8 + n)))
    PROVE  TeltonikaParse(b) = Refused
<1>1. b \in ByteStrings /\ Len(b) = 12 + n /\ Len(b) \in Nat
    BY DEF IsString
<1>3. Zeros(4) \in ByteStrings /\ Len(Zeros(4)) = 4 /\ Zeros(4)[2] = 0
    BY PreambleIs
<1>4. SubSeq(b, 1, 2) # <<0, 15>>
    <2>1. 2 \in 1..Len(Zeros(4)) /\ 0 + 2 = 2
        BY <1>3
    <2>2. b[0 + 2] = Zeros(4)[2]
        BY <2>1, AtByte
    <2>3. b[2] = 0
        BY <1>3, <2>1, <2>2
    <2>4. SubSeq(b, 1, 2)[2] = b[2]
        BY <1>1 DEF ByteStrings
    <2>5. <<0, 15>>[2] = 15
        OBVIOUS
    <2>6. SubSeq(b, 1, 2)[2] # <<0, 15>>[2]
        BY <2>3, <2>4, <2>5
    <2> QED BY <2>6, Zenon
<1>5. TeltonikaParse(b) = parse_avl_packet(b)
    BY <1>4 DEF TeltonikaParse
<1> QED BY <1>5 DEF parse_avl_packet

\* The numbers below n, the other way round.
LEMMA BelowIf ==
    ASSUME NEW k \in Nat, NEW n \in Nat, n < k
    PROVE  n \in Below(k)
BY DEF Below

\* The checksum of a data packet fits two bytes.
LEMMA IbmHalfword ==
    ASSUME NEW data \in ByteStrings
    PROVE  crc16_ibm(data) \in Halfwords
<1>1. crc16_ibm(data) \in Nat /\ crc16_ibm(data) < 65536
    BY ChecksumsFit, SMT
<1>2. ASSUME NEW n \in Nat, n < 65536 PROVE n \in Halfwords
    BY <1>2, BelowIf, SMT DEF Halfwords
<1> QED BY <1>1, <1>2, SMT

\* Four bytes of that number have another when they are changed.
WordChanges(n) == \A c, k : Changed(c, Bytes(n, 4), k) => BigEndian(c) # BigEndian(Bytes(n, 4))

\* What is behind the first n bytes.
LEMMA DropIs ==
    ASSUME NEW b, NEW i, NEW f, At(b, i, f), Len(b) = i + Len(f)
    PROVE  Drop(b, i) = f
BY AtSlice DEF Drop, Slice

\* A change of the preamble makes it no packet.
LEMMA PreambleDamaged ==
    ASSUME NEW b, NEW c, NEW k \in 1..4, Changed(c, b, k), At(b, 0, Zeros(4)), Len(b) >= 8
    PROVE  Understood(c) \in {Refused, Waiting}
<1>1. c \in ByteStrings /\ Len(c) \in Nat /\ Len(c) >= 8 /\ Len(c) = Len(b)
    BY DEF Changed, ByteStrings
<1>2. PreambleLen = 4 /\ LoginLen = 17
    BY FieldsAssumption
<1>3. ASSUME NEW i \in 1..4 PROVE b[i] = 0 /\ i \in 1..Len(b)
    <2>1. i \in 1..Len(Zeros(4)) /\ 0 + i = i /\ Zeros(4)[i] = 0
        BY PreambleIs
    <2>2. b[0 + i] = Zeros(4)[i]
        BY <2>1, AtByte
    <2> QED BY <1>1, <2>1, <2>2
<1>4. c[k] # 0 /\ \A i \in 1..4 : i # k => c[i] = 0
    BY <1>3 DEF Changed
<1>5. ~IsPrefix(Zeros(PreambleLen), c)
    <2>1. IsPrefix(Zeros(4), c) => c[k] = Zeros(4)[k]
        BY <1>1, PreambleIs, PrefixElements
    <2> QED BY <1>2, <1>4, <2>1, PreambleIs
<1>6. ~(Len(c) < PreambleLen)
    BY <1>1, <1>2
<1>7. CASE ~IsPrefix(<<0, 15>>, c)
    <2>1. TeltonikaTurn(c) = Fail
        BY <1>5, <1>6, <1>7 DEF TeltonikaTurn
    <2> QED BY <1>1, <2>1, TeltonikaTaken
<1>8. CASE IsPrefix(<<0, 15>>, c)
    <2>1. c[2] = 15
        <3>1. 2 \in 1..Len(<<0, 15>>) /\ <<0, 15>>[2] = 15
            OBVIOUS
        <3> QED BY <1>1, <1>8, <3>1, Marks, PrefixElements
    <2>2. c[3] = 0
        <3>1. k = 2
            <4>1. 2 \in 1..4 /\ 15 # 0
                OBVIOUS
            <4> QED BY <1>4, <2>1, <4>1, Zenon
        <3>2. 3 \in 1..4 /\ 3 # 2
            OBVIOUS
        <3> QED BY <1>4, <3>1, <3>2, Zenon
    <2>3. CASE Len(c) < 17
        <3>1. TeltonikaTurn(c) = Wait
            BY <1>2, <1>5, <1>6, <1>8, <2>3 DEF TeltonikaTurn
        <3> QED BY <1>1, <3>1, TeltonikaTaken
    <2>4. CASE ~(Len(c) < 17)
        <3>1. ~GoodLogin(c)
            <4> DEFINE s == SubSeq(c, 3, 17)
            <4>1. Len(s) = 15 /\ s[1] = c[3]
                BY <1>1, <2>4 DEF ByteStrings
            <4> HIDE DEF s
            <4>2. 1 \in 1..15 /\ 0 \notin 48..57
                OBVIOUS
            <4>3. ~Digits(s)
                BY <2>2, <4>1, <4>2, Zenon DEF Digits
            <4> QED BY <1>2, <4>3 DEF GoodLogin, s
        <3>2. TeltonikaTurn(c) = Fail
            BY <1>2, <1>5, <1>6, <1>8, <2>4, <3>1 DEF TeltonikaTurn
        <3> QED BY <1>1, <3>2, TeltonikaTaken
    <2> QED BY <2>3, <2>4
<1> QED BY <1>7, <1>8

\* A checksum right by chance, behind the l bytes of data that a length announces.
ByChanceIn(b, l, n) ==
    l < n /\ BigEndian(Slice(b, 8 + l, 12 + l)) = crc16_ibm(Slice(b, 8, 8 + l))

\* The first bytes of a string, and what lies in them.
LEMMA Beginning ==
    ASSUME NEW b \in ByteStrings, NEW t \in 0..Len(b), NEW i \in 0..t, NEW j \in i..t
    PROVE  /\ IsString(SubSeq(b, 1, t), t)
           /\ Slice(SubSeq(b, 1, t), i, j) = Slice(b, i, j)
<1>1. /\ Len(b) \in Nat /\ t \in Nat /\ t <= Len(b) /\ i \in Nat /\ j \in Nat /\ i <= j /\ j <= t
    BY DEF ByteStrings
<1> DEFINE s == SubSeq(b, 1, t)
           u == SubSeq(s, i + 1, j)
           v == SubSeq(b, i + 1, j)
<1>2. s \in Seq(0..255) /\ Len(s) = t
    <2>1. 1 \in 1..(Len(b) + 1) /\ t \in 0..Len(b)
        BY <1>1
    <2>2. s \in Seq(0..255)
        BY <2>1, SubSeqTyped DEF ByteStrings
    <2> QED BY <1>1, <2>2 DEF ByteStrings
<1>3. u \in Seq(0..255) /\ v \in Seq(0..255) /\ Len(u) = j - i /\ Len(v) = j - i
    <2>1. i + 1 \in 1..(t + 1) /\ j \in 0..t /\ i + 1 \in 1..(Len(b) + 1) /\ j \in 0..Len(b)
        BY <1>1
    <2> HIDE DEF s
    <2>2. u \in Seq(0..255) /\ v \in Seq(0..255)
        BY <1>2, <2>1, SubSeqTyped DEF ByteStrings
    <2> QED BY <1>1, <1>2, <2>1, <2>2 DEF ByteStrings
<1>4. ASSUME NEW k \in 1..(j - i) PROVE u[k] = v[k]
    <2>1. u[k] = s[i + k]
        <3> HIDE DEF s
        <3> QED BY <1>1, <1>2
    <2>2. s[i + k] = b[i + k]
        BY <1>1 DEF ByteStrings
    <2>3. v[k] = b[i + k]
        BY <1>1 DEF ByteStrings
    <2> QED BY <2>1, <2>2, <2>3
<1> HIDE DEF u, v
<1>5. u = v
    BY <1>3, <1>4, SeqEqual
<1> QED BY <1>2, <1>5 DEF IsString, ByteStrings, Slice, u, v, s

(***************************************************************************)
(* A data packet that announces another length than it has is refused or    *)
(* waited for, but by chance.                                               *)
(***************************************************************************)
LEMMA LengthDamaged ==
    ASSUME NEW b, NEW n \in Nat, IsString(b, 12 + n), At(b, 0, Zeros(4)),
           NEW l \in Nat, BigEndian(Slice(b, 4, 8)) = l, l # n \/ l > MaxPrefix, ~ByChanceIn(b, l, n)
    PROVE  Understood(b) \in {Refused, Waiting}
<1>1. b \in ByteStrings /\ Len(b) = 12 + n /\ Len(b) \in Nat
    BY DEF IsString
<1>2. TeltonikaTurn(b) = IF ~LegalLength(l) THEN Fail
                         ELSE IF n < l THEN Wait ELSE Take(12 + l, <<SubSeq(b, 1, 12 + l)>>)
    BY AnyPacketTurn
<1>3. CASE ~LegalLength(l)
    BY <1>1, <1>2, <1>3, TeltonikaTaken
<1>4. CASE LegalLength(l) /\ n < l
    BY <1>1, <1>2, <1>4, TeltonikaTaken
<1>5. CASE LegalLength(l) /\ ~(n < l)
    <2> DEFINE f == SubSeq(b, 1, 12 + l)
    <2>1. l < n
        <3>1. l <= MaxPacket /\ MaxPacket \in Nat
            BY <1>5, SizesAssumption DEF LegalLength
        <3>2. ~(l > MaxPrefix)
            BY <3>1, LimitAssumption DEF MaxPrefix
        <3> QED BY <1>5, <3>2
    <2>2. 12 + l \in 1..Len(b) /\ 12 + l \in 0..Len(b)
        BY <1>1, <2>1
    <2>3. ASSUME NEW i \in 0..(12 + l), NEW j \in i..(12 + l)
          PROVE  IsString(f, 12 + l) /\ Slice(f, i, j) = Slice(b, i, j)
        BY <1>1, <2>2, Beginning
    <2> HIDE DEF f
    <2>4. /\ IsString(f, 12 + l) /\ Slice(f, 0, 4) = Slice(b, 0, 4) /\ Slice(f, 4, 8) = Slice(b, 4, 8)
          /\ Slice(f, 8, 8 + l) = Slice(b, 8, 8 + l) /\ Slice(f, 8 + l, 12 + l) = Slice(b, 8 + l, 12 + l)
        <3>1. /\ 0 \in 0..(12 + l) /\ 4 \in 0..(12 + l) /\ 4 \in 4..(12 + l) /\ 8 \in 4..(12 + l)
              /\ 8 \in 0..(12 + l) /\ 8 + l \in 8..(12 + l) /\ 8 + l \in 0..(12 + l)
              /\ 12 + l \in (8 + l)..(12 + l)
            OBVIOUS
        <3> QED BY <2>3, <3>1, Zenon
    <2>5. Len(f) = 12 + l /\ f \in ByteStrings
        BY <2>4 DEF IsString
    <2>6. At(f, 0, Zeros(4))
        <3>1. Slice(b, 0, 0 + Len(Zeros(4))) = Zeros(4)
            BY AtSlice
        <3>2. 0 + 4 = 4
            OBVIOUS
        <3>3. Slice(f, 0, 4) = Zeros(4)
            BY <2>4, <3>1, <3>2, PreambleIs, Zenon
        <3>4. SubSeq(f, 1, Len(Zeros(4))) = Zeros(4)
            BY <3>3, PreambleIs DEF Slice
        <3>5. IsPrefix(Zeros(4), f)
            <4>1. SubSeq(Zeros(4), 1, 4) = Zeros(4)
                BY PreambleIs DEF ByteStrings
            <4> QED BY <2>5, <3>4, <4>1, PreambleIs DEF IsPrefix
        <3>6. Len(Zeros(4)) <= Len(f)
            <4>1. 4 <= 12 + l
                OBVIOUS
            <4> QED BY <2>5, <4>1, PreambleIs, Zenon
        <3> QED BY <2>5, <3>5, <3>6, PreambleIs, PrefixIs
    <2>7. Drop(f, 8 + l) = Slice(f, 8 + l, 12 + l)
        BY <2>5 DEF Drop, Slice
    <2>8. ~CrcMatches(Slice(f, 8, 8 + l), BigEndian(Drop(f, 8 + l)))
        BY <2>1, <2>4, <2>7 DEF CrcMatches, ByChanceIn
    <2>9. TeltonikaParse(f) = Refused
        <3>1. CASE l >= 3
            BY <2>4, <2>6, <2>8, <3>1, PacketParse
        <3>2. CASE ~(l >= 3)
            <4>1. Len(f) < 15 /\ Len(f) # 17
                BY <2>5, <3>2
            <4> QED BY <4>1, FieldsAssumption DEF TeltonikaParse, parse_avl_packet
        <3> QED BY <3>1, <3>2
    <2>10. Understood(b) \in {Refused, TeltonikaParse(f)}
        BY <1>1, <1>2, <1>5, <2>2, <2>5, FirstFrame DEF f
    <2> QED BY <2>9, <2>10
<1> QED BY <1>3, <1>4, <1>5

(***************************************************************************)
(* A data packet one byte of which has been changed is refused or waited    *)
(* for, but by chance.                                                      *)
(***************************************************************************)
LEMMA DamagedIsRefused ==
    ASSUME NEW m, AvlFits(m), NEW c, NEW k, Changed(c, AvlWire(m), k),
           ~ByChanceIn(c, BigEndian(Slice(c, 4, 8)), Len(AvlData(m)))
    PROVE  Understood(c) \in {Refused, Waiting}
<1> DEFINE b == AvlWire(m)
           d == AvlData(m)
           n == Len(AvlData(m))
           s == Bytes(crc16_ibm(AvlData(m)), 4)
<1>1. /\ IsString(b, 12 + n) /\ At(b, 0, Zeros(4)) /\ At(b, 4, Bytes(n, 4)) /\ At(b, 8, d)
      /\ At(b, 8 + n, s) /\ IsString(Bytes(n, 4), 4) /\ IsString(s, 4)
      /\ BigEndian(Bytes(n, 4)) = n /\ BigEndian(s) = crc16_ibm(d)
    BY AvlWireFields, Zenon
<1>2. n \in Nat /\ n >= 3 /\ d \in ByteStrings /\ n = Len(d) /\ n <= MaxInt
    BY AvlTyped, Zenon
<1>3. crc16_ibm(d) \in Halfwords
    BY <1>2, IbmHalfword, Zenon
<1>4. Changed(c, b, k)
    OBVIOUS
<1>5. WordChanges(crc16_ibm(d))
    BY <1>3, WordChanged, Zenon DEF WordChanges
<1>6. Changed(c, b, k) => IsString(c, 12 + n) /\ k \in 1..(12 + n)
    BY <1>1, Zenon DEF Changed, IsString
<1>10. ~ByChanceIn(c, BigEndian(Slice(c, 4, 8)), n)
    OBVIOUS
<1> HIDE DEF b, d, n, s
<1>7. c \in ByteStrings /\ Len(c) = 12 + n /\ k \in 1..(12 + n)
    BY <1>4, <1>6, Zenon DEF IsString
<1>8. CASE k \in 1..4
    <2>1. Len(b) >= 8
        BY <1>1, <1>2 DEF IsString
    <2> QED BY <1>1, <1>4, <1>8, <2>1, PreambleDamaged
<1>11. CASE k \in 5..8
    <2> DEFINE x == Slice(c, 4, 8)
    <2>1. k \in Nat /\ k > 4 /\ k <= 4 + 4 /\ k > 0 + 4
        BY <1>11
    <2>2. At(c, 0, Zeros(4))
        BY <1>1, <1>4, <2>1, PreambleIs, ChangedElsewhere
    <2>3. Changed(x, Bytes(n, 4), k - 4)
        <3>4. 4 + 4 = 8
            OBVIOUS
        <3>1. Len(Bytes(n, 4)) = 4 /\ 4 + 4 = 8
            BY <1>1, <3>4, Zenon DEF IsString
        <3>2. k > 4 /\ k <= 4 + Len(Bytes(n, 4))
            BY <2>1, <3>1, Zenon
        <3>3. Changed(Slice(c, 4, 4 + Len(Bytes(n, 4))), Bytes(n, 4), k - 4)
            BY <1>1, <1>4, <3>2, ChangedWithin
        <3> QED BY <3>1, <3>3, Zenon
    <2>4. x \in ByteStrings
        BY <2>3 DEF Changed
    <2> HIDE DEF x
    <2>5. BigEndian(x) \in Nat
        BY <2>4, BigEndianSteps
    <2>6. BigEndian(x) # n \/ BigEndian(x) > MaxPrefix
        BY <1>2, <2>3, NumberChanged
    <2>7. IsString(c, 12 + n)
        BY <1>7 DEF IsString
    <2>8. ~ByChanceIn(c, BigEndian(x), n) /\ BigEndian(Slice(c, 4, 8)) = BigEndian(x)
        BY <1>10 DEF x
    <2> QED BY <1>2, <2>2, <2>5, <2>6, <2>7, <2>8, LengthDamaged
<1>9. CASE k \notin 1..8
    <2>1. k > 8 /\ k \in Nat
        BY <1>2, <1>7, <1>9
    <2>2. At(c, 0, Zeros(4))
        <3>1. k > 0 + Len(Zeros(4))
            <4>1. k > 0 + 4
                BY <2>1
            <4> QED BY <4>1, PreambleIs, Zenon
        <3> QED BY <1>1, <1>4, <3>1, ChangedElsewhere
    <2>3. At(c, 4, Bytes(n, 4))
        <3>1. Len(Bytes(n, 4)) = 4
            BY <1>1, Zenon DEF IsString
        <3>2. k > 4 + Len(Bytes(n, 4))
            <4>1. k > 4 + 4
                BY <2>1
            <4> QED BY <3>1, <4>1, Zenon
        <3> QED BY <1>1, <1>4, <3>2, ChangedElsewhere
    <2>4. BigEndian(Slice(c, 4, 8)) = n
        <3>1. Slice(c, 4, 4 + Len(Bytes(n, 4))) = Bytes(n, 4)
            BY <2>3, AtSlice
        <3>2. Len(Bytes(n, 4)) = 4
            BY <1>1, Zenon DEF IsString
        <3>3. 4 + 4 = 8
            OBVIOUS
        <3>4. Slice(c, 4, 8) = Bytes(n, 4)
            BY <3>1, <3>2, <3>3, Zenon
        <3> QED BY <1>1, <3>4, Zenon
    <2>5. ~CrcMatches(Slice(c, 8, 8 + n), BigEndian(Drop(c, 8 + n)))
        <3>1. CASE k <= 8 + n
            <4>1. At(c, 8 + n, s)
                BY <1>1, <1>4, <3>1, ChangedElsewhere
            <4>2. Drop(c, 8 + n) = s
                <5>1. Len(c) = 8 + n + Len(s)
                    BY <1>1, <1>2, <1>7 DEF IsString
                <5> QED BY <4>1, <5>1, DropIs
            <4>3. Changed(Slice(c, 8, 8 + n), d, k - 8)
                <5>1. k > 8 /\ k <= 8 + Len(d)
                    BY <1>2, <2>1, <3>1
                <5> QED BY <1>1, <1>2, <1>4, <5>1, ChangedWithin
            <4>4. crc16_ibm(Slice(c, 8, 8 + n)) # crc16_ibm(d)
                BY <4>3, IbmMatters DEF Changed
            <4> QED BY <1>1, <4>2, <4>4 DEF CrcMatches
        <3>2. CASE ~(k <= 8 + n)
            <4>1. At(c, 8, d)
                <5>1. k > 8 + Len(d)
                    BY <1>2, <2>1, <3>2
                <5> QED BY <1>1, <1>4, <5>1, ChangedElsewhere
            <4>2. Slice(c, 8, 8 + n) = d
                BY <1>2, <4>1, AtSlice
            <4>3. Changed(Slice(c, 8 + n, 8 + n + Len(s)), s, k - (8 + n))
                <5>1. k > 8 + n /\ k <= 8 + n + Len(s)
                    BY <1>1, <1>2, <1>7, <2>1, <3>2 DEF IsString
                <5> QED BY <1>1, <1>4, <5>1, ChangedWithin
            <4>4. Drop(c, 8 + n) = Slice(c, 8 + n, 8 + n + Len(s))
                <5>1. Len(c) = 8 + n + Len(s)
                    BY <1>1, <1>2, <1>7 DEF IsString
                <5> QED BY <5>1 DEF Drop, Slice
            <4>5. BigEndian(Drop(c, 8 + n)) # BigEndian(s)
                BY <1>5, <4>3, <4>4, Zenon DEF s, d, WordChanges
            <4> QED BY <1>1, <4>2, <4>5 DEF CrcMatches
        <3> QED BY <3>1, <3>2
    <2>6. IsString(c, 12 + n)
        BY <1>7 DEF IsString
    <2>7. TeltonikaTurn(c) = IF LegalLength(n) THEN Take(Len(c), <<c>>) ELSE Fail
        BY <1>2, <2>2, <2>4, <2>6, PacketTurn
    <2>8. TeltonikaParse(c) = Refused
        BY <1>2, <2>2, <2>4, <2>5, <2>6, PacketParse
    <2> QED BY <1>7, <2>7, <2>8, TeltonikaTaken
<1> QED BY <1>8, <1>9, <1>11
-----------------------------------------------------------------------------
(***************************************************************************)
(* A message on its way: the invariant.                                     *)
(***************************************************************************)

\* A message under way is one of the samples.
MessageInv ==
    /\ msg = None => got = None /\ damaged = 0
    /\ msg # None => msg \in Samples

\* Its bytes are those it was sent as, but for the one that has been changed.
WireInv ==
    /\ (msg # None /\ damaged = 0) => wire = Wire(msg)
    /\ damaged # 0 => /\ msg # None /\ msg.family = "TELTONIKA" /\ msg.kind = "avl"
                      /\ Changed(wire, AvlWire(msg), damaged)

\* What has been made of it comes from those bytes.
HeardInv ==
    got # None =>
        /\ msg.family = "GT06" =>
              LET r == extract_packets[wire]
              IN  got = Taken(r, Gt06Parse(r.frames[1])) /\ reply = Taken(r, build_ack(r.frames[1]))
        /\ msg.family = "GPS103" => got = Gps103Parse(wire)
        /\ msg.family = "TELTONIKA" =>
              /\ got = Understood(wire)
              /\ got \in {Refused, Waiting} => reply = <<>>
        /\ msg.family = "COMMAND" => got = CommandRead(wire)

DecodingInv == MessageInv /\ WireInv /\ HeardInv

\* The bytes of a data packet.
LEMMA AvlSample ==
    ASSUME NEW m \in Samples, m.family = "TELTONIKA", m.kind = "avl"
    PROVE  AvlFits(m) /\ Wire(m) = AvlWire(m) /\ AvlWire(m) \in ByteStrings
<1>1. Fitting(m)
    BY SamplesAssumption
<1>2. AvlFits(m)
    BY <1>1 DEF Fitting
<1>3. Wire(m) = AvlWire(m)
    BY DEF Wire
<1>4. AvlWire(m) \in ByteStrings
    BY <1>2, AvlWireFields, Zenon DEF IsString
<1> QED BY <1>2, <1>3, <1>4

\* DecodingInv holds before the first message.
LEMMA DecodingStarts == DecodingInit => DecodingInv
BY DEF DecodingInit, DecodingInv, MessageInv, WireInv, HeardInv

\* Every step of sender, line and receiver preserves DecodingInv.
LEMMA DecodingStep == DecodingInv /\ [DecodingNext]_decodingVars => DecodingInv'
<1> SUFFICES ASSUME DecodingInv, [DecodingNext]_decodingVars PROVE DecodingInv'
    OBVIOUS
<1> USE DEF DecodingInv
<1>1. ASSUME NEW m \in Samples, Send(m) PROVE DecodingInv'
    <2>1. msg = None /\ msg' = m /\ wire' = Wire(m) /\ damaged' = damaged /\ got' = got /\ reply' = reply
        BY <1>1 DEF Send
    <2>2. got' = None /\ damaged' = 0 /\ msg' # None
        BY <2>1, SamplesAssumption DEF MessageInv
    <2>3. MessageInv'
        BY <2>1, <2>2 DEF MessageInv
    <2>4. WireInv'
        BY <2>1, <2>2 DEF WireInv
    <2>5. HeardInv'
        BY <2>2 DEF HeardInv
    <2> QED BY <2>3, <2>4, <2>5
<1>2. ASSUME NEW mask \in Masks, Damage(mask) PROVE DecodingInv'
    <2>1. PICK k \in 1..Len(wire) :
             /\ wire' = [wire EXCEPT ![k] = Number(Xor(BitSet(@), BitSet(mask)))]
             /\ damaged' = k
        BY <1>2 DEF Damage
    <2>2. /\ msg # None /\ got = None /\ damaged = 0 /\ msg.family = "TELTONIKA" /\ msg.kind = "avl"
          /\ msg' = msg /\ got' = got /\ reply' = reply
        BY <1>2 DEF Damage
    <2>3. msg \in Samples /\ wire = AvlWire(msg) /\ wire \in ByteStrings
        <3>1. msg \in Samples /\ wire = Wire(msg)
            BY <2>2 DEF MessageInv, WireInv
        <3> QED BY <2>2, <3>1, AvlSample
    <2>4. mask \in 1..255
        BY MasksAssumption, SMTT(40)
    <2>5. Changed(wire', wire, k)
        BY <2>1, <2>3, <2>4, DamageChanges
    <2>6. damaged' # 0
        <3>1. Len(wire) \in Nat
            BY <2>3 DEF ByteStrings
        <3> QED BY <2>1, <3>1
    <2>7. Changed(wire', AvlWire(msg'), damaged')
        BY <2>1, <2>2, <2>3, <2>5
    <2>8. MessageInv'
        BY <2>2, <2>3 DEF MessageInv
    <2>9. WireInv'
        BY <2>2, <2>6, <2>7 DEF WireInv
    <2>10. HeardInv'
        BY <2>2 DEF HeardInv
    <2> QED BY <2>8, <2>9, <2>10
<1>3. CASE Receive
    <2>1. msg # None /\ got = None /\ msg' = msg /\ wire' = wire /\ damaged' = damaged
        BY <1>3 DEF Receive
    <2>2. MessageInv'
        BY <2>1 DEF MessageInv
    <2>3. WireInv'
        BY <2>1 DEF WireInv
    <2>4. HeardInv'
        <3>1. ASSUME msg.family = "GT06" PROVE HeardInv'
            BY <1>3, <2>1, <3>1 DEF Receive, HeardInv
        <3>2. ASSUME msg.family = "GPS103" PROVE HeardInv'
            BY <1>3, <2>1, <3>2 DEF Receive, HeardInv
        <3>3. ASSUME msg.family = "TELTONIKA" PROVE HeardInv'
            BY <1>3, <2>1, <3>3 DEF Receive, HeardInv, Understood
        <3>4. ASSUME msg.family = "COMMAND" PROVE HeardInv'
            BY <1>3, <2>1, <3>4 DEF Receive, HeardInv
        <3>5. msg.family \in {"GT06", "GPS103", "TELTONIKA", "COMMAND"}
            BY <1>3 DEF Receive
        <3> QED BY <3>1, <3>2, <3>3, <3>4, <3>5
    <2> QED BY <2>2, <2>3, <2>4
<1>4. CASE Done
    BY <1>4 DEF Done, MessageInv, WireInv, HeardInv
<1>5. CASE UNCHANGED decodingVars
    BY <1>5 DEF decodingVars, MessageInv, WireInv, HeardInv
<1> QED BY <1>1, <1>2, <1>3, <1>4, <1>5 DEF DecodingNext

\* The receiver works on the bytes that were sent, one of them changed at most.
THEOREM DecodingInvariant == DecodingSpec => []DecodingInv
<1>1. DecodingInit => DecodingInv
    BY DecodingStarts
<1>2. DecodingInv /\ [DecodingNext]_decodingVars => DecodingInv'
    BY DecodingStep
<1> QED BY <1>1, <1>2, PTL DEF DecodingSpec

(***************************************************************************)
(* "CRC mismatch. The packet is not acknowledged so the device resends it": *)
(* whatever a device sends, and whichever byte of a data packet is changed  *)
(* on the way, in whichever way: it is neither decoded nor answered         *)
(* (extract_frames, parse_avl_packet), unless its length became smaller and *)
(* the checksum of what is left happens to follow.                          *)
(***************************************************************************)
THEOREM DamageIsRefused == DecodingSpec => []DamageRefused
<1>1. DecodingInv => DamageRefused
    <2> SUFFICES ASSUME DecodingInv, got # None, damaged # 0, ~ByChance
                 PROVE  got \in {Refused, Waiting} /\ reply = << >>
        BY DEF DamageRefused
    <2>1. ~ByChanceIn(wire, BigEndian(Slice(wire, 4, 8)), Len(AvlData(msg)))
        <3>1. AvlLength(wire) = BigEndian(Slice(wire, 4, 8))
            BY FieldsAssumption DEF AvlLength, Slice
        <3> QED BY <3>1 DEF ByChance, ByChanceIn
    <2>2. msg # None /\ msg.family = "TELTONIKA" /\ msg.kind = "avl" /\ Changed(wire, AvlWire(msg), damaged)
        BY DEF DecodingInv, WireInv
    <2>3. AvlFits(msg)
        BY <2>2, AvlSample DEF DecodingInv, MessageInv
    <2>4. Understood(wire) \in {Refused, Waiting}
        BY <2>1, <2>2, <2>3, DamagedIsRefused
    <2>5. /\ got = Understood(wire)
          /\ got \in {Refused, Waiting} => reply = << >>
        BY <2>2 DEF DecodingInv, HeardInv
    <2> QED BY <2>4, <2>5
<1> QED BY <1>1, DecodingInvariant, PTL
-----------------------------------------------------------------------------
(***************************************************************************)
(* GT06 frames: a start, a body, its checksum and CR LF.                    *)
(***************************************************************************)
Sealed(start, body) == start \o body \o Bytes(crc16_x25(body), 2) \o <<13, 10>>

\* The checksum of a GT06 frame fits its two bytes.
LEMMA X25Halfword ==
    ASSUME NEW data \in ByteStrings
    PROVE  crc16_x25(data) \in Halfwords
<1>1. crc16_x25(data) \in Nat /\ crc16_x25(data) < 65536
    BY ChecksumsFit, SMT
<1>2. ASSUME NEW n \in Nat, n < 65536 PROVE n \in Halfwords
    BY <1>2, BelowIf, SMT DEF Halfwords
<1> QED BY <1>1, <1>2, SMT

\* Strings of two bytes.
LEMMA TwoByteStrings ==
    ASSUME NEW x \in 0..255, NEW y \in 0..255
    PROVE  IsString(<<x, y>>, 2) /\ <<x, y>>[1] = x /\ <<x, y>>[2] = y
BY DEF IsString, ByteStrings

\* Where start, body, checksum and stop lie.
LEMMA SealedFields ==
    ASSUME NEW start, IsString(start, 2), NEW body \in ByteStrings
    PROVE  /\ IsString(Sealed(start, body), Len(body) + 6) /\ Len(body) \in Nat
           /\ At(Sealed(start, body), 0, start) /\ At(Sealed(start, body), 2, body)
           /\ At(Sealed(start, body), 2 + Len(body), Bytes(crc16_x25(body), 2))
           /\ At(Sealed(start, body), 4 + Len(body), <<13, 10>>)
           /\ IsString(Bytes(crc16_x25(body), 2), 2) /\ IsString(<<13, 10>>, 2)
           /\ BigEndian(Bytes(crc16_x25(body), 2)) = crc16_x25(body)
<1> DEFINE n == Len(body)
           s == Bytes(crc16_x25(body), 2)
           e == <<13, 10>>
<1>1. IsString(body, n) /\ n \in Nat
    BY DEF IsString, ByteStrings
<1>2. IsString(s, 2) /\ BigEndian(s) = crc16_x25(body)
    <2>1. crc16_x25(body) \in Halfwords
        BY X25Halfword
    <2> QED BY <2>1, HalfwordIs, Zenon DEF IsString
<1>3. IsString(e, 2)
    <2>1. 13 \in 0..255 /\ 10 \in 0..255
        OBVIOUS
    <2> QED BY <2>1, TwoByteStrings, ZenonT(60)
<1>4. Sealed(start, body) = start \o body \o s \o e
    BY DEF Sealed
<1> HIDE DEF n, s, e
<1> DEFINE p2 == start \o body
           p3 == p2 \o s
           p4 == p3 \o e
<1>12. IsString(p2, 2 + n) /\ At(p2, 2, body) /\ Keeps(start, p2)
    BY <1>1, AppendAt, Zenon
<1> HIDE DEF p2
<1>13. IsString(p3, 4 + n) /\ At(p3, 2 + n, s) /\ Keeps(p2, p3)
    <2>1. IsString(p3, 2 + n + 2) /\ At(p3, 2 + n, s) /\ Keeps(p2, p3)
        BY <1>2, <1>12, AppendAt, Zenon
    <2>2. 2 + n + 2 = 4 + n
        BY <1>1
    <2> HIDE DEF p3
    <2> QED BY <2>1, <2>2, Zenon
<1> HIDE DEF p3
<1>14. IsString(p4, n + 6) /\ At(p4, 4 + n, e) /\ Keeps(p3, p4)
    <2>1. IsString(p4, 4 + n + 2) /\ At(p4, 4 + n, e) /\ Keeps(p3, p4)
        BY <1>3, <1>13, AppendAt, Zenon
    <2>2. 4 + n + 2 = n + 6
        BY <1>1
    <2> HIDE DEF p4
    <2> QED BY <2>1, <2>2, Zenon
<1> HIDE DEF p4
<1>15. At(p4, 0, start) /\ At(p4, 2, body) /\ At(p4, 2 + n, s)
    <2>1. At(start, 0, start)
        BY AtWhole, Zenon DEF IsString
    <2> QED BY <2>1, <1>12, <1>13, <1>14, Zenon DEF Keeps
<1>16. Sealed(start, body) = p4
    BY <1>4 DEF p2, p3, p4
<1>17. /\ IsString(Sealed(start, body), n + 6) /\ At(Sealed(start, body), 0, start)
       /\ At(Sealed(start, body), 2, body) /\ At(Sealed(start, body), 2 + n, s)
       /\ At(Sealed(start, body), 4 + n, e)
    BY <1>14, <1>15, <1>16, Zenon
<1> QED BY <1>1, <1>2, <1>3, <1>17, Zenon DEF n, s, e

\* The start of a frame and the length its body gives.
ShortBody(start, body) == start = <<120, 120>> /\ body[1] = Len(body) + 1

LongBody(start, body) == start = <<121, 121>> /\ TwoBytes(body[1], body[2]) = Len(body)

IsBody(start, body) ==
    /\ body \in ByteStrings /\ Len(body) >= 2
    /\ ShortBody(start, body) \/ LongBody(start, body)

\* The two start bytes are alike.
LEMMA StartIs ==
    ASSUME NEW start, NEW body, IsBody(start, body)
    PROVE  /\ IsString(start, 2) /\ start[1] \in {120, 121} /\ start[2] = start[1]
           /\ start = <<start[1], start[1]>>
<1>1. PICK x \in {120, 121} : start = <<x, x>>
    BY DEF IsBody, ShortBody, LongBody
<1>2. x \in 0..255
    OBVIOUS
<1> QED BY <1>1, <1>2, TwoByteStrings, ZenonT(60)

\* The framer gives it as it is.
LEMMA SealedIsFrame ==
    ASSUME NEW start, NEW body, IsBody(start, body)
    PROVE  /\ extract_packets[Sealed(start, body)] = Extracted(<<Sealed(start, body)>>, <<>>)
           /\ IsFrame(Sealed(start, body))
<1> DEFINE b == Sealed(start, body)
           n == Len(body)
<1>1. body \in ByteStrings /\ n >= 2
    BY DEF IsBody
<1>2. IsString(start, 2) /\ start[1] \in {120, 121} /\ start[2] = start[1]
    BY StartIs
<1>3. /\ IsString(b, n + 6) /\ n \in Nat /\ At(b, 0, start) /\ At(b, 2, body)
      /\ At(b, 2 + n, Bytes(crc16_x25(body), 2)) /\ At(b, 4 + n, <<13, 10>>)
      /\ IsString(Bytes(crc16_x25(body), 2), 2) /\ IsString(<<13, 10>>, 2)
      /\ BigEndian(Bytes(crc16_x25(body), 2)) = crc16_x25(body)
    BY <1>1, <1>2, SealedFields, Zenon
<1> HIDE DEF b, n
<1>4. b \in ByteStrings /\ Len(b) = n + 6
    BY <1>3, Zenon DEF IsString
<1>5. b[1] = start[1] /\ b[2] = start[2]
    <2>1. 1 \in 1..Len(start) /\ 2 \in 1..Len(start) /\ 0 + 1 = 1 /\ 0 + 2 = 2
        BY <1>2 DEF IsString
    <2>2. At(b, 0, start)
        BY <1>3
    <2>3. ASSUME NEW i \in 1..Len(start) PROVE b[0 + i] = start[i]
        BY <2>2, AtByte
    <2> QED BY <2>1, <2>3
<1>6. b[3] = body[1] /\ b[4] = body[2]
    <2>1. 1 \in 1..Len(body) /\ 2 \in 1..Len(body) /\ 2 + 1 = 3 /\ 2 + 2 = 4
        BY <1>1, <1>3 DEF n
    <2>2. At(b, 2, body)
        BY <1>3
    <2>3. ASSUME NEW i \in 1..Len(body) PROVE b[2 + i] = body[i]
        BY <2>2, AtByte
    <2> QED BY <2>1, <2>3
<1>7. Gt06Total(b) = n + 6
    <2>1. CASE ShortBody(start, body)
        <3>1. b[1] = 120
            BY <1>5, <2>1 DEF ShortBody
        <3>2. b[3] = n + 1
            BY <1>6, <2>1, Zenon DEF ShortBody, n
        <3>3. n + 1 + 5 = n + 6
            BY <1>3
        <3> QED BY <3>1, <3>2, <3>3, Zenon DEF Gt06Total
    <2>2. CASE LongBody(start, body)
        <3>1. b[1] # 120
            BY <1>5, <2>2 DEF LongBody
        <3>2. 256 * b[3] + b[4] = n
            BY <1>6, <2>2, Zenon DEF LongBody, TwoBytes, n
        <3> QED BY <3>1, <3>2, Zenon DEF Gt06Total
    <2> QED BY <2>1, <2>2 DEF IsBody
<1>8. Gt06Turn(b) = Take(Len(b), <<b>>)
    <2>1. ~(Len(b) < 5) /\ ~(Len(b) < Gt06Total(b)) /\ Gt06Total(b) = Len(b)
        BY <1>1, <1>3, <1>4, <1>7
    <2>2. SubSeq(b, 1, Len(b)) = b
        BY <1>4 DEF ByteStrings
    <2>3. ~(b[1] \notin {120, 121} \/ b[2] # b[1])
        BY <1>2, <1>5
    <2> QED BY <2>1, <2>2, <2>3, Zenon DEF Gt06Turn
<1>9. extract_packets[b] = Extracted(<<b>>, << >>)
    <2>1. Gt06Turns[b] = Take(Len(b), <<b>>)
        BY <1>4, <1>8 DEF Gt06Turns
    <2>2. Gt06Turns[<< >>] = Wait
        BY DEF Gt06Turns, Gt06Turn, ByteStrings
    <2> QED BY <1>4, <2>1, <2>2, Gt06Unfolds, OneFrame
<1>10. BigEndian(Slice(b, Len(b) - 4, Len(b) - 2)) = crc16_x25(Slice(b, 2, Len(b) - 4))
    <2> DEFINE s == Bytes(crc16_x25(body), 2)
    <2>1. Len(s) = 2 /\ Len(b) - 4 = 2 + n /\ 2 + n + 2 = Len(b) - 2 /\ n = Len(body)
        BY <1>3, <1>4 DEF IsString, n
    <2> HIDE DEF s
    <2>2. Slice(b, 2 + n, 2 + n + Len(s)) = s
        BY <1>3, AtSlice, Zenon DEF s
    <2>3. Slice(b, 2, 2 + Len(body)) = body
        BY <1>3, AtSlice, Zenon
    <2> QED BY <1>3, <2>1, <2>2, <2>3, Zenon DEF s
<1>11. Drop(b, Len(b) - 2) = <<13, 10>>
    <2>1. Len(b) - 2 = 4 + n /\ Len(b) = 4 + n + Len(<<13, 10>>)
        BY <1>3, <1>4 DEF IsString
    <2> QED BY <1>3, <2>1, DropIs, Zenon
<1> QED BY <1>9, <1>10, <1>11 DEF IsFrame, b
-----------------------------------------------------------------------------
(***************************************************************************)
(* What a GT06 device sends.                                                *)
(***************************************************************************)

\* Bits of the course and of the terminal's status.
LEMMA Powers ==
    /\ 2^0 = 1 /\ 2^1 = 2 /\ 2^2 = 4 /\ 2^6 = 64 /\ 2^7 = 128
    /\ 2^10 = 1024 /\ 2^11 = 2048 /\ 2^12 = 4096
OBVIOUS

\* Heading and flags share the two bytes of the course.
LEMMA CourseBits ==
    ASSUME NEW h \in 0..1023, NEW p \in {0, 1024}, NEW q \in {0, 2048}, NEW r \in {0, 4096}
    PROVE  /\ h + p + q + r \in Nat /\ h + p + q + r < 65536
           /\ (h + p + q + r) % 1024 = h
           /\ (((h + p + q + r) \div 1024) % 2 = 1) <=> p = 1024
           /\ (((h + p + q + r) \div 2048) % 2 = 1) <=> q = 2048
           /\ (((h + p + q + r) \div 4096) % 2 = 1) <=> r = 4096
BY SMT

\* The flags of the terminal information.
LEMMA InfoBits ==
    ASSUME NEW a \in {0, 2}, NEW b \in {0, 128}, NEW c \in {0, 64}, NEW d \in {0, 4}, NEW e \in {0, 1}
    PROVE  /\ a + b + c + d + e \in 0..255
           /\ (((a + b + c + d + e) \div 1) % 2 = 1) <=> e = 1
           /\ (((a + b + c + d + e) \div 2) % 2 = 1) <=> a = 2
           /\ (((a + b + c + d + e) \div 4) % 2 = 1) <=> d = 4
           /\ (((a + b + c + d + e) \div 64) % 2 = 1) <=> c = 64
           /\ (((a + b + c + d + e) \div 128) % 2 = 1) <=> b = 128
BY SMT

\* Two numbers in one byte.
LEMMA Nibbles ==
    ASSUME NEW a \in 0..15, NEW b \in 0..15
    PROVE  16 * a + b \in 0..255 /\ (16 * a + b) \div 16 = a /\ (16 * a + b) % 16 = b
BY SMT

\* Signed coordinates.
LEMMA AbsIs ==
    ASSUME NEW n \in Signed32
    PROVE  n \in Int /\ Abs(n) \in Nat /\ Abs(n) <= MaxInt
<1>1. n \in Int /\ Abs(n) <= MaxInt
    BY DEF Signed32
<1>2. Abs(n) \in Nat
    BY <1>1 DEF Abs
<1> QED BY <1>1, <1>2

Course(f) ==
    f.heading + If(f.latitude >= 0, 1024) + If(f.longitude < 0, 2048) + If(f.gps_fixed, 4096)

\* The fields of a position.
LEMMA FixFieldsAre ==
    ASSUME NEW f \in FixFields
    PROVE  /\ f = [time |-> f.time, gps_length |-> f.gps_length, satellites |-> f.satellites,
                   latitude |-> f.latitude, longitude |-> f.longitude, speed |-> f.speed,
                   heading |-> f.heading, gps_fixed |-> f.gps_fixed]
           /\ f.time \in [1..6 -> 0..255] /\ f.gps_length \in 0..15 /\ f.satellites \in 0..15
           /\ f.latitude \in Signed32 /\ f.longitude \in Signed32 /\ f.speed \in 0..255
           /\ f.heading \in 0..1023 /\ f.gps_fixed \in BOOLEAN
BY DEF FixFields, Octets

\* The parser finds in the course what was put there.
LEMMA CourseIs ==
    ASSUME NEW f \in FixFields
    PROVE  /\ Course(f) \in Halfwords /\ Course(f) % 1024 = f.heading
           /\ Bit(Course(f), 10) <=> f.latitude >= 0
           /\ Bit(Course(f), 11) <=> f.longitude < 0
           /\ Bit(Course(f), 12) = f.gps_fixed
<1> DEFINE h == f.heading
           p == If(f.latitude >= 0, 1024)
           q == If(f.longitude < 0, 2048)
           r == If(f.gps_fixed, 4096)
<1>1. h \in 0..1023 /\ f.gps_fixed \in BOOLEAN
    BY FixFieldsAre
<1>2. /\ p \in {0, 1024} /\ (p = 1024 <=> f.latitude >= 0)
      /\ q \in {0, 2048} /\ (q = 2048 <=> f.longitude < 0)
      /\ r \in {0, 4096} /\ (r = 4096 <=> f.gps_fixed)
    BY <1>1 DEF If
<1>3. Course(f) = h + p + q + r
    BY DEF Course
<1> HIDE DEF h, p, q, r
<1> DEFINE c == h + p + q + r
<1>4. /\ c \in Nat /\ c < 65536 /\ c % 1024 = h
      /\ ((c \div 1024) % 2 = 1) <=> p = 1024
      /\ ((c \div 2048) % 2 = 1) <=> q = 2048
      /\ ((c \div 4096) % 2 = 1) <=> r = 4096
    BY <1>1, <1>2, CourseBits, SMT
<1>5. c \in Halfwords
    <2> HIDE DEF c
    <2>1. ASSUME NEW n \in Nat, n < 65536 PROVE n \in Halfwords
        BY <2>1, BelowIf, SMT DEF Halfwords
    <2> QED BY <1>4, <2>1, SMT
<1> HIDE DEF c
<1>6. (Bit(c, 10) <=> p = 1024) /\ (Bit(c, 11) <=> q = 2048) /\ (Bit(c, 12) <=> r = 4096)
    BY <1>4, Powers, SMT DEF Bit
<1>7. Bit(c, 12) \in BOOLEAN
    BY DEF Bit
<1>8. Course(f) = c
    BY <1>3 DEF c
<1>9. c % 1024 = h
    BY <1>4, SMT
<1>10. /\ Bit(c, 10) <=> f.latitude >= 0
       /\ Bit(c, 11) <=> f.longitude < 0
       /\ Bit(c, 12) <=> f.gps_fixed
    BY <1>2, <1>6
<1>11. Bit(c, 12) = f.gps_fixed
    BY <1>1, <1>7, <1>10
<1> QED BY <1>5, <1>8, <1>9, <1>10, <1>11 DEF h

\* A position.
LEMMA FixBytesFields ==
    ASSUME NEW f \in FixFields
    PROVE  /\ IsString(FixBytes(f), 18)
           /\ At(FixBytes(f), 0, f.time) /\ At(FixBytes(f), 6, <<16 * f.gps_length + f.satellites>>)
           /\ At(FixBytes(f), 7, Bytes(Abs(f.latitude), 4))
           /\ At(FixBytes(f), 11, Bytes(Abs(f.longitude), 4))
           /\ At(FixBytes(f), 15, <<f.speed>>) /\ At(FixBytes(f), 16, Bytes(Course(f), 2))
           /\ IsString(f.time, 6) /\ IsString(Bytes(Abs(f.latitude), 4), 4)
           /\ IsString(Bytes(Abs(f.longitude), 4), 4) /\ IsString(Bytes(Course(f), 2), 2)
           /\ 16 * f.gps_length + f.satellites \in 0..255
<1> DEFINE f1 == f.time
           x == 16 * f.gps_length + f.satellites
           f2 == <<x>>
           f3 == Bytes(Abs(f.latitude), 4)
           f4 == Bytes(Abs(f.longitude), 4)
           f5 == <<f.speed>>
           f6 == Bytes(Course(f), 2)
<1>0. /\ f.time \in [1..6 -> 0..255] /\ f.gps_length \in 0..15 /\ f.satellites \in 0..15
      /\ f.latitude \in Signed32 /\ f.longitude \in Signed32 /\ f.speed \in 0..255
    BY FixFieldsAre
<1>1. IsString(f1, 6)
    <2>1. 6 \in Nat
        OBVIOUS
    <2> QED BY <1>0, <2>1, FunctionIsSeq, ZenonT(60) DEF IsString, ByteStrings
<1>2. x \in 0..255 /\ f.speed \in 0..255
    BY <1>0, Nibbles, ZenonT(60)
<1>3. IsString(f2, 1) /\ IsString(f5, 1)
    <2> HIDE DEF x
    <2> QED BY <1>2, OneByte, Zenon DEF IsString
<1>4. IsString(f3, 4) /\ IsString(f4, 4)
    <2>1. ASSUME NEW n \in Signed32 PROVE IsString(Bytes(Abs(n), 4), 4)
        BY AbsIs, WordIsRead, Zenon DEF IsString
    <2> QED BY <1>0, <2>1, Zenon
<1>5. IsString(f6, 2)
    <2>1. Course(f) \in Halfwords
        BY CourseIs
    <2> QED BY <2>1, HalfwordIs, Zenon DEF IsString
<1>6. FixBytes(f) = f1 \o f2 \o f3 \o f4 \o f5 \o f6
    BY DEF FixBytes, Course
<1> HIDE DEF f1, f2, f3, f4, f5, f6, x
<1> DEFINE p2 == f1 \o f2
           p3 == p2 \o f3
           p4 == p3 \o f4
           p5 == p4 \o f5
           p6 == p5 \o f6
<1>12. IsString(p2, 7) /\ At(p2, 6, f2) /\ Keeps(f1, p2)
    <2>1. IsString(p2, 6 + 1) /\ At(p2, 6, f2) /\ Keeps(f1, p2)
        BY <1>1, <1>3, AppendAt, Zenon
    <2> HIDE DEF p2
    <2> QED BY <2>1
<1> HIDE DEF p2
<1>13. IsString(p3, 11) /\ At(p3, 7, f3) /\ Keeps(p2, p3)
    <2>1. IsString(p3, 7 + 4) /\ At(p3, 7, f3) /\ Keeps(p2, p3)
        BY <1>12, <1>4, AppendAt, Zenon
    <2> HIDE DEF p3
    <2> QED BY <2>1
<1> HIDE DEF p3
<1>14. IsString(p4, 15) /\ At(p4, 11, f4) /\ Keeps(p3, p4)
    <2>1. IsString(p4, 11 + 4) /\ At(p4, 11, f4) /\ Keeps(p3, p4)
        BY <1>13, <1>4, AppendAt, Zenon
    <2> HIDE DEF p4
    <2> QED BY <2>1
<1> HIDE DEF p4
<1>15. IsString(p5, 16) /\ At(p5, 15, f5) /\ Keeps(p4, p5)
    <2>1. IsString(p5, 15 + 1) /\ At(p5, 15, f5) /\ Keeps(p4, p5)
        BY <1>14, <1>3, AppendAt, Zenon
    <2> HIDE DEF p5
    <2> QED BY <2>1
<1> HIDE DEF p5
<1>16. IsString(p6, 18) /\ At(p6, 16, f6) /\ Keeps(p5, p6)
    <2>1. IsString(p6, 16 + 2) /\ At(p6, 16, f6) /\ Keeps(p5, p6)
        BY <1>15, <1>5, AppendAt, Zenon
    <2> HIDE DEF p6
    <2> QED BY <2>1
<1> HIDE DEF p6
<1>17. /\ At(p6, 0, f1) /\ At(p6, 6, f2) /\ At(p6, 7, f3) /\ At(p6, 11, f4) /\ At(p6, 15, f5)
       /\ At(p6, 16, f6)
    <2>1. At(f1, 0, f1)
        BY <1>1, AtWhole, Zenon DEF IsString
    <2> QED BY <2>1, <1>12, <1>13, <1>14, <1>15, <1>16, Zenon DEF Keeps
<1>18. FixBytes(f) = p6
    BY <1>6 DEF p2, p3, p4, p5, p6
<1> QED BY <1>1, <1>2, <1>4, <1>5, <1>16, <1>17, <1>18, Zenon DEF f1, f2, f3, f4, f5, f6, x

\* The terminal's status.
Info(s) ==
    If(s.ignition_status, 2) + If(s.power_cut, 128) + If(s.gps_tracking, 64)
      + If(s.charging, 4) + If(s.activated, 1)

\* The fields of a status.
LEMMA StatusFieldsAre ==
    ASSUME NEW s \in StatusFields
    PROVE  /\ s = [battery_level |-> s.battery_level, gsm_signal |-> s.gsm_signal,
                   ignition_status |-> s.ignition_status, power_cut |-> s.power_cut,
                   gps_tracking |-> s.gps_tracking, charging |-> s.charging,
                   activated |-> s.activated]
           /\ s.battery_level \in 0..255 /\ s.gsm_signal \in 0..255
           /\ s.ignition_status \in BOOLEAN /\ s.power_cut \in BOOLEAN
           /\ s.gps_tracking \in BOOLEAN /\ s.charging \in BOOLEAN /\ s.activated \in BOOLEAN
BY DEF StatusFields, Octets

\* They come out of the terminal information again.
LEMMA InfoIs ==
    ASSUME NEW s \in StatusFields
    PROVE  Info(s) \in 0..255 /\ TerminalInfo(Info(s), s.battery_level, s.gsm_signal) = s
<1> DEFINE a == If(s.ignition_status, 2)
           b == If(s.power_cut, 128)
           c == If(s.gps_tracking, 64)
           d == If(s.charging, 4)
           e == If(s.activated, 1)
           n == a + b + c + d + e
<1>1. /\ a \in {0, 2} /\ (a = 2 <=> s.ignition_status) /\ b \in {0, 128} /\ (b = 128 <=> s.power_cut)
      /\ c \in {0, 64} /\ (c = 64 <=> s.gps_tracking) /\ d \in {0, 4} /\ (d = 4 <=> s.charging)
      /\ e \in {0, 1} /\ (e = 1 <=> s.activated)
    BY StatusFieldsAre DEF If
<1>2. Info(s) = n
    BY DEF Info
<1> HIDE DEF a, b, c, d, e
<1>3. /\ n \in 0..255
      /\ ((n \div 1) % 2 = 1) <=> e = 1
      /\ ((n \div 2) % 2 = 1) <=> a = 2
      /\ ((n \div 4) % 2 = 1) <=> d = 4
      /\ ((n \div 64) % 2 = 1) <=> c = 64
      /\ ((n \div 128) % 2 = 1) <=> b = 128
    BY <1>1, InfoBits, SMT
<1> HIDE DEF n
<1>4. /\ Bit(n, 0) <=> e = 1
      /\ Bit(n, 1) <=> a = 2
      /\ Bit(n, 2) <=> d = 4
      /\ Bit(n, 6) <=> c = 64
      /\ Bit(n, 7) <=> b = 128
    BY <1>3, Powers, SMT DEF Bit
<1>5. /\ Bit(n, 0) <=> s.activated
      /\ Bit(n, 1) <=> s.ignition_status
      /\ Bit(n, 2) <=> s.charging
      /\ Bit(n, 6) <=> s.gps_tracking
      /\ Bit(n, 7) <=> s.power_cut
    BY <1>1, <1>4
<1>6. \A k : Bit(n, k) \in BOOLEAN
    BY DEF Bit
<1>7. /\ Bit(n, 0) = s.activated /\ Bit(n, 1) = s.ignition_status /\ Bit(n, 2) = s.charging
      /\ Bit(n, 6) = s.gps_tracking /\ Bit(n, 7) = s.power_cut
    BY <1>5, <1>6, StatusFieldsAre
<1>8. TerminalInfo(n, s.battery_level, s.gsm_signal) = s
    BY <1>7, StatusFieldsAre, Zenon DEF TerminalInfo
<1> QED BY <1>2, <1>3, <1>8

\* Strings of three bytes.
LEMMA ThreeByteString ==
    ASSUME NEW x \in 0..255, NEW y \in 0..255, NEW z \in 0..255
    PROVE  IsString(<<x, y, z>>, 3) /\ <<x, y, z>>[1] = x /\ <<x, y, z>>[2] = y /\ <<x, y, z>>[3] = z
BY DEF IsString, ByteStrings

\* The bytes of a status.
LEMMA StatusBytesFields ==
    ASSUME NEW s \in StatusFields
    PROVE  /\ IsString(StatusBytes(s), 3) /\ StatusBytes(s)[1] = Info(s)
           /\ StatusBytes(s)[2] = s.battery_level /\ StatusBytes(s)[3] = s.gsm_signal
<1>1. Info(s) \in 0..255 /\ s.battery_level \in 0..255 /\ s.gsm_signal \in 0..255
    BY InfoIs, StatusFieldsAre
<1>2. StatusBytes(s) = <<Info(s), s.battery_level, s.gsm_signal>>
    BY DEF StatusBytes, Info
<1> DEFINE x == Info(s)
           y == s.battery_level
           z == s.gsm_signal
<1>3. x \in 0..255 /\ y \in 0..255 /\ z \in 0..255
    BY <1>1
<1>4. StatusBytes(s) = <<x, y, z>>
    BY <1>2, SMTT(40)
<1> HIDE DEF x, y, z
<1>5. IsString(<<x, y, z>>, 3) /\ <<x, y, z>>[1] = x /\ <<x, y, z>>[2] = y /\ <<x, y, z>>[3] = z
    BY <1>3, ThreeByteString
<1> QED BY <1>4, <1>5, Zenon DEF x, y, z

\* A terminal's status behind the first i bytes.
LEMMA StatusAt ==
    ASSUME NEW s \in StatusFields, NEW b, NEW i \in Nat, At(b, i, StatusBytes(s))
    PROVE  TerminalInfo(Byte(b, i), Byte(b, i + 1), Byte(b, i + 2)) = s
<1> DEFINE f == StatusBytes(s)
<1>1. Len(f) = 3 /\ f[1] = Info(s) /\ f[2] = s.battery_level /\ f[3] = s.gsm_signal
    BY StatusBytesFields DEF IsString
<1>2. At(b, i, f)
    OBVIOUS
<1> HIDE DEF f
<1>3. ASSUME NEW k \in 1..3 PROVE b[i + k] = f[k]
    BY <1>1, <1>2, AtByte, SMTT(40)
<1>4. i + 1 + 1 = i + 2 /\ i + 2 + 1 = i + 3 /\ 1 \in 1..3 /\ 2 \in 1..3 /\ 3 \in 1..3
    OBVIOUS
<1>5. Byte(b, i) = Info(s) /\ Byte(b, i + 1) = s.battery_level /\ Byte(b, i + 2) = s.gsm_signal
    BY <1>1, <1>3, <1>4, Zenon DEF Byte
<1> QED BY <1>5, InfoIs, Zenon

\* An alarm.
AlarmByte(a) == 16 * a.alarm_type + If(a.english, 1)

\* The fields of an alarm.
LEMMA AlarmFieldsAre ==
    ASSUME NEW a \in AlarmFields
    PROVE  /\ a = [fix |-> a.fix, mcc |-> a.mcc, mnc |-> a.mnc, lac |-> a.lac, cell_id |-> a.cell_id,
                   status |-> a.status, alarm_type |-> a.alarm_type, english |-> a.english]
           /\ a.fix \in FixFields /\ a.mcc \in Halfwords /\ a.mnc \in 0..255 /\ a.lac \in Halfwords
           /\ a.cell_id \in CellIds /\ a.status \in StatusFields /\ a.alarm_type \in 0..15
           /\ a.english \in BOOLEAN
BY DEF AlarmFields, Octets

\* Its type and its language share a byte.
LEMMA AlarmByteIs ==
    ASSUME NEW a \in AlarmFields
    PROVE  /\ AlarmByte(a) \in 0..255 /\ AlarmByte(a) \div 16 = a.alarm_type
           /\ Bit(AlarmByte(a), 0) = a.english
<1> DEFINE t == a.alarm_type
           e == If(a.english, 1)
<1>1. t \in 0..15 /\ e \in {0, 1} /\ (e = 1 <=> a.english) /\ a.english \in BOOLEAN
    BY AlarmFieldsAre DEF If
<1>2. AlarmByte(a) = 16 * t + e
    BY DEF AlarmByte
<1> HIDE DEF t, e
<1>3. /\ 16 * t + e \in 0..255 /\ (16 * t + e) \div 16 = t
      /\ (((16 * t + e) \div 1) % 2 = 1) <=> e = 1
    <2>1. t \in 0..15 /\ e \in {0, 1}
        BY <1>1
    <2> QED BY <2>1, SMT
<1>4. Bit(16 * t + e, 0) <=> e = 1
    BY <1>3, Powers, SMT DEF Bit
<1>5. Bit(16 * t + e, 0) = a.english
    <2>1. Bit(16 * t + e, 0) \in BOOLEAN
        BY DEF Bit
    <2> QED BY <1>1, <1>4, <2>1, Zenon
<1> QED BY <1>2, <1>3, <1>5, Zenon DEF t

\* Where each of them lies.
LEMMA AlarmBytesFields ==
    ASSUME NEW a \in AlarmFields
    PROVE  /\ IsString(AlarmBytes(a), 30)
           /\ At(AlarmBytes(a), 0, FixBytes(a.fix)) /\ At(AlarmBytes(a), 18, Bytes(a.mcc, 2))
           /\ At(AlarmBytes(a), 20, <<a.mnc>>) /\ At(AlarmBytes(a), 21, Bytes(a.lac, 2))
           /\ At(AlarmBytes(a), 23, Bytes(a.cell_id, 3)) /\ At(AlarmBytes(a), 26, StatusBytes(a.status))
           /\ At(AlarmBytes(a), 29, <<AlarmByte(a)>>)
<1> DEFINE f1 == FixBytes(a.fix)
           f2 == Bytes(a.mcc, 2)
           f3 == <<a.mnc>>
           f4 == Bytes(a.lac, 2)
           f5 == Bytes(a.cell_id, 3)
           f6 == StatusBytes(a.status)
           f7 == <<AlarmByte(a)>>
<1>0. /\ a.fix \in FixFields /\ a.mcc \in Halfwords /\ a.mnc \in 0..255 /\ a.lac \in Halfwords
      /\ a.cell_id \in CellIds /\ a.status \in StatusFields /\ AlarmByte(a) \in 0..255
    BY AlarmFieldsAre, AlarmByteIs
<1>1. IsString(f1, 18)
    BY <1>0, FixBytesFields
<1>2. IsString(f2, 2) /\ IsString(f4, 2)
    BY <1>0, HalfwordIs, Zenon DEF IsString
<1>3. IsString(f3, 1) /\ IsString(f7, 1)
    BY <1>0, OneByte, Zenon DEF IsString
<1>4. IsString(f5, 3)
    BY <1>0, CellIdIs, Zenon DEF IsString
<1>5. IsString(f6, 3)
    BY <1>0, StatusBytesFields, Zenon
<1>6. AlarmBytes(a) = f1 \o f2 \o f3 \o f4 \o f5 \o f6 \o f7
    BY DEF AlarmBytes, AlarmByte
<1> HIDE DEF f1, f2, f3, f4, f5, f6, f7
<1> DEFINE p2 == f1 \o f2
           p3 == p2 \o f3
           p4 == p3 \o f4
           p5 == p4 \o f5
           p6 == p5 \o f6
           p7 == p6 \o f7
<1>12. IsString(p2, 20) /\ At(p2, 18, f2) /\ Keeps(f1, p2)
    <2>1. IsString(p2, 18 + 2) /\ At(p2, 18, f2) /\ Keeps(f1, p2)
        BY <1>1, <1>2, AppendAt, Zenon
    <2> HIDE DEF p2
    <2> QED BY <2>1
<1> HIDE DEF p2
<1>13. IsString(p3, 21) /\ At(p3, 20, f3) /\ Keeps(p2, p3)
    <2>1. IsString(p3, 20 + 1) /\ At(p3, 20, f3) /\ Keeps(p2, p3)
        BY <1>12, <1>3, AppendAt, Zenon
    <2> HIDE DEF p3
    <2> QED BY <2>1
<1> HIDE DEF p3
<1>14. IsString(p4, 23) /\ At(p4, 21, f4) /\ Keeps(p3, p4)
    <2>1. IsString(p4, 21 + 2) /\ At(p4, 21, f4) /\ Keeps(p3, p4)
        BY <1>13, <1>2, AppendAt, Zenon
    <2> HIDE DEF p4
    <2> QED BY <2>1
<1> HIDE DEF p4
<1>15. IsString(p5, 26) /\ At(p5, 23, f5) /\ Keeps(p4, p5)
    <2>1. IsString(p5, 23 + 3) /\ At(p5, 23, f5) /\ Keeps(p4, p5)
        BY <1>14, <1>4, AppendAt, Zenon
    <2> HIDE DEF p5
    <2> QED BY <2>1
<1> HIDE DEF p5
<1>16. IsString(p6, 29) /\ At(p6, 26, f6) /\ Keeps(p5, p6)
    <2>1. IsString(p6, 26 + 3) /\ At(p6, 26, f6) /\ Keeps(p5, p6)
        BY <1>15, <1>5, AppendAt, Zenon
    <2> HIDE DEF p6
    <2> QED BY <2>1
<1> HIDE DEF p6
<1>17. IsString(p7, 30) /\ At(p7, 29, f7) /\ Keeps(p6, p7)
    <2>1. IsString(p7, 29 + 1) /\ At(p7, 29, f7) /\ Keeps(p6, p7)
        BY <1>16, <1>3, AppendAt, Zenon
    <2> HIDE DEF p7
    <2> QED BY <2>1
<1> HIDE DEF p7
<1>18. /\ At(p7, 0, f1) /\ At(p7, 18, f2) /\ At(p7, 20, f3) /\ At(p7, 21, f4) /\ At(p7, 23, f5)
       /\ At(p7, 26, f6) /\ At(p7, 29, f7)
    <2>1. At(f1, 0, f1)
        BY <1>1, AtWhole, Zenon DEF IsString
    <2> QED BY <2>1, <1>12, <1>13, <1>14, <1>15, <1>16, <1>17, Zenon DEF Keeps
<1>19. AlarmBytes(a) = p7
    BY <1>6 DEF p2, p3, p4, p5, p6, p7
<1> QED BY <1>17, <1>18, <1>19, Zenon DEF f1, f2, f3, f4, f5, f6, f7

\* An IMEI.
LEMMA ImeiBytesAre ==
    ASSUME NEW imei \in Imeis
    PROVE  /\ IsString(ImeiBytes(imei), 8)
           /\ ImeiBytes(imei)[1] = imei[1]
           /\ \A k \in 2..8 : ImeiBytes(imei)[k] = 16 * imei[2 * k - 2] + imei[2 * k - 1]
<1>1. \A i \in 1..15 : imei[i] \in 0..9
    BY DEF Imeis
<1>2. ASSUME NEW k \in 2..8
      PROVE  2 * k - 2 \in 1..15 /\ 2 * k - 1 \in 1..15
    OBVIOUS
<1>3. \A x, y \in 0..9 : 16 * x + y \in 0..255 /\ 16 * 0 + y \in 0..255 /\ 16 * 0 + y = y
    OBVIOUS
<1>4. ASSUME NEW k \in 1..8
      PROVE  16 * (IF k = 1 THEN 0 ELSE imei[2 * k - 2]) + imei[2 * k - 1] \in 0..255
    <2>1. CASE k = 1
        <3>1. 2 * k - 1 = 1 /\ 1 \in 1..15
            BY <2>1
        <3>2. 16 * 0 + imei[1] \in 0..255
            BY <1>1, <1>3, <3>1
        <3> QED BY <2>1, <3>1, <3>2, Zenon
    <2>2. CASE k # 1
        <3>1. k \in 2..8
            BY <2>2
        <3>2. imei[2 * k - 2] \in 0..9 /\ imei[2 * k - 1] \in 0..9
            BY <1>1, <1>2, <3>1
        <3> QED BY <1>3, <2>2, <3>2, ZenonT(60)
    <2> QED BY <2>1, <2>2
<1>5. ImeiBytes(imei) \in [1..8 -> 0..255]
    BY <1>4 DEF ImeiBytes
<1>6. IsString(ImeiBytes(imei), 8)
    <2>1. 8 \in Nat
        OBVIOUS
    <2> QED BY <1>5, <2>1, FunctionIsSeq, Zenon DEF IsString, ByteStrings
<1>7. ImeiBytes(imei)[1] = imei[1]
    <2>1. ImeiBytes(imei)[1] = 16 * 0 + imei[1]
        <3>1. 1 \in 1..8 /\ 2 * 1 - 1 = 1
            OBVIOUS
        <3> QED BY <3>1 DEF ImeiBytes
    <2>2. imei[1] \in 0..9
        BY <1>1
    <2> QED BY <1>3, <2>1, <2>2, Zenon
<1>8. ASSUME NEW k \in 2..8 PROVE ImeiBytes(imei)[k] = 16 * imei[2 * k - 2] + imei[2 * k - 1]
    <2>1. k \in 1..8 /\ k # 1
        OBVIOUS
    <2> QED BY <2>1, Zenon DEF ImeiBytes
<1> QED BY <1>6, <1>7, <1>8

\* What a frame carries, by its kind.
ImeisWithout0 == {i \in Imeis : i[1] # 0}

\* What goes with each kind of message.
LEMMA KindIs ==
    ASSUME NEW m, Gt06Fits(m)
    PROVE  /\ m.protocol \in 0..255 /\ m.serial \in Halfwords /\ m.long \in BOOLEAN
           /\ m.kind \in {"login", "location", "status", "alarm", "text", "response"}
           /\ m.kind = "login" => m.protocol = 1 /\ m.data \in [imei : ImeisWithout0] /\ ~m.long
           /\ m.kind = "location" => m.protocol \in {18, 34} /\ m.data \in FixFields /\ ~m.long
           /\ m.kind = "status" => m.protocol \in {19, 35} /\ m.data \in StatusFields /\ ~m.long
           /\ m.kind = "alarm" => m.protocol = 38 /\ m.data \in AlarmFields /\ ~m.long
           /\ m.kind \in {"text", "response"} =>
                 m.text \in ByteStrings /\ Len(m.text) <= IF m.long THEN 65530 ELSE 250
BY SMT DEF Gt06Fits, Octets, ImeisWithout0

\* The content fits a frame of its kind.
LEMMA ContentIs ==
    ASSUME NEW m, Gt06Fits(m)
    PROVE  /\ Content(m) \in ByteStrings /\ Len(Content(m)) \in Nat
           /\ Len(Content(m)) <= IF m.long THEN 65530 ELSE 250
<1>1. CASE m.kind = "login"
    <2>1. Content(m) = ImeiBytes(m.data.imei)
        BY <1>1 DEF Content
    <2>2. m.data.imei \in Imeis /\ ~m.long
        BY <1>1, KindIs, SMT DEF ImeisWithout0
    <2>3. IsString(Content(m), 8)
        BY <2>1, <2>2, ImeiBytesAre, Zenon
    <2> QED BY <2>2, <2>3, SMT DEF IsString
<1>2. CASE m.kind = "location"
    <2>1. Content(m) = FixBytes(m.data)
        BY <1>2 DEF Content
    <2>2. m.data \in FixFields /\ ~m.long
        BY <1>2, KindIs, SMT
    <2>3. IsString(Content(m), 18)
        BY <2>1, <2>2, FixBytesFields, Zenon
    <2> QED BY <2>2, <2>3, SMT DEF IsString
<1>3. CASE m.kind = "status"
    <2>1. Content(m) = StatusBytes(m.data)
        BY <1>3 DEF Content
    <2>2. m.data \in StatusFields /\ ~m.long
        BY <1>3, KindIs, SMT
    <2>3. IsString(Content(m), 3)
        BY <2>1, <2>2, StatusBytesFields, Zenon
    <2> QED BY <2>2, <2>3, SMT DEF IsString
<1>4. CASE m.kind = "alarm"
    <2>1. Content(m) = AlarmBytes(m.data)
        BY <1>4 DEF Content
    <2>2. m.data \in AlarmFields /\ ~m.long
        BY <1>4, KindIs, SMT
    <2>3. IsString(Content(m), 30)
        BY <2>1, <2>2, AlarmBytesFields, Zenon
    <2> QED BY <2>2, <2>3, SMT DEF IsString
<1>5. CASE m.kind \in {"text", "response"}
    <2>1. Content(m) = m.text
        BY <1>5 DEF Content
    <2>2. m.text \in ByteStrings /\ Len(m.text) <= IF m.long THEN 65530 ELSE 250
        BY <1>5, KindIs, SMT
    <2>3. Len(m.text) \in Nat
        BY <2>2, SMT DEF ByteStrings
    <2> QED BY <2>1, <2>2, <2>3, SMT
<1>6. m.kind \in {"login", "location", "status", "alarm", "text", "response"}
    BY KindIs, SMT
<1> QED BY <1>1, <1>2, <1>3, <1>4, <1>5, <1>6, SMT

\* The length of a frame, in one byte or two.
LengthWidth(m) == IF m.long THEN 2 ELSE 1

LengthBytes(m) == IF m.long THEN Bytes(5 + Len(Content(m)), 2) ELSE <<5 + Len(Content(m))>>

\* The two bytes of a number.
LEMMA TwoBytesOf ==
    ASSUME NEW n \in Halfwords
    PROVE  IsString(Bytes(n, 2), 2) /\ TwoBytes(Bytes(n, 2)[1], Bytes(n, 2)[2]) = n
<1>1. Bytes(n, 2) \in ByteStrings /\ Len(Bytes(n, 2)) = 2 /\ BigEndian(Bytes(n, 2)) = n
    BY HalfwordIs, Zenon
<1>2. BigEndian(Bytes(n, 2)) = TwoBytes(Bytes(n, 2)[1], Bytes(n, 2)[2])
    BY <1>1, BigEndianIs, Zenon
<1> QED BY <1>1, <1>2, Zenon DEF IsString

\* The length field counts content, protocol, serial number and checksum.
LEMMA LengthIs ==
    ASSUME NEW m, Gt06Fits(m), NEW n, n = Len(Content(m))
    PROVE  /\ n \in Nat /\ LengthWidth(m) \in {1, 2} /\ IsString(LengthBytes(m), LengthWidth(m))
           /\ m.long => TwoBytes(LengthBytes(m)[1], LengthBytes(m)[2]) = 5 + n
           /\ ~m.long => LengthBytes(m)[1] = 5 + n
<1>1. n \in Nat /\ n <= IF m.long THEN 65530 ELSE 250
    BY ContentIs, SMT
<1>2. CASE m.long
    <2>1. 5 + n \in Halfwords
        <3>1. 5 + n \in Nat /\ 5 + n < 65536
            BY <1>1, <1>2, SMT
        <3>2. ASSUME NEW x \in Nat, x < 65536 PROVE x \in Halfwords
            BY <3>2, BelowIf, SMT DEF Halfwords
        <3> QED BY <3>1, <3>2, SMT
    <2>2. LengthBytes(m) = Bytes(5 + n, 2) /\ LengthWidth(m) = 2
        BY <1>2 DEF LengthBytes, LengthWidth
    <2>3. n \in Nat
        BY <1>1, SMT
    <2>4. IsString(LengthBytes(m), 2) /\ TwoBytes(LengthBytes(m)[1], LengthBytes(m)[2]) = 5 + n
        BY <2>1, <2>2, TwoBytesOf, Zenon
    <2> QED BY <1>2, <2>2, <2>3, <2>4
<1>3. CASE ~m.long
    <2>1. 5 + n \in 0..255 /\ n \in Nat
        <3>1. n \in Nat /\ n <= 250
            BY <1>1, <1>3, SMT
        <3>2. ASSUME NEW x \in Nat, x <= 250 PROVE 5 + x \in 0..255
            BY <3>2
        <3> QED BY <3>1, <3>2
    <2>2. LengthBytes(m) = <<5 + n>> /\ LengthWidth(m) = 1
        BY <1>3 DEF LengthBytes, LengthWidth
    <2>3. ASSUME NEW x \in 0..255 PROVE IsString(<<x>>, 1) /\ <<x>>[1] = x
        BY OneByte DEF IsString
    <2>4. IsString(LengthBytes(m), 1) /\ LengthBytes(m)[1] = 5 + n
        <3> DEFINE x == 5 + n
        <3>1. x \in 0..255 /\ LengthBytes(m) = <<x>>
            BY <2>1, <2>2
        <3> HIDE DEF x
        <3>2. IsString(LengthBytes(m), 1) /\ LengthBytes(m)[1] = x
            BY <2>3, <3>1, Zenon
        <3> QED BY <3>2, Zenon DEF x
    <2> QED BY <1>3, <2>1, <2>2, <2>4
<1> QED BY <1>2, <1>3

\* The body of a frame.
LEMMA BodyFields ==
    ASSUME NEW m, Gt06Fits(m), NEW n, n = Len(Content(m)), NEW w, w = LengthWidth(m)
    PROVE  /\ IsString(Gt06Body(m), w + 3 + n) /\ At(Gt06Body(m), 0, LengthBytes(m))
           /\ At(Gt06Body(m), w, <<m.protocol>>) /\ At(Gt06Body(m), w + 1, Content(m))
           /\ At(Gt06Body(m), w + 1 + n, Bytes(m.serial, 2))
<1> DEFINE f1 == LengthBytes(m)
           f2 == <<m.protocol>>
           f3 == Content(m)
           f4 == Bytes(m.serial, 2)
<1>1. IsString(f1, w) /\ n \in Nat /\ w \in {1, 2}
    BY LengthIs, Zenon
<1>2. IsString(f2, 1)
    <2>1. m.protocol \in 0..255
        BY KindIs, SMT
    <2> QED BY <2>1, OneByte, Zenon DEF IsString
<1>3. IsString(f3, n)
    <2>1. Content(m) \in ByteStrings
        BY ContentIs, SMT
    <2> QED BY <2>1, Zenon DEF IsString
<1>4. IsString(f4, 2)
    <2>1. m.serial \in Halfwords
        BY KindIs, SMT
    <2> QED BY <2>1, HalfwordIs, Zenon DEF IsString
<1>5. Gt06Body(m) = f1 \o f2 \o f3 \o f4
    BY DEF Gt06Body, LengthBytes
<1> HIDE DEF f1, f2, f3, f4
<1> DEFINE p2 == f1 \o f2
           p3 == p2 \o f3
           p4 == p3 \o f4
<1>12. IsString(p2, w + 1) /\ At(p2, w, f2) /\ Keeps(f1, p2)
    BY <1>1, <1>2, AppendAt, Zenon
<1> HIDE DEF p2
<1>13. IsString(p3, w + 1 + n) /\ At(p3, w + 1, f3) /\ Keeps(p2, p3)
    BY <1>12, <1>3, AppendAt, Zenon
<1> HIDE DEF p3
<1>14. IsString(p4, w + 3 + n) /\ At(p4, w + 1 + n, f4) /\ Keeps(p3, p4)
    <2>1. IsString(p4, w + 1 + n + 2) /\ At(p4, w + 1 + n, f4) /\ Keeps(p3, p4)
        BY <1>13, <1>4, AppendAt, Zenon
    <2>2. w + 1 + n + 2 = w + 3 + n
        BY <1>1
    <2> HIDE DEF p4
    <2> QED BY <2>1, <2>2, Zenon
<1> HIDE DEF p4
<1>15. At(p4, 0, f1) /\ At(p4, w, f2) /\ At(p4, w + 1, f3)
    <2>1. At(f1, 0, f1)
        BY <1>1, AtWhole, Zenon DEF IsString
    <2> QED BY <2>1, <1>12, <1>13, <1>14, Zenon DEF Keeps
<1>16. Gt06Body(m) = p4
    BY <1>5 DEF p2, p3, p4
<1> QED BY <1>14, <1>15, <1>16, Zenon DEF f1, f2, f3, f4

\* The frame: its start, and the fields of its body behind it.
StartBytes(m) == IF m.long THEN <<121, 121>> ELSE <<120, 120>>

\* What a GT06 device sends is a sealed frame with the right length.
LEMMA BodyIsBody ==
    ASSUME NEW m, Gt06Fits(m)
    PROVE  Gt06Wire(m) = Sealed(StartBytes(m), Gt06Body(m)) /\ IsBody(StartBytes(m), Gt06Body(m))
<1> DEFINE n == Len(Content(m))
           w == LengthWidth(m)
           b == Gt06Body(m)
           l == LengthBytes(m)
<1>1. Gt06Wire(m) = Sealed(StartBytes(m), b)
    BY DEF Gt06Wire, Sealed, StartBytes
<1>2. IsString(b, w + 3 + n) /\ At(b, 0, l)
    BY BodyFields, Zenon
<1>3. /\ n \in Nat /\ w \in {1, 2} /\ IsString(l, w)
      /\ m.long => TwoBytes(l[1], l[2]) = 5 + n
      /\ ~m.long => l[1] = 5 + n
    BY LengthIs, Zenon
<1>4. (m.long => w = 2) /\ (~m.long => w = 1)
    BY DEF LengthWidth
<1> HIDE DEF n, w, b, l
<1>5. b \in ByteStrings /\ Len(b) = w + 3 + n
    BY <1>2, Zenon DEF IsString
<1>6. Len(b) >= 2
    BY <1>3, <1>5
<1>7. ASSUME NEW i \in 1..w PROVE b[i] = l[i]
    <2>1. i \in 1..Len(l) /\ 0 + i = i
        BY <1>3 DEF IsString
    <2> QED BY <1>2, <2>1, AtByte
<1>8. CASE m.long
    <2>1. w = 2 /\ 1 \in 1..2 /\ 2 \in 1..2
        BY <1>4, <1>8
    <2>2. b[1] = l[1] /\ b[2] = l[2]
        BY <1>7, <2>1, Zenon
    <2>3. w + 3 + n = 5 + n
        BY <1>3, <2>1
    <2>4. TwoBytes(b[1], b[2]) = Len(b)
        BY <1>3, <1>5, <1>8, <2>2, <2>3, Zenon
    <2>5. LongBody(StartBytes(m), b)
        BY <1>8, <2>4, Zenon DEF LongBody, StartBytes
    <2> QED BY <1>1, <1>5, <1>6, <2>5, Zenon DEF IsBody, b
<1>9. CASE ~m.long
    <2>1. w = 1 /\ 1 \in 1..1
        BY <1>4, <1>9
    <2>2. b[1] = l[1]
        BY <1>7, <2>1, Zenon
    <2>3. 5 + n = w + 3 + n + 1
        BY <1>3, <2>1
    <2>4. b[1] = Len(b) + 1
        BY <1>3, <1>5, <1>9, <2>2, <2>3, Zenon
    <2>5. ShortBody(StartBytes(m), b)
        BY <1>9, <2>4, Zenon DEF ShortBody, StartBytes
    <2> QED BY <1>1, <1>5, <1>6, <2>5, Zenon DEF IsBody, b
<1> QED BY <1>8, <1>9

\* The start of a frame tells whether it is long.
LEMMA LongIs ==
    ASSUME NEW start, NEW body, IsBody(start, body)
    PROVE  IsLong(Sealed(start, body)) <=> start = <<121, 121>>
<1> DEFINE b == Sealed(start, body)
<1>1. IsString(start, 2) /\ start = <<start[1], start[1]>>
    BY StartIs
<1>2. At(b, 0, start)
    BY <1>1, SealedFields, Zenon DEF IsBody
<1> HIDE DEF b
<1>3. Slice(b, 0, 0 + Len(start)) = start
    BY <1>2, AtSlice
<1>4. Len(start) = 2 /\ 0 + 2 = 2 /\ 0 + 1 = 1
    BY <1>1 DEF IsString
<1>5. SubSeq(b, 1, 2) = start
    BY <1>3, <1>4, Zenon DEF Slice
<1> QED BY <1>5, Zenon DEF IsLong, b

\* A GT06 frame as it arrives.
LEMMA Gt06WireFields ==
    ASSUME NEW m, Gt06Fits(m), NEW n, n = Len(Content(m)), NEW w, w = LengthWidth(m)
    PROVE  /\ n \in Nat /\ w \in {1, 2} /\ IsString(Gt06Wire(m), w + 9 + n)
           /\ At(Gt06Wire(m), w + 2, <<m.protocol>>) /\ At(Gt06Wire(m), w + 3, Content(m))
           /\ At(Gt06Wire(m), w + 3 + n, Bytes(m.serial, 2))
           /\ IsLong(Gt06Wire(m)) <=> m.long
           /\ extract_packets[Gt06Wire(m)] = Extracted(<<Gt06Wire(m)>>, <<>>)
<1> DEFINE b == Gt06Wire(m)
           c == Gt06Body(m)
           start == StartBytes(m)
<1>1. b = Sealed(start, c) /\ IsBody(start, c)
    BY BodyIsBody
<1>2. IsString(c, w + 3 + n) /\ At(c, w, <<m.protocol>>) /\ At(c, w + 1, Content(m))
      /\ At(c, w + 1 + n, Bytes(m.serial, 2))
    BY BodyFields, Zenon
<1>3. n \in Nat /\ w \in {1, 2}
    BY LengthIs, Zenon
<1>4. IsLong(b) <=> m.long
    <2>1. (start = <<121, 121>>) <=> m.long
        BY DEF StartBytes
    <2> HIDE DEF start
    <2> QED BY <1>1, <2>1, LongIs, Zenon
<1> HIDE DEF b, c, start
<1>5. extract_packets[b] = Extracted(<<b>>, << >>)
    BY <1>1, SealedIsFrame
<1>6. IsString(b, Len(c) + 6) /\ At(b, 2, c)
    BY <1>1, StartIs, SealedFields DEF IsBody
<1>7. IsString(b, w + 9 + n)
    <2>1. Len(c) = w + 3 + n
        BY <1>2, Zenon DEF IsString
    <2>2. w + 3 + n + 6 = w + 9 + n
        BY <1>3
    <2> QED BY <1>6, <2>1, <2>2, Zenon
<1>8. At(b, 2 + w, <<m.protocol>>) /\ At(b, 2 + (w + 1), Content(m)) /\ At(b, 2 + (w + 1 + n), Bytes(m.serial, 2))
    BY <1>2, <1>6, AtWithin, Zenon
<1>9. 2 + w = w + 2 /\ 2 + (w + 1) = w + 3 /\ 2 + (w + 1 + n) = w + 3 + n
    BY <1>3
<1>10. At(b, w + 2, <<m.protocol>>) /\ At(b, w + 3, Content(m)) /\ At(b, w + 3 + n, Bytes(m.serial, 2))
    BY <1>8, <1>9, Zenon
<1> QED BY <1>3, <1>4, <1>5, <1>7, <1>10, Zenon DEF b

\* Its protocol and its serial number, as build_ack finds them.
LEMMA Gt06Marks ==
    ASSUME NEW m, Gt06Fits(m), NEW b, b = Gt06Wire(m)
    PROVE  /\ m.protocol \in 0..255 /\ m.serial \in Halfwords /\ ProtocolByte(b) = m.protocol
           /\ SubSeq(b, Len(b) - 5, Len(b) - 4) = Bytes(m.serial, 2)
<1> DEFINE n == Len(Content(m))
           w == LengthWidth(m)
<1>1. /\ n \in Nat /\ w \in {1, 2} /\ IsString(b, w + 9 + n) /\ At(b, w + 2, <<m.protocol>>)
      /\ At(b, w + 3 + n, Bytes(m.serial, 2)) /\ (IsLong(b) <=> m.long)
    BY Gt06WireFields, Zenon
<1>2. m.protocol \in 0..255 /\ m.serial \in Halfwords
    BY KindIs, SMT
<1>3. m.long => w = 2
    BY DEF LengthWidth
<1>4. ~m.long => w = 1
    BY DEF LengthWidth
<1> HIDE DEF n, w
<1>5. ProtocolByte(b) = m.protocol
    <2>1. Byte(b, w + 2) = m.protocol
        BY <1>1, <1>2, AtOneByte
    <2>2. 2 + 2 = 4 /\ 1 + 2 = 3
        OBVIOUS
    <2> QED BY <1>1, <1>3, <1>4, <2>1, <2>2, Zenon DEF ProtocolByte
<1>6. SubSeq(b, Len(b) - 5, Len(b) - 4) = Bytes(m.serial, 2)
    <2> DEFINE s == Bytes(m.serial, 2)
    <2>1. Slice(b, w + 3 + n, w + 3 + n + Len(s)) = s
        BY <1>1, AtSlice
    <2>2. Len(s) = 2
        BY <1>2, HalfwordIs
    <2> HIDE DEF s
    <2>3. w + 3 + n + 1 = Len(b) - 5 /\ w + 3 + n + 2 = Len(b) - 4
        BY <1>1 DEF IsString
    <2> QED BY <2>1, <2>2, <2>3, Zenon DEF Slice, s
<1> QED BY <1>2, <1>5, <1>6

\* The acknowledgement.
LEMMA AckIsFrame ==
    ASSUME NEW b, NEW p \in 0..255, NEW n \in Halfwords, ProtocolByte(b) = p,
           SubSeq(b, Len(b) - 5, Len(b) - 4) = Bytes(n, 2), NEW r, r = build_ack(b)
    PROVE  /\ IsFrame(r) /\ ProtocolByte(r) = p
           /\ Slice(r, Len(r) - 6, Len(r) - 4) = Bytes(n, 2)
<1> DEFINE s == Bytes(n, 2)
           h == <<5, p>>
           c == h \o s
           start == <<120, 120>>
<1>1. IsString(s, 2)
    BY HalfwordIs, Zenon DEF IsString
<1>2. IsString(h, 2) /\ h[1] = 5 /\ h[2] = p
    <2>1. 5 \in 0..255
        OBVIOUS
    <2> QED BY <2>1, TwoByteStrings, Zenon
<1>3. r = Sealed(start, c)
    BY Zenon DEF build_ack, Sealed
<1> HIDE DEF s, h
<1>4. IsString(c, 4) /\ At(c, 2, s) /\ Keeps(h, c)
    <2>1. IsString(c, 2 + 2) /\ At(c, 2, s) /\ Keeps(h, c)
        BY <1>1, <1>2, AppendAt, Zenon
    <2> HIDE DEF c
    <2> QED BY <2>1
<1> HIDE DEF c
<1>5. c[1] = 5 /\ c[2] = p
    <2>1. At(c, 0, h)
        BY <1>2, <1>4, AtWhole, Zenon DEF IsString, Keeps
    <2>2. 1 \in 1..Len(h) /\ 2 \in 1..Len(h) /\ 0 + 1 = 1 /\ 0 + 2 = 2
        BY <1>2 DEF IsString
    <2>3. ASSUME NEW i \in 1..Len(h) PROVE c[0 + i] = h[i]
        BY <2>1, AtByte
    <2> QED BY <1>2, <2>2, <2>3
<1>6. IsBody(start, c)
    <2>1. c \in ByteStrings /\ Len(c) = 4
        BY <1>4, Zenon DEF IsString
    <2>2. 5 = 4 + 1 /\ 4 >= 2
        OBVIOUS
    <2> QED BY <1>5, <2>1, <2>2, Zenon DEF IsBody, ShortBody
<1>7. IsFrame(r)
    BY <1>3, <1>6, SealedIsFrame
<1>8. IsString(start, 2)
    BY <1>6, StartIs
<1>9. IsString(r, Len(c) + 6) /\ At(r, 2, c)
    BY <1>3, <1>6, <1>8, SealedFields DEF IsBody
<1>10. Len(r) = 10 /\ Len(c) = 4
    BY <1>4, <1>9 DEF IsString
<1>11. ProtocolByte(r) = p
    <2>1. ~IsLong(r)
        <3>1. start # <<121, 121>>
            OBVIOUS
        <3> HIDE DEF start
        <3> QED BY <1>3, <1>6, <3>1, LongIs, Zenon
    <2>2. 2 \in 1..Len(c) /\ 2 + 2 = 4 /\ 3 + 1 = 4
        BY <1>10
    <2>3. r[2 + 2] = c[2]
        BY <1>9, <2>2, AtByte
    <2> QED BY <1>5, <2>1, <2>2, <2>3, Zenon DEF ProtocolByte, Byte
<1>12. Slice(r, Len(r) - 6, Len(r) - 4) = s
    <2>1. At(r, 2 + 2, s)
        BY <1>4, <1>9, AtWithin, Zenon
    <2>2. Slice(r, 2 + 2, 2 + 2 + Len(s)) = s
        BY <2>1, AtSlice
    <2>3. 2 + 2 = Len(r) - 6 /\ 2 + 2 + Len(s) = Len(r) - 4
        BY <1>1, <1>10 DEF IsString
    <2> QED BY <2>2, <2>3
<1> QED BY <1>7, <1>11, <1>12 DEF s

\* A GT06 message is taken as the one frame it is.
LEMMA Gt06Taken ==
    ASSUME DecodingInv, Arrived("GT06")
    PROVE  /\ Gt06Fits(msg) /\ wire = Gt06Wire(msg) /\ got = Gt06Parse(wire)
           /\ reply = build_ack(wire)
<1>1. got # None /\ damaged = 0 /\ msg.family = "GT06"
    BY DEF Arrived
<1>2. msg \in Samples /\ wire = Wire(msg)
    BY <1>1 DEF DecodingInv, MessageInv, WireInv
<1>3. Gt06Fits(msg)
    BY <1>1, <1>2, SamplesAssumption DEF Fitting
<1>4. wire = Gt06Wire(msg)
    BY <1>1, <1>2 DEF Wire
<1>5. extract_packets[wire] = Extracted(<<wire>>, << >>)
    BY <1>3, <1>4, Gt06WireFields, Zenon
<1> DEFINE r == extract_packets[wire]
<1>6. got = Taken(r, Gt06Parse(r.frames[1])) /\ reply = Taken(r, build_ack(r.frames[1]))
    BY <1>1 DEF DecodingInv, HeardInv
<1>7. r.frames[1] = wire /\ \A x : Taken(r, x) = x
    BY <1>5 DEF Extracted, Taken
<1> HIDE DEF r
<1> QED BY <1>3, <1>4, <1>6, <1>7

\* The acknowledgement is a frame with the protocol and the serial number.
LEMMA Gt06Acknowledged ==
    ASSUME DecodingInv, Arrived("GT06")
    PROVE  /\ IsFrame(reply)
           /\ ProtocolByte(reply) = msg.protocol
           /\ Slice(reply, Len(reply) - 6, Len(reply) - 4) = Bytes(msg.serial, 2)
<1>1. Gt06Fits(msg) /\ wire = Gt06Wire(msg) /\ reply = build_ack(wire)
    BY Gt06Taken
<1>2. /\ msg.protocol \in 0..255 /\ msg.serial \in Halfwords /\ ProtocolByte(wire) = msg.protocol
      /\ SubSeq(wire, Len(wire) - 5, Len(wire) - 4) = Bytes(msg.serial, 2)
    BY <1>1, Gt06Marks, Zenon
<1>3. ASSUME NEW b, NEW p, NEW n, NEW r, p \in 0..255, n \in Halfwords, ProtocolByte(b) = p,
             SubSeq(b, Len(b) - 5, Len(b) - 4) = Bytes(n, 2), r = build_ack(b)
      PROVE  /\ IsFrame(r) /\ ProtocolByte(r) = p
             /\ Slice(r, Len(r) - 6, Len(r) - 4) = Bytes(n, 2)
    BY ONLY <1>3, AckIsFrame, ZenonT(60)
<1>4. ASSUME NEW b, NEW p, NEW n, NEW r, b = wire, p = msg.protocol, n = msg.serial, r = reply
      PROVE  /\ IsFrame(r) /\ ProtocolByte(r) = p
             /\ Slice(r, Len(r) - 6, Len(r) - 4) = Bytes(n, 2)
    <2>1. /\ p \in 0..255 /\ n \in Halfwords /\ ProtocolByte(b) = p
          /\ SubSeq(b, Len(b) - 5, Len(b) - 4) = Bytes(n, 2) /\ r = build_ack(b)
        BY <1>1, <1>2, <1>4
    <2> QED BY ONLY <2>1, <1>3, ZenonT(60)
<1> QED BY <1>4, Zenon
-----------------------------------------------------------------------------
(***************************************************************************)
(* What the GT06 parsers read.                                              *)
(***************************************************************************)

\* A field of w bytes behind the first i is the slice up to i + w.
LEMMA FieldIs ==
    ASSUME NEW b, NEW i, NEW f, At(b, i, f), NEW w, IsString(f, w), NEW j, j = i + w
    PROVE  Slice(b, i, j) = f
BY AtSlice DEF IsString

\* The sign goes into a bit and comes back from it.
LEMMA HemisphereIs ==
    ASSUME NEW n \in Signed32, NEW negative \in BOOLEAN, negative <=> n < 0
    PROVE  Hemisphere(Abs(n), negative) = n
<1>1. n \in Int
    BY AbsIs
<1> QED BY <1>1 DEF Hemisphere, Abs

\* A position behind the first four bytes.
LEMMA FixIsRead ==
    ASSUME NEW f \in FixFields, NEW b, At(b, 4, FixBytes(f))
    PROVE  parse_location_packet(b) = IF LegalTime(f.time) THEN f ELSE Refused
<1> DEFINE F == FixBytes(f)
           x == 16 * f.gps_length + f.satellites
           lat == Bytes(Abs(f.latitude), 4)
           lon == Bytes(Abs(f.longitude), 4)
           c == Bytes(Course(f), 2)
<1>1. /\ At(F, 0, f.time) /\ At(F, 6, <<x>>) /\ At(F, 7, lat) /\ At(F, 11, lon)
      /\ At(F, 15, <<f.speed>>) /\ At(F, 16, c) /\ IsString(f.time, 6) /\ IsString(lat, 4)
      /\ IsString(lon, 4) /\ IsString(c, 2) /\ x \in 0..255
    BY FixBytesFields
<1>2. /\ f.gps_length \in 0..15 /\ f.satellites \in 0..15 /\ f.speed \in 0..255
      /\ f.latitude \in Signed32 /\ f.longitude \in Signed32
    BY FixFieldsAre
<1>3. x \div 16 = f.gps_length /\ x % 16 = f.satellites
    BY <1>2, Nibbles, Zenon
<1>4. At(b, 4, F)
    OBVIOUS
<1>5. BigEndian(lat) = Abs(f.latitude) /\ BigEndian(lon) = Abs(f.longitude)
    BY <1>2, AbsIs, WordIsRead, Zenon
<1>6. BigEndian(c) = Course(f)
    BY CourseIs, HalfwordIs, ZenonT(60)
<1> HIDE DEF F, x, lat, lon, c
<1>7. /\ At(b, 4, f.time) /\ At(b, 10, <<x>>) /\ At(b, 11, lat) /\ At(b, 15, lon)
      /\ At(b, 19, <<f.speed>>) /\ At(b, 20, c)
    <2>1. ASSUME NEW j, NEW g, At(F, j, g) PROVE At(b, 4 + j, g)
        BY <1>4, <2>1, AtWithin, Zenon
    <2>2. /\ At(b, 4 + 0, f.time) /\ At(b, 4 + 6, <<x>>) /\ At(b, 4 + 7, lat) /\ At(b, 4 + 11, lon)
          /\ At(b, 4 + 15, <<f.speed>>) /\ At(b, 4 + 16, c)
        BY <1>1, <2>1, Zenon
    <2> QED BY <2>2
<1>8. /\ Slice(b, 4, 10) = f.time /\ Slice(b, 11, 15) = lat /\ Slice(b, 15, 19) = lon
      /\ Slice(b, 20, 22) = c
    <2>1. 10 = 4 + 6 /\ 15 = 11 + 4 /\ 19 = 15 + 4 /\ 22 = 20 + 2
        OBVIOUS
    <2>2. Slice(b, 4, 10) = f.time
        BY <2>1, <1>1, <1>7, FieldIs
    <2>3. Slice(b, 11, 15) = lat
        BY <2>1, <1>1, <1>7, FieldIs
    <2>4. Slice(b, 15, 19) = lon
        BY <2>1, <1>1, <1>7, FieldIs
    <2>5. Slice(b, 20, 22) = c
        BY <2>1, <1>1, <1>7, FieldIs
    <2> QED BY <2>2, <2>3, <2>4, <2>5
<1>9. Byte(b, 10) = x /\ Byte(b, 19) = f.speed
    BY <1>1, <1>2, <1>7, AtOneByte, Zenon
<1> DEFINE k == Course(f)
<1>10. /\ k % 1024 = f.heading /\ Bit(k, 12) = f.gps_fixed
       /\ Hemisphere(Abs(f.latitude), ~Bit(k, 10)) = f.latitude
       /\ Hemisphere(Abs(f.longitude), Bit(k, 11)) = f.longitude
    <2>1. /\ k % 1024 = f.heading /\ (Bit(k, 10) <=> f.latitude >= 0)
          /\ (Bit(k, 11) <=> f.longitude < 0) /\ Bit(k, 12) = f.gps_fixed
        BY CourseIs
    <2>2. (~Bit(k, 10)) \in BOOLEAN /\ Bit(k, 11) \in BOOLEAN
        BY DEF Bit
    <2> HIDE DEF k
    <2>3. (~Bit(k, 10)) <=> f.latitude < 0
        <3>1. f.latitude \in Int
            BY <1>2, AbsIs
        <3> QED BY <2>1, <3>1
    <2>4. Hemisphere(Abs(f.latitude), ~Bit(k, 10)) = f.latitude
        BY <1>2, <2>2, <2>3, HemisphereIs, Zenon
    <2>5. Hemisphere(Abs(f.longitude), Bit(k, 11)) = f.longitude
        BY <1>2, <2>1, <2>2, HemisphereIs, ZenonT(60)
    <2> QED BY <2>1, <2>4, <2>5, Zenon
<1> HIDE DEF k
<1>11. BigEndian(Slice(b, 20, 22)) = k
    BY <1>6, <1>8 DEF k
<1>12. CASE ~LegalTime(f.time)
    BY <1>8, <1>12, ZenonT(60) DEF parse_location_packet
<1>13. CASE LegalTime(f.time)
    <2> DEFINE r == [time |-> f.time, gps_length |-> x \div 16, satellites |-> x % 16,
                     latitude |-> Hemisphere(BigEndian(lat), ~Bit(k, 10)),
                     longitude |-> Hemisphere(BigEndian(lon), Bit(k, 11)),
                     speed |-> f.speed, heading |-> k % 1024, gps_fixed |-> Bit(k, 12)]
    <2>1. parse_location_packet(b) = r
        BY <1>8, <1>9, <1>11, <1>13, ZenonT(60) DEF parse_location_packet
    <2>2. r = [time |-> f.time, gps_length |-> f.gps_length, satellites |-> f.satellites,
                   latitude |-> f.latitude, longitude |-> f.longitude, speed |-> f.speed,
                   heading |-> f.heading, gps_fixed |-> f.gps_fixed]
        BY <1>3, <1>5, <1>10, ZenonT(60)
    <2> HIDE DEF r
    <2> QED BY <1>13, <2>1, <2>2, FixFieldsAre, ZenonT(60)
<1> QED BY <1>12, <1>13

\* A status is read as it was sent.
LEMMA StatusIsRead ==
    ASSUME NEW s \in StatusFields, NEW b, At(b, 4, StatusBytes(s))
    PROVE  parse_terminal_status(b) = s
<1>1. 4 + 1 = 5 /\ 4 + 2 = 6 /\ 4 \in Nat
    OBVIOUS
<1>2. TerminalInfo(Byte(b, 4), Byte(b, 4 + 1), Byte(b, 4 + 2)) = s
    BY <1>1, StatusAt, Zenon
<1> QED BY <1>1, <1>2 DEF parse_terminal_status

\* An alarm is, unless its position has a time that does not exist.
LEMMA AlarmIsRead ==
    ASSUME NEW a \in AlarmFields, NEW b, At(b, 4, AlarmBytes(a))
    PROVE  parse_alarm_packet(b) = IF LegalTime(a.fix.time) THEN a ELSE Refused
<1> DEFINE A == AlarmBytes(a)
           f == FixBytes(a.fix)
           mcc == Bytes(a.mcc, 2)
           lac == Bytes(a.lac, 2)
           cell == Bytes(a.cell_id, 3)
           s == StatusBytes(a.status)
           y == AlarmByte(a)
<1>1. /\ At(A, 0, f) /\ At(A, 18, mcc) /\ At(A, 20, <<a.mnc>>) /\ At(A, 21, lac)
      /\ At(A, 23, cell) /\ At(A, 26, s) /\ At(A, 29, <<y>>)
    BY AlarmBytesFields
<1>2. /\ a.fix \in FixFields /\ a.mcc \in Halfwords /\ a.mnc \in 0..255 /\ a.lac \in Halfwords
      /\ a.cell_id \in CellIds /\ a.status \in StatusFields
    BY AlarmFieldsAre
<1>3. y \in 0..255 /\ y \div 16 = a.alarm_type /\ Bit(y, 0) = a.english
    BY AlarmByteIs
<1>4. At(b, 4, A)
    OBVIOUS
<1>5. /\ IsString(mcc, 2) /\ BigEndian(mcc) = a.mcc /\ IsString(lac, 2) /\ BigEndian(lac) = a.lac
    BY <1>2, HalfwordIs, Zenon DEF IsString
<1>6. IsString(cell, 3) /\ BigEndian(cell) = a.cell_id
    BY <1>2, CellIdIs, Zenon DEF IsString
<1> HIDE DEF A, f, mcc, lac, cell, s, y
<1>7. /\ At(b, 4, f) /\ At(b, 22, mcc) /\ At(b, 24, <<a.mnc>>) /\ At(b, 25, lac)
      /\ At(b, 27, cell) /\ At(b, 30, s) /\ At(b, 33, <<y>>)
    <2>1. ASSUME NEW j, NEW g, At(A, j, g) PROVE At(b, 4 + j, g)
        BY <1>4, <2>1, AtWithin, Zenon
    <2>2. /\ At(b, 4 + 0, f) /\ At(b, 4 + 18, mcc) /\ At(b, 4 + 20, <<a.mnc>>) /\ At(b, 4 + 21, lac)
          /\ At(b, 4 + 23, cell) /\ At(b, 4 + 26, s) /\ At(b, 4 + 29, <<y>>)
        BY <1>1, <2>1, Zenon
    <2> QED BY <2>2
<1>8. Slice(b, 22, 24) = mcc /\ Slice(b, 25, 27) = lac /\ Slice(b, 27, 30) = cell
    <2>1. 24 = 22 + 2 /\ 27 = 25 + 2 /\ 30 = 27 + 3
        OBVIOUS
    <2>2. Slice(b, 22, 24) = mcc
        BY <2>1, <1>5, <1>7, FieldIs
    <2>3. Slice(b, 25, 27) = lac
        BY <2>1, <1>5, <1>7, FieldIs
    <2>4. Slice(b, 27, 30) = cell
        BY <2>1, <1>6, <1>7, FieldIs
    <2> QED BY <2>2, <2>3, <2>4
<1>9. Byte(b, 24) = a.mnc /\ Byte(b, 33) = y
    BY <1>2, <1>3, <1>7, AtOneByte, Zenon
<1>10. TerminalInfo(Byte(b, 30), Byte(b, 31), Byte(b, 32)) = a.status
    <2>1. 30 + 1 = 31 /\ 30 + 2 = 32 /\ 30 \in Nat
        OBVIOUS
    <2>2. TerminalInfo(Byte(b, 30), Byte(b, 30 + 1), Byte(b, 30 + 2)) = a.status
        BY <1>2, <1>7, <2>1, StatusAt, Zenon DEF s
    <2> QED BY <2>1, <2>2
<1>11. parse_location_packet(b) = IF LegalTime(a.fix.time) THEN a.fix ELSE Refused
    BY <1>2, <1>7, FixIsRead, Zenon DEF f
<1>12. CASE ~LegalTime(a.fix.time)
    BY <1>11, <1>12, Zenon DEF parse_alarm_packet
<1>13. CASE LegalTime(a.fix.time)
    <2>1. a.fix # Refused
        BY <1>2 DEF FixFields, Refused
    <2> DEFINE r == [fix |-> a.fix, mcc |-> a.mcc, mnc |-> a.mnc, lac |-> a.lac,
                     cell_id |-> a.cell_id, status |-> a.status, alarm_type |-> y \div 16,
                     english |-> Bit(y, 0)]
    <2>2. parse_alarm_packet(b) = r
        BY <1>5, <1>6, <1>8, <1>9, <1>10, <1>11, <1>13, <2>1, Zenon DEF parse_alarm_packet
    <2>3. r = a
        BY <1>3, AlarmFieldsAre, Zenon
    <2> HIDE DEF r
    <2> QED BY <1>13, <2>2, <2>3, Zenon
<1> QED BY <1>12, <1>13

\* Zeros in front of a numeral go away again.
LEMMA NumeralIs ==
    ASSUME NEW v \in Seq(Nat), NEW b \in Seq(Nat), NEW z \in Nat, v # <<>> => v[1] # 0,
           Len(b) = z + Len(v), \A i \in 1..z : b[i] = 0, \A i \in 1..Len(v) : b[z + i] = v[i]
    PROVE  Numeral(b) = v
<1> DEFINE I == {i \in 1..Len(b) : b[i] # 0}
           first == IF I # {} THEN Min(I) ELSE 0
<1>1. Len(b) \in Nat /\ Len(v) \in Nat /\ I \in SUBSET (1..Len(b))
    OBVIOUS
<1>2. Numeral(b) = IF first = 0 THEN <<>> ELSE SubSeq(b, first, Len(b))
    BY DEF Numeral, SelectInSeq
<1>3. \A i \in 1..Len(b) : i \in I <=> b[i] # 0
    OBVIOUS
<1> HIDE DEF I
<1>4. CASE v = <<>>
    <2>1. Len(b) = z
        BY <1>1, <1>4
    <2>2. I = {}
        BY <1>1, <1>3, <2>1
    <2> QED BY <1>2, <1>4, <2>2
<1>5. CASE v # <<>>
    <2>1. 1 \in 1..Len(v)
        BY <1>1, <1>5
    <2>2. z + 1 \in 1..Len(b) /\ b[z + 1] # 0
        BY <1>1, <1>5, <2>1
    <2>3. z + 1 \in I
        BY <1>3, <2>2
    <2>4. Min(I) \in I /\ \A y \in I : Min(I) <= y
        BY <1>1, <2>3, MinMax
    <2>5. ASSUME NEW y \in I PROVE z + 1 <= y
        <3>1. y \in 1..Len(b) /\ b[y] # 0
            BY <1>1, <1>3
        <3>2. y \notin 1..z
            BY <3>1
        <3> QED BY <1>1, <3>1, <3>2
    <2>6. Min(I) = z + 1
        <3>1. Min(I) \in Nat
            <4>1. Min(I) \in 1..Len(b)
                BY <1>1, <2>4, Zenon
            <4> QED BY <1>1, <4>1
        <3> QED BY <2>3, <2>4, <2>5, <3>1
    <2>7. Numeral(b) = SubSeq(b, z + 1, Len(b))
        <3>1. I # {}
            BY <2>3
        <3>2. first = z + 1
            BY <2>6, <3>1
        <3>3. z + 1 # 0
            OBVIOUS
        <3> HIDE DEF first
        <3> QED BY ONLY <1>2, <3>2, <3>3, Zenon
    <2>8. SubSeq(b, z + 1, Len(b)) = v
        <3>1. SubSeq(b, z + 1, Len(b)) = [i \in 1..Len(v) |-> b[z + i]]
            <4>1. SubSeq(b, z + 1, Len(b)) = [i \in 1..(Len(b) - (z + 1) + 1) |-> b[i + (z + 1) - 1]]
                BY <1>1
            <4>2. Len(b) - (z + 1) + 1 = Len(v) /\ \A i \in 1..Len(v) : i + (z + 1) - 1 = z + i
                BY <1>1
            <4> QED BY <4>1, <4>2
        <3>2. v = [i \in 1..Len(v) |-> v[i]]
            OBVIOUS
        <3>3. [i \in 1..Len(v) |-> b[z + i]] = [i \in 1..Len(v) |-> v[i]]
            OBVIOUS
        <3> QED BY ONLY <3>1, <3>2, <3>3
    <2> QED BY <2>7, <2>8
<1> QED BY <1>4, <1>5

\* The IMEI, two digits in a byte.
LEMMA LoginIsRead ==
    ASSUME NEW imei \in ImeisWithout0, NEW b, At(b, 4, ImeiBytes(imei))
    PROVE  parse_login_packet(b) = [imei |-> imei]
<1> DEFINE p == ImeiBytes(imei)
           d == [k \in 1..16 |-> IF k % 2 = 1 THEN p[(k + 1) \div 2] \div 16 ELSE p[k \div 2] % 16]
<1>1. imei \in Imeis /\ imei[1] # 0
    BY DEF ImeisWithout0
<1>2. \A i \in 1..15 : imei[i] \in 0..9
    BY <1>1 DEF Imeis
<1>3. /\ IsString(p, 8) /\ p[1] = imei[1]
      /\ \A k \in 2..8 : p[k] = 16 * imei[2 * k - 2] + imei[2 * k - 1]
    BY <1>1, ImeiBytesAre
<1>4. Slice(b, 4, 12) = p
    <2>1. At(b, 4, p) /\ 12 = 4 + 8
        OBVIOUS
    <2> HIDE DEF p
    <2> QED BY <1>3, <2>1, FieldIs
<1>5. parse_login_packet(b) = [imei |-> Numeral(d)]
    BY <1>4 DEF parse_login_packet
<1> HIDE DEF p
<1>6. ASSUME NEW x \in 0..9, NEW y \in 0..9
      PROVE  (16 * x + y) \div 16 = x /\ (16 * x + y) % 16 = y /\ y \div 16 = 0 /\ y % 16 = y
    BY SMT
<1>7. d[1] = 0 /\ d[2] = imei[1]
    <2>1. d[1] = p[1] \div 16 /\ d[2] = p[1] % 16
        OBVIOUS
    <2>2. imei[1] \in 0..9
        BY <1>2
    <2> HIDE DEF d
    <2> QED BY <1>3, <1>6, <2>1, <2>2
<1>8. ASSUME NEW j \in 2..8
      PROVE  d[2 * j - 1] = imei[2 * j - 2] /\ d[2 * j] = imei[2 * j - 1]
    <2>1. /\ 2 * j - 1 \in 1..16 /\ 2 * j \in 1..16 /\ (2 * j - 1) % 2 = 1 /\ (2 * j) % 2 = 0
          /\ ((2 * j - 1) + 1) \div 2 = j /\ (2 * j) \div 2 = j
          /\ 2 * j - 2 \in 1..15 /\ 2 * j - 1 \in 1..15
        OBVIOUS
    <2>2. d[2 * j - 1] = p[j] \div 16
        BY <2>1
    <2>3. d[2 * j] = p[j] % 16
        BY <2>1
    <2>4. imei[2 * j - 2] \in 0..9 /\ imei[2 * j - 1] \in 0..9
        BY <1>2, <2>1
    <2>5. p[j] \div 16 = imei[2 * j - 2] /\ p[j] % 16 = imei[2 * j - 1]
        <3>1. p[j] = 16 * imei[2 * j - 2] + imei[2 * j - 1]
            BY <1>3
        <3> QED BY ONLY <3>1, <1>6, <2>4, ZenonT(60)
    <2> QED BY <2>2, <2>3, <2>5, Zenon
<1>9. Len(d) = 16
    OBVIOUS
<1>10. DOMAIN d = 1..16
    OBVIOUS
<1>11. d = [i \in 1..16 |-> d[i]]
    OBVIOUS
<1> HIDE DEF d
<1>12. ASSUME NEW i \in 1..15 PROVE d[1 + i] = imei[i]
    <2>1. CASE i = 1
        BY <1>7, <2>1
    <2>2. CASE i # 1 /\ i % 2 = 0
        <3> DEFINE j == (i + 2) \div 2
        <3>1. j \in 2..8 /\ 2 * j - 1 = 1 + i /\ 2 * j - 2 = i
            BY <2>2
        <3> HIDE DEF j
        <3> QED BY <1>8, <3>1
    <2>3. CASE i # 1 /\ i % 2 = 1
        <3> DEFINE j == (i + 1) \div 2
        <3>1. j \in 2..8 /\ 2 * j = 1 + i /\ 2 * j - 1 = i
            BY <2>3
        <3> HIDE DEF j
        <3> QED BY <1>8, <3>1
    <2> QED BY <2>1, <2>2, <2>3
<1>13. imei \in Seq(Nat) /\ Len(imei) = 15
    <2>1. imei \in [1..15 -> Nat]
        BY <1>1 DEF Imeis
    <2> QED BY <2>1, FunctionIsSeq
<1>14. d \in Seq(Nat)
    <2>1. ASSUME NEW i \in 1..16 PROVE d[i] \in Nat
        <3>1. CASE i = 1
            BY <1>7, <3>1
        <3>2. CASE i # 1
            <4>1. i - 1 \in 1..15 /\ 1 + (i - 1) = i
                BY <3>2
            <4> QED BY <1>2, <1>12, <4>1
        <3> QED BY <3>1, <3>2
    <2>2. d \in [1..16 -> Nat]
        BY <1>11, <2>1
    <2> QED BY <2>2, FunctionIsSeq
<1>15. Numeral(d) = imei
    <2>1. \A i \in 1..1 : d[i] = 0
        BY <1>7
    <2>2. Len(d) = 1 + Len(imei) /\ \A i \in 1..Len(imei) : d[1 + i] = imei[i]
        BY <1>9, <1>12, <1>13
    <2> QED BY <1>1, <1>13, <1>14, <2>1, <2>2, NumeralIs
<1> QED BY <1>5, <1>15, Zenon

\* A short frame of one of these kinds is read by the parser its protocol names.
LEMMA Gt06IsParsed ==
    ASSUME NEW m, Gt06Fits(m), m.kind \notin {"text", "response"}, NEW b, b = Gt06Wire(m)
    PROVE  /\ m.kind = "login" => Gt06Parse(b) = m.data
           /\ m.kind = "location" =>
                 Gt06Parse(b) = IF LegalTime(m.data.time) THEN m.data ELSE Refused
           /\ m.kind = "status" => Gt06Parse(b) = m.data
           /\ m.kind = "alarm" =>
                 Gt06Parse(b) = IF LegalTime(m.data.fix.time) THEN m.data ELSE Refused
           /\ m.kind \in {"login", "location", "status", "alarm"}
<1>1. /\ m.kind \in {"login", "location", "status", "alarm"} /\ ~m.long
      /\ m.kind = "login" => m.protocol = 1 /\ m.data \in [imei : ImeisWithout0]
      /\ m.kind = "location" => m.protocol \in {18, 34} /\ m.data \in FixFields
      /\ m.kind = "status" => m.protocol \in {19, 35} /\ m.data \in StatusFields
      /\ m.kind = "alarm" => m.protocol = 38 /\ m.data \in AlarmFields
    BY KindIs
<1>2. ProtocolByte(b) = m.protocol
    BY Gt06Marks, Zenon
<1>3. At(b, 4, Content(m))
    <2>1. LengthWidth(m) = 1
        BY <1>1 DEF LengthWidth
    <2>2. At(b, LengthWidth(m) + 3, Content(m))
        BY Gt06WireFields, Zenon
    <2>3. 1 + 3 = 4
        OBVIOUS
    <2> QED BY <2>1, <2>2, <2>3, Zenon
<1>4. CASE m.kind = "login"
    <2>1. Content(m) = ImeiBytes(m.data.imei) /\ m.data = [imei |-> m.data.imei]
          /\ m.data.imei \in ImeisWithout0
        BY <1>1, <1>4 DEF Content
    <2>2. parse_login_packet(b) = m.data
        BY <1>3, <2>1, LoginIsRead, Zenon
    <2>3. Gt06Parse(b) = parse_login_packet(b)
        BY <1>1, <1>2, <1>4 DEF Gt06Parse
    <2> QED BY <1>4, <2>2, <2>3
<1>5. CASE m.kind = "location"
    <2>1. Content(m) = FixBytes(m.data) /\ m.data \in FixFields
        BY <1>1, <1>5 DEF Content
    <2>2. Gt06Parse(b) = parse_location_packet(b)
        BY <1>1, <1>2, <1>5 DEF Gt06Parse
    <2>3. parse_location_packet(b) = IF LegalTime(m.data.time) THEN m.data ELSE Refused
        BY <1>3, <2>1, FixIsRead, Zenon
    <2> QED BY <1>5, <2>2, <2>3
<1>6. CASE m.kind = "status"
    <2>1. Content(m) = StatusBytes(m.data) /\ m.data \in StatusFields
        BY <1>1, <1>6 DEF Content
    <2>2. Gt06Parse(b) = parse_terminal_status(b)
        BY <1>1, <1>2, <1>6 DEF Gt06Parse
    <2>3. parse_terminal_status(b) = m.data
        BY <1>3, <2>1, StatusIsRead, Zenon
    <2> QED BY <1>6, <2>2, <2>3
<1>7. CASE m.kind = "alarm"
    <2>1. Content(m) = AlarmBytes(m.data) /\ m.data \in AlarmFields
        BY <1>1, <1>7 DEF Content
    <2>2. Gt06Parse(b) = parse_alarm_packet(b)
        BY <1>1, <1>2, <1>7 DEF Gt06Parse
    <2>3. parse_alarm_packet(b) = IF LegalTime(m.data.fix.time) THEN m.data ELSE Refused
        BY <1>3, <2>1, AlarmIsRead, Zenon
    <2> QED BY <1>7, <2>2, <2>3
<1> QED BY <1>1, <1>4, <1>5, <1>6, <1>7

(***************************************************************************)
(* Every GT06 login, position, status and alarm a device can send, and not  *)
(* only those of the run: the parsers of v5_parser.py give back each field as*)
(* it was sent, in every hemisphere and with every combination of flags, and*)
(* refuse a position at a time that does not exist (Gt06IsRead).            *)
(***************************************************************************)
THEOREM Gt06RoundTrip == DecodingSpec => []Gt06IsRead
<1>1. ASSUME DecodingInv PROVE Gt06IsRead
    <2> SUFFICES ASSUME Arrived("GT06"), ~HasText
                 PROVE  ReadIf(CASE msg.kind = "location" -> LegalTime(msg.data.time)
                                 [] msg.kind = "alarm" -> LegalTime(msg.data.fix.time)
                                 [] OTHER -> TRUE)
        BY DEF Gt06IsRead
    <2>1. Gt06Fits(msg) /\ wire = Gt06Wire(msg) /\ got = Gt06Parse(wire)
        BY <1>1, Gt06Taken
    <2>2. msg.kind \notin {"text", "response"}
        BY DEF HasText
    <2>3. /\ msg.kind = "login" => got = msg.data
          /\ msg.kind = "location" => got = IF LegalTime(msg.data.time) THEN msg.data ELSE Refused
          /\ msg.kind = "status" => got = msg.data
          /\ msg.kind = "alarm" => got = IF LegalTime(msg.data.fix.time) THEN msg.data ELSE Refused
          /\ msg.kind \in {"login", "location", "status", "alarm"}
        BY <2>1, <2>2, Gt06IsParsed, Zenon
    <2> QED BY <2>3 DEF ReadIf
<1> QED BY <1>1, DecodingInvariant, PTL
-----------------------------------------------------------------------------
(***************************************************************************)
(* Commands.                                                                *)
(***************************************************************************)
CommandBody(text, serial) ==
    <<128, 4 + Len(text)>> \o <<0, 0, 0, 1>> \o text \o <<0, 2>> \o Bytes(serial, 2)

\* The fields of a command whose text is not too long.
LEMMA CommandBodyFields ==
    ASSUME NEW n \in 0..243, NEW text, IsString(text, n), NEW serial \in Halfwords
    PROVE  /\ n \in Nat /\ IsString(CommandBody(text, serial), n + 10)
           /\ At(CommandBody(text, serial), 0, <<128, 4 + n>>)
           /\ At(CommandBody(text, serial), 6, text)
           /\ At(CommandBody(text, serial), n + 8, Bytes(serial, 2))
           /\ IsString(Bytes(serial, 2), 2)
           /\ IsString(<<128, 4 + n>>, 2) /\ <<128, 4 + n>>[2] = 4 + n
<1> DEFINE f1 == <<128, 4 + n>>
           f2 == <<0, 0, 0, 1>>
           f4 == <<0, 2>>
           f5 == Bytes(serial, 2)
<1>0. n \in Nat
    OBVIOUS
<1>1. IsString(f1, 2) /\ f1[2] = 4 + n
    <2>1. 4 + n \in 0..255 /\ 128 \in 0..255
        BY <1>0
    <2> QED BY <2>1, TwoByteStrings, Zenon
<1>2. IsString(f2, 4) /\ IsString(f4, 2)
    BY DEF IsString, ByteStrings
<1>3. IsString(f5, 2)
    BY HalfwordIs, Zenon DEF IsString
<1>4. IsString(text, n)
    OBVIOUS
<1>5. CommandBody(text, serial) = f1 \o f2 \o text \o f4 \o f5
    BY DEF CommandBody, IsString
<1> HIDE DEF f1, f2, f4, f5
<1> DEFINE p2 == f1 \o f2
           p3 == p2 \o text
           p4 == p3 \o f4
           p5 == p4 \o f5
<1>12. IsString(p2, 6) /\ Keeps(f1, p2)
    <2>1. IsString(p2, 2 + 4) /\ Keeps(f1, p2)
        BY <1>1, <1>2, AppendAt, Zenon
    <2> HIDE DEF p2
    <2> QED BY <2>1
<1> HIDE DEF p2
<1>13. IsString(p3, 6 + n) /\ At(p3, 6, text) /\ Keeps(p2, p3)
    BY <1>4, <1>12, AppendAt, Zenon
<1> HIDE DEF p3
<1>14. IsString(p4, n + 8) /\ Keeps(p3, p4)
    <2>1. IsString(p4, 6 + n + 2) /\ Keeps(p3, p4)
        BY <1>2, <1>13, AppendAt, Zenon
    <2>2. 6 + n + 2 = n + 8
        BY <1>0
    <2> QED BY <2>1, <2>2, Zenon
<1> HIDE DEF p4
<1>15. IsString(p5, n + 10) /\ At(p5, n + 8, f5) /\ Keeps(p4, p5)
    <2>1. IsString(p5, n + 8 + 2) /\ At(p5, n + 8, f5) /\ Keeps(p4, p5)
        BY <1>3, <1>14, AppendAt, Zenon
    <2>2. n + 8 + 2 = n + 10
        BY <1>0
    <2> QED BY <2>1, <2>2, Zenon
<1> HIDE DEF p5
<1>16. At(p5, 0, f1) /\ At(p5, 6, text)
    <2>1. At(f1, 0, f1)
        BY <1>1, AtWhole, Zenon DEF IsString
    <2> QED BY <2>1, <1>12, <1>13, <1>14, <1>15, Zenon DEF Keeps
<1>17. CommandBody(text, serial) = p5
    BY <1>5 DEF p2, p3, p4, p5
<1> QED BY <1>0, <1>1, <1>3, <1>15, <1>16, <1>17, Zenon DEF f1, f5

\* A command is a short frame.
LEMMA CommandIsSealed ==
    ASSUME NEW n \in 0..243, NEW text, IsString(text, n), NEW serial \in Halfwords,
           NEW body, body = CommandBody(text, serial)
    PROVE  /\ IsString(<<n + 12>>, 1) /\ IsString(<<n + 12>> \o body, n + 11)
           /\ At(<<n + 12>> \o body, 1, body)
           /\ IsBody(<<120, 120>>, <<n + 12>> \o body)
           /\ <<120, 120, n + 12>> \o body \o Bytes(crc16_x25(<<n + 12>> \o body), 2) \o <<13, 10>>
                = Sealed(<<120, 120>>, <<n + 12>> \o body)
<1> DEFINE h == <<n + 12>>
           c == h \o body
           s == <<120, 120>>
<1>1. n \in Nat /\ IsString(body, n + 10)
    BY CommandBodyFields, Zenon
<1>2. IsString(h, 1) /\ h[1] = n + 12
    <2>1. n + 12 \in 0..255
        BY <1>1
    <2> QED BY <2>1, OneByte, Zenon DEF IsString
<1>3. IsString(s, 2)
    <2>1. 120 \in 0..255
        OBVIOUS
    <2> QED BY <2>1, TwoByteStrings, ZenonT(60)
<1>4. <<120, 120, n + 12>> = s \o h
    OBVIOUS
<1> HIDE DEF h
<1>5. IsString(c, n + 11) /\ At(c, 1, body) /\ Keeps(h, c)
    <2>1. IsString(c, 1 + (n + 10)) /\ At(c, 1, body) /\ Keeps(h, c)
        BY <1>1, <1>2, AppendAt, Zenon
    <2>2. 1 + (n + 10) = n + 11
        BY <1>1
    <2> QED BY <2>1, <2>2, Zenon
<1>6. s \o h \o body = s \o c
    <2> HIDE DEF s
    <2> QED BY <1>1, <1>2, <1>3, Associative, Zenon DEF IsString
<1> HIDE DEF c
<1>7. c[1] = n + 12
    <2>1. At(c, 0, h) /\ 1 \in 1..Len(h)
        <3>1. At(h, 0, h)
            BY <1>2, AtWhole, Zenon DEF IsString
        <3>2. 1 \in 1..1
            OBVIOUS
        <3> QED BY <1>2, <1>5, <3>1, <3>2, Zenon DEF IsString, Keeps
    <2>2. c[0 + 1] = h[1]
        BY <2>1, AtByte
    <2>3. 0 + 1 = 1
        OBVIOUS
    <2> QED BY <1>2, <2>2, <2>3, Zenon
<1>8. IsBody(s, c)
    <2>1. c \in ByteStrings /\ Len(c) = n + 11
        BY <1>5, Zenon DEF IsString
    <2>2. n + 12 = (n + 11) + 1 /\ n + 11 >= 2
        BY <1>1
    <2> QED BY <1>7, <2>1, <2>2, Zenon DEF IsBody, ShortBody
<1>9. <<120, 120, n + 12>> \o body \o Bytes(crc16_x25(c), 2) \o <<13, 10>> = Sealed(s, c)
    BY <1>4, <1>6, Zenon DEF Sealed
<1> QED BY <1>2, <1>5, <1>8, <1>9, Zenon DEF h, c, s

\* A text that is ASCII is encoded as the bytes of its code points.
LEMMA AsciiIsBytes ==
    ASSUME NEW text \in Seq(Nat), Ascii(text)
    PROVE  text \in ByteStrings
<1>1. Len(text) \in Nat /\ text = [k \in 1..Len(text) |-> text[k]]
    BY LenProperties
<1>2. ASSUME NEW k \in 1..Len(text) PROVE text[k] \in 0..255
    <2>1. text[k] \in Nat
        BY ElementOfSeq
    <2>2. text[k] < 128
        BY DEF Ascii
    <2>3. ASSUME NEW x \in Nat, x < 128 PROVE x \in 0..255
        BY ONLY <2>3
    <2> QED BY ONLY <2>1, <2>2, <2>3, Zenon
<1>3. text \in [1..Len(text) -> 0..255]
    BY ONLY <1>1, <1>2
<1>4. PICK n \in Nat : text \in [1..n -> 0..255]
    BY ONLY <1>1, <1>3, Zenon
<1>5. text \in Seq(0..255)
    BY ONLY <1>4, SeqDef, n \in Nat
<1> QED BY <1>5 DEF ByteStrings

\* The bytes that build_command joins.
LEMMA CommandBytes ==
    ASSUME NEW n \in 0..243, NEW text, IsString(text, n), NEW serial \in Halfwords
    PROVE  <<120, 120, n + 12>> \o CommandBody(text, serial)
              \o Bytes(crc16_x25(<<n + 12>> \o CommandBody(text, serial)), 2) \o <<13, 10>>
                = Sealed(<<120, 120>>, <<n + 12>> \o CommandBody(text, serial))
<1>1. ASSUME NEW body, body = CommandBody(text, serial)
      PROVE  <<120, 120, n + 12>> \o body \o Bytes(crc16_x25(<<n + 12>> \o body), 2) \o <<13, 10>>
                = Sealed(<<120, 120>>, <<n + 12>> \o body)
    BY <1>1, CommandIsSealed, ZenonT(60)
<1> QED BY <1>1, Zenon

\* ... from which its text and its serial number are read.
LEMMA CommandIsTaken ==
    ASSUME NEW n \in 0..243, NEW text, IsString(text, n), NEW serial \in Halfwords
    PROVE  CommandRead(Sealed(<<120, 120>>, <<n + 12>> \o CommandBody(text, serial)))
              = [text |-> text, serial |-> serial]
<1> SUFFICES ASSUME NEW c, c = <<n + 12>> \o CommandBody(text, serial),
                    NEW b, b = Sealed(<<120, 120>>, c)
             PROVE  CommandRead(b) = [text |-> text, serial |-> serial]
    BY Zenon
<1> DEFINE body == CommandBody(text, serial)
           s == <<120, 120>>
           f == Bytes(serial, 2)
           g == <<128, 4 + n>>
<1>1. /\ n \in Nat /\ IsString(body, n + 10) /\ At(body, 0, g) /\ At(body, 6, text)
      /\ At(body, n + 8, f) /\ IsString(f, 2) /\ IsString(g, 2) /\ g[2] = 4 + n
    BY CommandBodyFields, Zenon
<1>2. IsString(c, n + 11) /\ At(c, 1, body) /\ IsBody(s, c)
    BY CommandIsSealed, ZenonT(60)
<1>3. IsFrame(b)
    <2> HIDE DEF s
    <2> QED BY <1>2, SealedIsFrame, Zenon DEF s
<1>4. IsString(b, n + 17) /\ At(b, 2, c)
    <2>1. IsString(s, 2)
        BY <1>2, StartIs, ZenonT(60)
    <2>2. c \in ByteStrings /\ Len(c) = n + 11
        BY <1>2 DEF IsString
    <2> DEFINE t == s
    <2>3. IsString(b, Len(c) + 6) /\ At(b, 2, c)
        <3> HIDE DEF s
        <3> QED BY <2>1, <2>2, SealedFields, Zenon DEF s
    <2>4. n + 11 + 6 = n + 17
        BY <1>1
    <2> QED BY <2>2, <2>3, <2>4, Zenon
<1>5. BigEndian(f) = serial
    BY HalfwordIs, Zenon
<1> HIDE DEF body, s, f, g
<1>6. At(b, 3, g) /\ At(b, 9, text) /\ At(b, n + 11, f)
    <2>1. At(b, 2 + 1, body)
        BY <1>2, <1>4, AtWithin, Zenon
    <2>2. At(b, 3, body)
        BY <2>1
    <2>3. At(b, 3 + 0, g) /\ At(b, 3 + 6, text) /\ At(b, 3 + (n + 8), f)
        BY <1>1, <2>2, AtWithin, ZenonT(60)
    <2>4. 3 + 0 = 3 /\ 3 + 6 = 9 /\ 3 + (n + 8) = n + 11
        BY <1>1
    <2> QED BY <2>3, <2>4, Zenon
<1>7. Byte(b, 4) = 4 + n
    <2>1. 2 \in 1..Len(g)
        BY <1>1 DEF IsString
    <2>2. b[3 + 2] = g[2]
        BY <1>6, <2>1, AtByte
    <2>3. 3 + 2 = 4 + 1
        OBVIOUS
    <2> QED BY <1>1, <2>2, <2>3, Zenon DEF Byte
<1>8. Slice(b, 9, 5 + Byte(b, 4)) = text
    <2>1. Slice(b, 9, 9 + Len(text)) = text
        BY <1>6, AtSlice
    <2>2. 5 + (4 + n) = 9 + n
        BY <1>1
    <2> QED BY <1>7, <2>1, <2>2, ZenonT(60) DEF IsString
<1>9. Slice(b, Len(b) - 6, Len(b) - 4) = f
    <2>1. Len(b) = n + 17
        BY <1>4 DEF IsString
    <2>2. Len(b) - 6 = n + 11 /\ Len(b) - 4 = (n + 11) + 2
        BY <1>1, <2>1
    <2>3. Slice(b, n + 11, (n + 11) + 2) = f
        BY <1>1, <1>6, FieldIs
    <2> QED BY <2>2, <2>3, ZenonT(60)
<1>10. b # <<>>
    <2>1. Len(b) = n + 17 /\ n + 17 # 0
        BY <1>1, <1>4 DEF IsString
    <2> QED BY <2>1
<1> QED BY <1>3, <1>5, <1>8, <1>9, <1>10, ZenonT(60) DEF CommandRead

(***************************************************************************)
(* For every text and every serial number: what build_command returns is a  *)
(* whole frame from which the device reads that text and that serial, and it*)
(* returns none exactly if the text is not ASCII or has more than 243       *)
(* characters, or the serial does not fit (CommandIsRead).                  *)
(***************************************************************************)
THEOREM CommandRoundTrip == DecodingSpec => []CommandIsRead
<1>1. ASSUME NEW text \in Seq(Nat), NEW serial \in Nat, Ascii(text), Len(text) <= 243, serial < 65536
      PROVE  CommandRead(build_command(text, serial)) = [text |-> text, serial |-> serial]
    <2> DEFINE n == Len(text)
               body == CommandBody(text, serial)
    <2>1. serial \in Halfwords
        BY <1>1, BelowIf, SMT DEF Halfwords
    <2>2. n \in 0..243 /\ IsString(text, n)
        <3>1. n \in Nat
            OBVIOUS
        <3>2. n <= 243
            BY <1>1, SMT
        <3>3. text \in ByteStrings
            BY <1>1, AsciiIsBytes
        <3>4. ASSUME NEW k \in Nat, k <= 243 PROVE k \in 0..243
            BY ONLY <3>4
        <3>5. n \in 0..243
            BY ONLY <3>1, <3>2, <3>4, Zenon
        <3> QED BY <3>3, <3>5, Zenon DEF IsString
    <2> HIDE DEF n
    <2>7. IsString(body, n + 10)
        BY <2>1, <2>2, CommandBodyFields, Zenon
    <2>3. PacketLength(body) = n + 12
        <3> HIDE DEF body
        <3> QED BY <2>2, <2>7 DEF PacketLength, IsString
    <2>4. Fits(text, serial, n + 12)
        BY <1>1, <2>2, SMT DEF Fits, n
    <2>5. build_command(text, serial) =
            <<120, 120, n + 12>> \o body \o Bytes(crc16_x25(<<n + 12>> \o body), 2) \o <<13, 10>>
        BY <2>3, <2>4, Zenon DEF build_command, CommandBody
    <2>6. build_command(text, serial) = Sealed(<<120, 120>>, <<n + 12>> \o body)
        <3>1. <<120, 120, n + 12>> \o body \o Bytes(crc16_x25(<<n + 12>> \o body), 2) \o <<13, 10>>
                = Sealed(<<120, 120>>, <<n + 12>> \o body)
            BY <2>1, <2>2, CommandBytes, ZenonT(60)
        <3> HIDE DEF body
        <3> QED BY <2>5, <3>1, Zenon
    <2>8. CommandRead(Sealed(<<120, 120>>, <<n + 12>> \o body)) = [text |-> text, serial |-> serial]
        BY <2>1, <2>2, CommandIsTaken, ZenonT(60)
    <2> QED BY <2>6, <2>8, Zenon
<1>2. ASSUME NEW text \in Seq(Nat), NEW serial \in Nat,
             ~(Ascii(text) /\ Len(text) <= 243 /\ serial < 65536)
      PROVE  CommandRead(build_command(text, serial)) = Refused
    <2> DEFINE n == Len(text)
               body == CommandBody(text, serial)
    <2>1. n \in Nat
        OBVIOUS
    <2>2. Len(body) = n + 10
        <3> DEFINE f == Bytes(serial, 2)
                   a == <<128, 4 + n>>
                   z == <<0, 0, 0, 1>>
                   e == <<0, 2>>
        <3>1. f \in ByteStrings /\ Len(f) = 2
            BY BytesSize, SMT
        <3>2. a \in Seq(Nat) /\ z \in Seq(Nat) /\ e \in Seq(Nat) /\ Len(a) = 2 /\ Len(z) = 4 /\ Len(e) = 2
            BY <2>1
        <3>3. f \in Seq(Nat) /\ text \in Seq(Nat)
            <4>1. ASSUME NEW b \in ByteStrings PROVE b \in Seq(Nat)
                <5>1. 0..255 \subseteq Nat
                    OBVIOUS
                <5> QED BY <4>1, <5>1, SeqMonotonic, Zenon DEF ByteStrings
            <4> HIDE DEF f
            <4> QED BY <3>1, <4>1
        <3>4. body = a \o z \o text \o e \o f
            BY DEF CommandBody
        <3> HIDE DEF f, a, z, e, body
        <3>5. ASSUME NEW x \in Seq(Nat), NEW y \in Seq(Nat)
              PROVE  x \o y \in Seq(Nat) /\ Len(x \o y) = Len(x) + Len(y)
            OBVIOUS
        <3>6. /\ a \o z \in Seq(Nat) /\ a \o z \o text \in Seq(Nat)
              /\ a \o z \o text \o e \in Seq(Nat)
            BY <3>2, <3>3, <3>5, Zenon
        <3>7. Len(a \o z \o text \o e \o f) = (((Len(a) + Len(z)) + Len(text)) + Len(e)) + Len(f)
            <4>1. Len(a \o z) = Len(a) + Len(z)
                BY <3>2, <3>5, Zenon
            <4>2. Len(a \o z \o text) = Len(a \o z) + Len(text)
                BY <3>3, <3>5, <3>6, Zenon
            <4>3. Len(a \o z \o text \o e) = Len(a \o z \o text) + Len(e)
                BY <3>2, <3>5, <3>6, Zenon
            <4>4. Len(a \o z \o text \o e \o f) = Len(a \o z \o text \o e) + Len(f)
                BY <3>3, <3>5, <3>6, Zenon
            <4> QED BY <4>1, <4>2, <4>3, <4>4, Zenon
        <3>8. Len(a \o z \o text \o e \o f) = 10 + n
            <4>1. Len(a \o z \o text \o e \o f) = (((2 + 4) + n) + 2) + 2
                BY <3>1, <3>2, <3>7, Zenon DEF n
            <4> HIDE DEF n
            <4> QED BY <2>1, <4>1
        <3> HIDE DEF n
        <3> QED BY <2>1, <3>4, <3>8
    <2> HIDE DEF n
    <2>3. PacketLength(body) = n + 12
        <3> HIDE DEF body
        <3> QED BY <2>1, <2>2 DEF PacketLength
    <2>4. ~Fits(text, serial, n + 12)
        BY <1>2, <2>1, SMT DEF Fits, n
    <2>5. build_command(text, serial) = <<>>
        BY <2>3, <2>4, Zenon DEF build_command, CommandBody
    <2> QED BY <2>5 DEF CommandRead
<1>3. ASSUME DecodingInv PROVE CommandIsRead
    <2> SUFFICES ASSUME Arrived("COMMAND")
                 PROVE  ReadIf(SendableCommand(msg.data))
        BY DEF CommandIsRead
    <2>1. got # None /\ damaged = 0 /\ msg.family = "COMMAND"
        BY DEF Arrived
    <2>2. msg \in Samples /\ wire = Wire(msg) /\ got = CommandRead(wire)
        BY <1>3, <2>1 DEF DecodingInv, MessageInv, WireInv, HeardInv
    <2>3. CommandFits(msg)
        BY <2>1, <2>2, SamplesAssumption DEF Fitting
    <2> DEFINE text == msg.data.text
               serial == msg.data.serial
    <2>4. text \in Seq(Nat) /\ serial \in Nat /\ msg.data = [text |-> text, serial |-> serial]
        BY <2>3 DEF CommandFits
    <2>8. SendableCommand(msg.data) <=> Ascii(text) /\ Len(text) <= 243 /\ serial < 65536
        BY DEF SendableCommand
    <2>5. got = CommandRead(build_command(text, serial))
        BY <2>1, <2>2 DEF Wire
    <2> HIDE DEF text, serial
    <2>6. CASE Ascii(text) /\ Len(text) <= 243 /\ serial < 65536
        <3>1. got = msg.data
            BY <1>1, <2>4, <2>5, <2>6
        <3> QED BY <2>6, <2>8, <3>1 DEF ReadIf
    <2>7. CASE ~(Ascii(text) /\ Len(text) <= 243 /\ serial < 65536)
        <3>1. got = Refused
            BY <1>2, <2>4, <2>5, <2>7
        <3> QED BY <2>7, <2>8, <3>1 DEF ReadIf
    <2> QED BY <2>6, <2>7
<1> QED BY <1>3, DecodingInvariant, PTL
-----------------------------------------------------------------------------
(***************************************************************************)
(* GPS103: decimal digits and coordinates.                                  *)
(***************************************************************************)

\* A number is read digit by digit.
LEMMA DecimalSteps ==
    ASSUME NEW d \in Seq(Nat)
    PROVE  \E f : /\ Decimal(d) = f[Len(d)] /\ f[0] = 0
                  /\ \A i \in 1..Len(d) : f[i] = 10 * f[i - 1] + d[i]
<1> DEFINE step == [i \in 1..Len(d) |-> [n \in Nat |-> 10 * n + d[i]]]
           F == CHOOSE f : f = [i \in 0..Len(d) |-> IF i = 0 THEN 0 ELSE 10 * f[i - 1] + d[i]]
<1>1. Len(d) \in Nat /\ \A i \in 1..Len(d) : d[i] \in Nat
    OBVIOUS
<1>2. ASSUME NEW i \in 1..Len(d), NEW n \in Nat PROVE 10 * n + d[i] \in Nat
    <2>1. d[i] \in Nat
        BY <1>1
    <2> QED BY <2>1
<1>3. step \in [1..Len(d) -> [Nat -> Nat]]
    <2>1. ASSUME NEW i \in 1..Len(d) PROVE [n \in Nat |-> 10 * n + d[i]] \in [Nat -> Nat]
        BY <1>2
    <2> QED BY <2>1
<1>4. PICK f \in [0..Len(d) -> Nat] : Iterates(f, Len(d), 0, step)
    <2>1. 0 \in Nat
        OBVIOUS
    <2> HIDE DEF step
    <2> QED BY <1>1, <1>3, <2>1, Iteration
<1>5. ASSUME NEW i \in 0..Len(d)
      PROVE  f[i] = IF i = 0 THEN 0 ELSE 10 * f[i - 1] + d[i]
    <2>1. f[i] = IF i = 0 THEN 0 ELSE step[i][f[i - 1]]
        <3> HIDE DEF step
        <3> QED BY <1>4 DEF Iterates
    <2>2. i # 0 => i \in 1..Len(d) /\ f[i - 1] \in Nat
        <3>1. ASSUME NEW l \in Nat, NEW j \in 0..l, j # 0 PROVE j \in 1..l /\ j - 1 \in 0..l
            BY ONLY <3>1
        <3>2. i # 0 => i \in 1..Len(d) /\ i - 1 \in 0..Len(d)
            BY ONLY <1>1, <1>5, <3>1, Zenon
        <3> QED BY <1>4, <3>2, Zenon
    <2> QED BY <2>1, <2>2
<1>6. f = [i \in 0..Len(d) |-> IF i = 0 THEN 0 ELSE 10 * f[i - 1] + d[i]]
    BY <1>5
<1>7. F = [i \in 0..Len(d) |-> IF i = 0 THEN 0 ELSE 10 * F[i - 1] + d[i]]
    BY <1>6
<1>8. Decimal(d) = F[Len(d)]
    BY DEF Decimal
<1> HIDE DEF F
<1>9. F[0] = 0
    BY <1>1, <1>7
<1>10. ASSUME NEW i \in 1..Len(d) PROVE F[i] = 10 * F[i - 1] + d[i]
    <2>1. i \in 0..Len(d) /\ i # 0
        BY <1>1
    <2> QED BY <1>7, <2>1
<1> QED BY <1>8, <1>9, <1>10

\* ... up to four.
LEMMA DecimalIs ==
    ASSUME NEW d \in Seq(Nat)
    PROVE  /\ Len(d) = 2 => Decimal(d) = 10 * d[1] + d[2]
           /\ Len(d) = 3 => Decimal(d) = 10 * (10 * d[1] + d[2]) + d[3]
           /\ Len(d) = 4 => Decimal(d) = 10 * (10 * (10 * d[1] + d[2]) + d[3]) + d[4]
<1>1. PICK f : /\ Decimal(d) = f[Len(d)] /\ f[0] = 0
               /\ \A i \in 1..Len(d) : f[i] = 10 * f[i - 1] + d[i]
    BY DecimalSteps
<1>2. Len(d) >= 1 => f[1] = d[1]
    <2>1. SUFFICES ASSUME Len(d) >= 1 PROVE f[1] = d[1]
        OBVIOUS
    <2>2. 1 \in 1..Len(d) /\ d[1] \in Nat
        BY <2>1
    <2>3. f[1] = 10 * f[1 - 1] + d[1]
        BY <1>1, <2>2
    <2>4. f[1 - 1] = 0
        BY <1>1
    <2> QED BY <2>2, <2>3, <2>4
<1>3. Len(d) >= 2 => f[2] = 10 * d[1] + d[2]
    <2>1. SUFFICES ASSUME Len(d) >= 2 PROVE f[2] = 10 * d[1] + d[2]
        OBVIOUS
    <2>2. 2 \in 1..Len(d) /\ Len(d) >= 1
        BY <2>1
    <2>3. f[2] = 10 * f[2 - 1] + d[2]
        BY <1>1, <2>2
    <2>4. f[2 - 1] = d[1]
        BY <1>2, <2>2
    <2> QED BY <2>3, <2>4
<1>4. Len(d) >= 3 => f[3] = 10 * (10 * d[1] + d[2]) + d[3]
    <2>1. SUFFICES ASSUME Len(d) >= 3 PROVE f[3] = 10 * (10 * d[1] + d[2]) + d[3]
        OBVIOUS
    <2>2. 3 \in 1..Len(d) /\ Len(d) >= 2
        BY <2>1
    <2>3. f[3] = 10 * f[3 - 1] + d[3]
        BY <1>1, <2>2
    <2>4. f[3 - 1] = 10 * d[1] + d[2]
        BY <1>3, <2>2
    <2> QED BY <2>3, <2>4
<1>5. Len(d) >= 4 => f[4] = 10 * (10 * (10 * d[1] + d[2]) + d[3]) + d[4]
    <2>1. SUFFICES ASSUME Len(d) >= 4 PROVE f[4] = 10 * (10 * (10 * d[1] + d[2]) + d[3]) + d[4]
        OBVIOUS
    <2>2. 4 \in 1..Len(d) /\ Len(d) >= 3
        BY <2>1
    <2>3. f[4] = 10 * f[4 - 1] + d[4]
        BY <1>1, <2>2
    <2>4. f[4 - 1] = 10 * (10 * d[1] + d[2]) + d[3]
        BY <1>4, <2>2
    <2> QED BY <2>3, <2>4
<1>6. ASSUME Len(d) = 2 PROVE Decimal(d) = 10 * d[1] + d[2]
    <2>1. Decimal(d) = f[2] /\ Len(d) >= 2
        BY <1>1, <1>6
    <2> QED BY ONLY <2>1, <1>3, Zenon
<1>7. ASSUME Len(d) = 3 PROVE Decimal(d) = 10 * (10 * d[1] + d[2]) + d[3]
    <2>1. Decimal(d) = f[3] /\ Len(d) >= 3
        BY <1>1, <1>7
    <2> QED BY ONLY <2>1, <1>4, Zenon
<1>8. ASSUME Len(d) = 4 PROVE Decimal(d) = 10 * (10 * (10 * d[1] + d[2]) + d[3]) + d[4]
    <2>1. Decimal(d) = f[4] /\ Len(d) >= 4
        BY <1>1, <1>8
    <2> QED BY ONLY <2>1, <1>5, Zenon
<1> QED BY <1>6, <1>7, <1>8, Zenon

\* Digits are read back.
LEMMA DigitSums ==
    ASSUME NEW n \in Nat
    PROVE  /\ n < 100 => 10 * ((n \div 10) % 10) + ((n \div 1) % 10) = n
           /\ n < 1000 => 10 * (10 * ((n \div 100) % 10) + ((n \div 10) % 10)) + ((n \div 1) % 10) = n
           /\ n < 10000 => 10 * (10 * (10 * ((n \div 1000) % 10) + ((n \div 100) % 10))
                                  + ((n \div 10) % 10)) + ((n \div 1) % 10) = n
BY SMT

\* Digits are read as the number they stand for.
LEMMA DigitsAre ==
    ASSUME NEW n \in Nat, NEW w \in 2..4
    PROVE  /\ DecimalDigits(n, w) \in Seq(Nat) /\ Len(DecimalDigits(n, w)) = w
           /\ w = 2 /\ n < 100 => Decimal(DecimalDigits(n, w)) = n
           /\ w = 3 /\ n < 1000 => Decimal(DecimalDigits(n, w)) = n
           /\ w = 4 /\ n < 10000 => Decimal(DecimalDigits(n, w)) = n
<1> DEFINE q == <<1, 10, 100, 1000>>
           d == DecimalDigits(n, w)
<1>1. q[1] = 1 /\ q[2] = 10 /\ q[3] = 100 /\ q[4] = 1000
    OBVIOUS
<1>2. d = [k \in 1..w |-> (n \div q[w - k + 1]) % 10]
    BY DEF DecimalDigits
<1> HIDE DEF q, d
<1>3. ASSUME NEW k \in 1..w PROVE (n \div q[w - k + 1]) % 10 \in Nat
    <2>1. w - k + 1 \in 1..4
        OBVIOUS
    <2>2. q[w - k + 1] \in {1, 10, 100, 1000}
        BY <1>1, <2>1
    <2>3. \A x \in {1, 10, 100, 1000} : (n \div x) % 10 \in Nat
        BY SMT
    <2> QED BY <2>2, <2>3, SMT
<1>4. d \in [1..w -> Nat] /\ w \in Nat
    BY <1>2, <1>3
<1>5. d \in Seq(Nat) /\ Len(d) = w
    BY <1>4, FunctionIsSeq, Zenon
<1>6. /\ w = 2 => d[1] = (n \div 10) % 10 /\ d[2] = (n \div 1) % 10
      /\ w = 3 => d[1] = (n \div 100) % 10 /\ d[2] = (n \div 10) % 10 /\ d[3] = (n \div 1) % 10
      /\ w = 4 => /\ d[1] = (n \div 1000) % 10 /\ d[2] = (n \div 100) % 10
                  /\ d[3] = (n \div 10) % 10 /\ d[4] = (n \div 1) % 10
    <2>1. ASSUME NEW k \in 1..w PROVE d[k] = (n \div q[w - k + 1]) % 10
        BY <1>2
    <2>2. CASE w = 2
        <3>1. d[1] = (n \div q[2]) % 10 /\ d[2] = (n \div q[1]) % 10
            BY <2>1, <2>2
        <3> QED BY <1>1, <2>2, <3>1
    <2>3. CASE w = 3
        <3>1. d[1] = (n \div q[3]) % 10 /\ d[2] = (n \div q[2]) % 10 /\ d[3] = (n \div q[1]) % 10
            BY <2>1, <2>3
        <3> QED BY <1>1, <2>3, <3>1
    <2>4. CASE w = 4
        <3>1. /\ d[1] = (n \div q[4]) % 10 /\ d[2] = (n \div q[3]) % 10
              /\ d[3] = (n \div q[2]) % 10 /\ d[4] = (n \div q[1]) % 10
            BY <2>1, <2>4
        <3> QED BY <1>1, <2>4, <3>1
    <2> QED BY <2>2, <2>3, <2>4
<1>7. /\ w = 2 => Decimal(d) = 10 * d[1] + d[2]
      /\ w = 3 => Decimal(d) = 10 * (10 * d[1] + d[2]) + d[3]
      /\ w = 4 => Decimal(d) = 10 * (10 * (10 * d[1] + d[2]) + d[3]) + d[4]
    BY <1>5, DecimalIs, Zenon
<1> DEFINE a == (n \div 1000) % 10
           b == (n \div 100) % 10
           c == (n \div 10) % 10
           e == (n \div 1) % 10
<1>8. /\ n < 100 => 10 * c + e = n
      /\ n < 1000 => 10 * (10 * b + c) + e = n
      /\ n < 10000 => 10 * (10 * (10 * a + b) + c) + e = n
    BY DigitSums, SMT
<1>9. /\ w = 2 => Decimal(d) = 10 * c + e
      /\ w = 3 => Decimal(d) = 10 * (10 * b + c) + e
      /\ w = 4 => Decimal(d) = 10 * (10 * (10 * a + b) + c) + e
    BY <1>6, <1>7, SMT
<1> HIDE DEF a, b, c, e
<1>10. /\ w = 2 /\ n < 100 => Decimal(d) = n
       /\ w = 3 /\ n < 1000 => Decimal(d) = n
       /\ w = 4 /\ n < 10000 => Decimal(d) = n
    BY <1>8, <1>9, SMT
<1> QED BY <1>5, <1>10, SMT DEF d

\* Degrees and minutes are told apart by their places.
LEMMA HeadAndTail ==
    ASSUME NEW x \in Seq(Nat), NEW y \in Seq(Nat)
    PROVE  /\ x \o y \in Seq(Nat) /\ Len(x \o y) = Len(x) + Len(y)
           /\ SubSeq(x \o y, 1, Len(x)) = x
           /\ SubSeq(x \o y, Len(x) + 1, Len(x) + Len(y)) = y
<1> DEFINE m == Len(x)
           n == Len(y)
           s == x \o y
<1>1. m \in Nat /\ n \in Nat
    OBVIOUS
<1>2. s \in Seq(Nat) /\ Len(s) = m + n
    OBVIOUS
<1>3. /\ \A i \in 1..m : s[i] = x[i]
      /\ \A i \in 1..n : s[m + i] = y[i]
    OBVIOUS
<1>4. x = [i \in 1..m |-> x[i]] /\ y = [i \in 1..n |-> y[i]]
    OBVIOUS
<1> HIDE DEF s, m, n
<1>5. SubSeq(s, 1, m) = [i \in 1..m |-> s[i]]
    <2>1. SubSeq(s, 1, m) = [i \in 1..(m - 1 + 1) |-> s[i + 1 - 1]]
        BY <1>1, <1>2
    <2>2. m - 1 + 1 = m /\ \A i \in 1..m : i + 1 - 1 = i
        BY <1>1
    <2> QED BY <2>1, <2>2
<1>6. SubSeq(s, m + 1, m + n) = [i \in 1..n |-> s[m + i]]
    <2>1. SubSeq(s, m + 1, m + n) = [i \in 1..((m + n) - (m + 1) + 1) |-> s[i + (m + 1) - 1]]
        BY <1>1, <1>2
    <2>2. (m + n) - (m + 1) + 1 = n /\ \A i \in 1..n : i + (m + 1) - 1 = m + i
        BY <1>1
    <2> QED BY <2>1, <2>2
<1>7. SubSeq(s, 1, m) = x
    <2>1. [i \in 1..m |-> s[i]] = [i \in 1..m |-> x[i]]
        BY <1>3
    <2> QED BY ONLY <1>4, <1>5, <2>1
<1>8. SubSeq(s, m + 1, m + n) = y
    <2>1. [i \in 1..n |-> s[m + i]] = [i \in 1..n |-> y[i]]
        BY <1>3
    <2> QED BY ONLY <1>4, <1>6, <2>1
<1> QED BY <1>2, <1>7, <1>8 DEF s, m, n

\* Degrees, minutes and parts of a minute.
LEMMA CoordinateParts ==
    ASSUME NEW p \in Int
    PROVE  /\ Degrees(p) \in Nat /\ Minutes(p) \in 0..59 /\ Fraction(p) \in Nat /\ Fraction(p) < 10^4
           /\ (60 * Degrees(p) + Minutes(p)) * 10^4 + Fraction(p) = Abs(p)
<1>1. ASSUME NEW a \in Nat
      PROVE  /\ a \div 600000 \in Nat /\ (a \div 10000) % 60 \in 0..59
             /\ a % 10000 \in Nat /\ a % 10000 < 10000
             /\ (60 * (a \div 600000) + ((a \div 10000) % 60)) * 10000 + (a % 10000) = a
    BY SMT
<1>2. Abs(p) \in Nat /\ 10^4 = 10000
    BY SMT DEF Abs
<1> QED BY <1>1, <1>2, SMT DEF Degrees, Minutes, Fraction

\* A coordinate: x and y are the digits of degrees and minutes, z those behind the point.
LEMMA NmeaIs ==
    ASSUME NEW x \in Seq(Nat), Len(x) \in {2, 3}, NEW y \in Seq(Nat), Len(y) = 2,
           NEW c, c.head = x \o y
    PROVE  LET v == (60 * Decimal(x) + Decimal(y)) * 10^Len(c.fraction) + Decimal(c.fraction)
           IN  _nmea_to_degrees(c) = IF Decimal(y) >= 60 THEN None
                                     ELSE IF Negative(c.hemisphere) THEN -v ELSE v
<1> DEFINE n == Len(c.head)
           w == Len(x)
<1>1. n = w + 2 /\ SubSeq(c.head, 1, w) = x /\ SubSeq(c.head, w + 1, w + 2) = y
    <2> DEFINE s == x \o y
    <2>1. c.head = s
        OBVIOUS
    <2>2. Len(s) = Len(x) + Len(y) /\ SubSeq(s, 1, Len(x)) = x /\ SubSeq(s, Len(x) + 1, Len(x) + Len(y)) = y
        BY HeadAndTail, Zenon
    <2> HIDE DEF s
    <2> QED BY <2>1, <2>2
<1>2. w \in {2, 3}
    OBVIOUS
<1> HIDE DEF n, w
<1>3. n - 2 = w /\ n - 1 = w + 1 /\ ~(n < 3)
    BY <1>1, <1>2
<1>4. SubSeq(c.head, 1, n - 2) = x /\ SubSeq(c.head, n - 1, n) = y
    BY ONLY <1>1, <1>3, Zenon
<1> DEFINE v == (60 * Decimal(x) + Decimal(y)) * 10^Len(c.fraction) + Decimal(c.fraction)
<1>5. _nmea_to_degrees(c) = IF n < 3 \/ Decimal(y) >= 60 THEN None
                            ELSE IF Negative(c.hemisphere) THEN -v ELSE v
    BY <1>4, Zenon DEF _nmea_to_degrees, n
<1> HIDE DEF v
<1>6. _nmea_to_degrees(c) = IF Decimal(y) >= 60 THEN None
                            ELSE IF Negative(c.hemisphere) THEN -v ELSE v
    BY ONLY <1>3, <1>5, Zenon
<1> QED BY <1>6, Zenon DEF v

\* Digits of degrees, minutes and parts of a minute.
LEMMA PartsAreRead ==
    ASSUME NEW n \in Nat
    PROVE  /\ DecimalDigits(n, 2) \in Seq(Nat) /\ Len(DecimalDigits(n, 2)) = 2
           /\ DecimalDigits(n, 3) \in Seq(Nat) /\ Len(DecimalDigits(n, 3)) = 3
           /\ DecimalDigits(n, 4) \in Seq(Nat) /\ Len(DecimalDigits(n, 4)) = 4
           /\ n < 10^2 => Decimal(DecimalDigits(n, 2)) = n
           /\ n < 10^3 => Decimal(DecimalDigits(n, 3)) = n
           /\ n < 10^4 => Decimal(DecimalDigits(n, 4)) = n
<1>1. 10^2 = 100 /\ 10^3 = 1000 /\ 10^4 = 10000 /\ 2 \in 2..4 /\ 3 \in 2..4 /\ 4 \in 2..4
    BY SMT
<1> QED BY <1>1, DigitsAre, SMT

\* A position as a report gives it, with an excess of minutes.
LEMMA NmeaFieldIs ==
    ASSUME NEW w \in {2, 3}, NEW p \in Coordinates(w),
           NEW letters, Negative(letters[2]), ~Negative(letters[1]), NEW excess,
           excess = 0 \/ Minutes(p) + excess \in 60..99
    PROVE  _nmea_to_degrees(NmeaField(p, w, letters, excess)) = IF excess = 0 THEN p ELSE None
<1> DEFINE a == Abs(p)
           d == Degrees(p)
           m == Minutes(p)
           k == m + excess
           f == Fraction(p)
           x == DecimalDigits(d, w)
           y == DecimalDigits(k, 2)
           z == DecimalDigits(f, 4)
           c == NmeaField(p, w, letters, excess)
<1>1. c = [head |-> x \o y, fraction |-> z, hemisphere |-> letters[IF p < 0 THEN 2 ELSE 1]]
    BY Zenon DEF NmeaField
<1>2. c.head = x \o y /\ c.fraction = z /\ c.hemisphere = letters[IF p < 0 THEN 2 ELSE 1]
    <2> HIDE DEF x, y, z, c
    <2> QED BY <1>1
<1>3. p \in Int /\ d < 10^w
    BY DEF Coordinates
<1>4. d \in Nat /\ m \in 0..59 /\ f \in Nat /\ f < 10^4 /\ (60 * d + m) * 10^4 + f = a
    BY <1>3, CoordinateParts, Zenon
<1>5. excess = 0 \/ m + excess \in 60..99
    OBVIOUS
<1>6. (p < 0 => -a = p) /\ (~(p < 0) => a = p)
    BY <1>3 DEF Abs
<1> HIDE DEF a, d, m, f
<1>7. k \in Nat /\ k < 10^2 /\ (k >= 60 <=> excess # 0) /\ (excess = 0 => k = m)
    <2>1. 10^2 = 100
        OBVIOUS
    <2>2. CASE excess = 0
        BY <1>4, <2>1, <2>2
    <2>3. CASE excess # 0
        <3>1. k \in 60..99
            BY <1>5, <2>3
        <3> HIDE DEF k
        <3> QED BY <2>1, <2>3, <3>1
    <2> QED BY <2>2, <2>3
<1> HIDE DEF k
<1>8. x \in Seq(Nat) /\ Len(x) = w /\ Decimal(x) = d
    <2>1. CASE w = 2
        BY <1>3, <1>4, <2>1, PartsAreRead, Zenon
    <2>2. CASE w = 3
        BY <1>3, <1>4, <2>2, PartsAreRead, Zenon
    <2> QED BY <2>1, <2>2
<1>9. y \in Seq(Nat) /\ Len(y) = 2 /\ Decimal(y) = k
    BY <1>7, PartsAreRead, Zenon
<1>10. Len(z) = 4 /\ Decimal(z) = f
    BY <1>4, PartsAreRead, Zenon
<1> HIDE DEF x, y, z, c
<1> DEFINE u == (60 * Decimal(x) + Decimal(y)) * 10^Len(c.fraction) + Decimal(c.fraction)
<1>11. _nmea_to_degrees(c) = IF Decimal(y) >= 60 THEN None
                             ELSE IF Negative(c.hemisphere) THEN -u ELSE u
    <2>1. Len(x) \in {2, 3}
        BY <1>8, Zenon
    <2> QED BY <1>2, <1>8, <1>9, <2>1, NmeaIs, Zenon
<1>12. u = (60 * d + k) * 10^4 + f
    BY <1>2, <1>8, <1>9, <1>10, Zenon
<1> HIDE DEF u
<1>13. CASE excess = 0
    <2>1. u = a /\ ~(Decimal(y) >= 60)
        BY <1>4, <1>7, <1>9, <1>12, <1>13, Zenon
    <2>2. Negative(c.hemisphere) <=> p < 0
        BY <1>2, Zenon
    <2> QED BY <1>6, <1>11, <1>13, <2>1, <2>2, Zenon DEF c
<1>14. CASE excess # 0
    <2>1. Decimal(y) >= 60
        BY <1>7, <1>9, <1>14, Zenon
    <2> QED BY <1>11, <1>14, <2>1, Zenon DEF c
<1> QED BY <1>13, <1>14, Zenon

(***************************************************************************)
(* For every position and instant, and every time zone from -12:00 to       *)
(* +14:00: the GPS103 parser gives back the position, signs included, and   *)
(* the UTC instant, which east of +12:00 is a day late and at -12:00 a day  *)
(* early; it refuses minutes of 60 and more (Gps103IsRead).                 *)
(***************************************************************************)
THEOREM Gps103RoundTrip == DecodingSpec => []Gps103IsRead
<1>1. ASSUME NEW m, Gps103Fits(m)
      PROVE  Gps103Parse(Gps103Wire(m)) = IF m.excess # 0 THEN Refused
                                          ELSE [m.data EXCEPT !.time = @ + DayOff(m.offset)]
    <2> DEFINE t == m.data.time
               u == m.data.time + DayOff(m.offset)
               lat == m.data.latitude
               lon == m.data.longitude
               b == Gps103Wire(m)
    <2>1. /\ t \in Nat /\ lat \in Coordinates(2) /\ lon \in Coordinates(3)
          /\ m.data = [time |-> t, latitude |-> lat, longitude |-> lon]
          /\ m.offset \in -720..840
          /\ m.excess = 0 \/ Minutes(lat) + m.excess \in 60..99
        BY <1>1 DEF Gps103Fits
    <2>2. /\ b.local = t + m.offset /\ b.utc = TimeOfDay(t)
          /\ b.latitude = NmeaField(lat, 2, <<"N", "S">>, m.excess)
          /\ b.longitude = NmeaField(lon, 3, <<"E", "W">>, 0)
        BY DEF Gps103Wire
    <2>11. [m.data EXCEPT !.time = @ + DayOff(m.offset)] = [time |-> u, latitude |-> lat, longitude |-> lon]
        <3> DEFINE x == [time |-> t, latitude |-> lat, longitude |-> lon]
        <3>1. [x EXCEPT !.time = @ + DayOff(m.offset)]
                = [time |-> t + DayOff(m.offset), latitude |-> lat, longitude |-> lon]
            <4> HIDE DEF t, lat, lon
            <4> QED OBVIOUS
        <3>2. m.data = x
            BY <2>1
        <3> HIDE DEF x
        <3> QED BY <3>1, <3>2
    <2>12. u = t + DayOff(m.offset)
        OBVIOUS
    <2> HIDE DEF t, u, lat, lon, b
    <2>3. resolve_utc_timestamp(b.local, b.utc) = u
        <3> DEFINE o == m.offset
        <3>1. t \in Int /\ o \in Int /\ -Day <= o /\ o <= Day
            BY <2>1, SMTT(40) DEF Day
        <3> HIDE DEF o
        <3>2. resolve_utc_timestamp(t + o, TimeOfDay(t)) = t + DayOff(o)
            BY <3>1, ResolvesToUtc
        <3> QED BY <2>2, <2>12, <3>2 DEF o
    <2> DEFINE ns == <<"N", "S">>
               ew == <<"E", "W">>
    <2>4. Negative(ns[2]) /\ ~Negative(ns[1]) /\ Negative(ew[2]) /\ ~Negative(ew[1])
        BY DEF Negative
    <2>5. 2 \in {2, 3} /\ 3 \in {2, 3} /\ 0 = 0
        OBVIOUS
    <2>6. lat \in Int /\ lon \in Int
        BY <2>1 DEF Coordinates
    <2> HIDE DEF ns, ew
    <2>7. _nmea_to_degrees(b.latitude) = IF m.excess = 0 THEN lat ELSE None
        <3>1. _nmea_to_degrees(NmeaField(lat, 2, ns, m.excess)) = IF m.excess = 0 THEN lat ELSE None
            BY <2>1, <2>4, <2>5, NmeaFieldIs
        <3> QED BY <2>2, <3>1 DEF ns
    <2>8. _nmea_to_degrees(b.longitude) = lon
        <3>1. _nmea_to_degrees(NmeaField(lon, 3, ew, 0)) = IF 0 = 0 THEN lon ELSE None
            BY <2>1, <2>4, <2>5, NmeaFieldIs
        <3> QED BY <2>2, <3>1 DEF ew
    <2>9. CASE m.excess = 0
        <3>1. None \notin {lat, lon}
            BY <2>6, NumbersAssumption
        <3>2. Gps103Parse(b) = [time |-> u, latitude |-> lat, longitude |-> lon]
            BY <2>3, <2>7, <2>8, <2>9, <3>1, Zenon DEF Gps103Parse
        <3> QED BY <2>9, <2>11, <3>2, ZenonT(60) DEF b
    <2>10. CASE m.excess # 0
        BY <2>7, <2>10, Zenon DEF Gps103Parse, b
    <2> QED BY <2>9, <2>10
<1>2. ASSUME DecodingInv PROVE Gps103IsRead
    <2> SUFFICES ASSUME Arrived("GPS103")
                 PROVE  got = IF msg.excess # 0 THEN Refused
                              ELSE [msg.data EXCEPT !.time = @ + DayOff(msg.offset)]
        BY DEF Gps103IsRead
    <2>1. got # None /\ damaged = 0 /\ msg.family = "GPS103"
        BY DEF Arrived
    <2>2. msg \in Samples /\ wire = Wire(msg) /\ got = Gps103Parse(wire)
        BY <1>2, <2>1 DEF DecodingInv, MessageInv, WireInv, HeardInv
    <2>3. Gps103Fits(msg)
        BY <2>1, <2>2, SamplesAssumption DEF Fitting
    <2>4. wire = Gps103Wire(msg)
        BY <2>1, <2>2 DEF Wire
    <2> QED BY <1>1, <2>2, <2>3, <2>4
<1> QED BY <1>2, DecodingInvariant, PTL
-----------------------------------------------------------------------------
(***************************************************************************)
(* What the Teltonika parser reads, from the values to the packet.          *)
(***************************************************************************)

\* A field in front of the rest of the data.
LEMMA InFront ==
    ASSUME NEW e, NEW w \in Nat, IsString(e, w), NEW t \in ByteStrings
    PROVE  /\ e \o t \in ByteStrings /\ Len(e \o t) = w + Len(t) /\ Len(t) \in Nat
           /\ Keeps(e, e \o t) /\ Drop(e \o t, w) = t /\ ~(Len(e \o t) < w)
<1>1. e \in ByteStrings /\ Len(e) = w /\ Len(t) \in Nat
    BY DEF IsString, ByteStrings
<1>2. /\ e \o t \in ByteStrings /\ Len(e \o t) = w + Len(t) /\ At(e \o t, w, t)
      /\ \A i, g : At(e, i, g) => At(e \o t, i, g)
    BY <1>1, AppendField, Zenon
<1> DEFINE b == e \o t
<1> HIDE DEF b
<1>3. Drop(b, w) = t
    BY <1>2, DropIs DEF b
<1>4. ~(Len(b) < w)
    BY <1>1, <1>2 DEF b
<1> QED BY <1>1, <1>2, <1>3, <1>4, Zenon DEF b, Keeps

\* Unsigned values.
LEMMA PaddedIsRead ==
    ASSUME NEW w \in Nat, NEW v \in Numerals(w)
    PROVE  Numeral(Padded(v, w)) = v
<1> DEFINE z == w - Len(v)
           b == Padded(v, w)
<1>1. v \in ByteStrings /\ Len(v) \in Nat /\ Len(v) <= w /\ (v # <<>> => v[1] # 0)
    BY DEF Numerals, ByteStrings
<1>2. z \in Nat /\ z + Len(v) = w
    BY <1>1
<1>3. b = Zeros(z) \o v
    BY DEF Padded
<1>4. b \in ByteStrings /\ Len(b) = w
    BY PaddedTyped
<1> HIDE DEF z, b
<1>5. Zeros(z) \in ByteStrings /\ Len(Zeros(z)) = z /\ \A k \in 1..z : Zeros(z)[k] = 0
    BY <1>2, ZerosTyped
<1>6. (\A i \in 1..z : b[i] = 0) /\ \A i \in 1..Len(v) : b[z + i] = v[i]
    <2> DEFINE s == Zeros(z)
    <2>1. s \in ByteStrings /\ Len(s) = z /\ \A k \in 1..z : s[k] = 0
        BY <1>5
    <2>2. b = s \o v
        BY <1>3
    <2> HIDE DEF s
    <2>3. At(b, z, v) /\ \A i, g : At(s, i, g) => At(b, i, g)
        BY <1>1, <2>1, <2>2, AppendField, Zenon
    <2>4. At(b, 0, s)
        BY <2>1, <2>3, AtWhole, Zenon
    <2>5. ASSUME NEW i \in 1..z PROVE b[i] = 0
        <3>1. b[0 + i] = s[i]
            BY <2>1, <2>4, AtByte
        <3> QED BY <1>2, <2>1, <3>1
    <2>6. ASSUME NEW i \in 1..Len(v) PROVE b[z + i] = v[i]
        BY <2>3, AtByte
    <2> QED BY <2>5, <2>6
<1>7. v \in Seq(Nat) /\ b \in Seq(Nat)
    <2>1. 0..255 \subseteq Nat
        OBVIOUS
    <2> QED BY <1>1, <1>4, <2>1, SeqMonotonic, Zenon DEF ByteStrings
<1>8. Len(b) = z + Len(v)
    BY <1>2, <1>4
<1>9. Numeral(b) = v
    BY ONLY <1>1, <1>2, <1>6, <1>7, <1>8, NumeralIs
<1> QED BY <1>9 DEF b

\* Values with a sign: the top bit of a number that is not negative is 0.
TopNumbers(w) == IF w = 2 THEN Below(32768) ELSE {n \in Nat : n <= MaxInt}

\* The bytes of a number without a sign.
LEMMA TopBit ==
    ASSUME NEW w \in {2, 4}, NEW n \in TopNumbers(w)
    PROVE  /\ n \in Nat /\ IsString(Bytes(n, w), w) /\ Bytes(n, w)[1] \in 0..127
           /\ BigEndian(Bytes(n, w)) = n
<1>1. CASE w = 2
    <2>1. n \in Nat /\ n < 32768
        BY <1>1, BelowIs, SMT DEF TopNumbers
    <2>2. n \in Halfwords
        BY <2>1, BelowIf, SMT DEF Halfwords
    <2>3. IsString(Bytes(n, 2), 2) /\ BigEndian(Bytes(n, 2)) = n /\ n \in Nat
        BY <2>2, HalfwordIs, Zenon DEF IsString
    <2>4. Bytes(n, 2)[1] = (n \div PowersOf256[2]) % 256
        BY SMT DEF Bytes
    <2>5. (n \div 256) % 256 \in 0..127 /\ PowersOf256[2] = 256
        BY <2>1, SMT DEF PowersOf256
    <2>6. Bytes(n, 2)[1] \in 0..127
        BY <2>4, <2>5
    <2> QED BY <1>1, <2>3, <2>6
<1>2. CASE w = 4
    <2>1. n \in Nat /\ n <= MaxInt
        BY <1>2, SMT DEF TopNumbers
    <2>2. IsString(Bytes(n, 4), 4) /\ BigEndian(Bytes(n, 4)) = n
        BY <2>1, WordIsRead, Zenon DEF IsString
    <2>3. Bytes(n, 4)[1] = (n \div PowersOf256[4]) % 256
        BY SMT DEF Bytes
    <2>4. (n \div 16777216) % 256 \in 0..127 /\ PowersOf256[4] = 16777216
        BY <2>1, SMT DEF PowersOf256, MaxInt
    <2>5. Bytes(n, 4)[1] \in 0..127
        BY <2>3, <2>4, SMT
    <2> QED BY <1>2, <2>1, <2>2, <2>5, SMT
<1> QED BY <1>1, <1>2

\* Numbers of either sign are read as they were written.
LEMMA SignedIsRead ==
    ASSUME NEW w \in {2, 4}, NEW n \in Int, n >= 0 => n \in TopNumbers(w), n < 0 => -1 - n \in TopNumbers(w)
    PROVE  Signed(TwosComplement(n, w)) = n
<1>1. CASE n >= 0
    <2> DEFINE b == Bytes(n, w)
    <2>1. b[1] \in 0..127 /\ BigEndian(b) = n
        BY <1>1, TopBit
    <2>2. TwosComplement(n, w) = b
        BY <1>1 DEF TwosComplement
    <2> HIDE DEF b
    <2>3. ~(b[1] > 127)
        BY <2>1
    <2> QED BY <2>1, <2>2, <2>3 DEF Signed
<1>2. CASE n < 0
    <2> DEFINE m == -1 - n
               b == Bytes(m, w)
               c == [k \in 1..w |-> 255 - b[k]]
    <2>1. m \in TopNumbers(w)
        BY <1>2
    <2>2. TwosComplement(n, w) = c
        BY <1>2 DEF TwosComplement
    <2>3. m \in Nat /\ n = -1 - m
        BY <1>2
    <2> HIDE DEF m
    <2>4. IsString(b, w) /\ b[1] \in 0..127 /\ BigEndian(b) = m
        BY <2>1, TopBit
    <2> HIDE DEF b
    <2>5. b \in [1..w -> 0..255] /\ Len(b) = w
        <3>1. b \in Seq(0..255) /\ Len(b) = w
            BY <2>4 DEF IsString, ByteStrings
        <3>2. b \in [1..Len(b) -> 0..255]
            BY <3>1, LenProperties, ZenonT(60)
        <3> QED BY <3>1, <3>2, Zenon
    <2>6. Len(c) = w
        OBVIOUS
    <2>7. c[1] > 127
        <3>1. c[1] = 255 - b[1]
            OBVIOUS
        <3>2. ASSUME NEW x \in 0..127 PROVE 255 - x > 127
            OBVIOUS
        <3> QED BY <2>4, <3>1, <3>2, ZenonT(60)
    <2>8. [k \in 1..w |-> 255 - c[k]] = b
        <3>1. ASSUME NEW k \in 1..w PROVE 255 - c[k] = b[k]
            <4>1. c[k] = 255 - b[k]
                OBVIOUS
            <4>2. b[k] \in 0..255
                BY <2>5
            <4> QED BY <4>1, <4>2
        <3> QED BY <2>5, <3>1
    <2> HIDE DEF c
    <2>9. Signed(c) = -1 - BigEndian(b)
        BY <2>6, <2>7, <2>8 DEF Signed
    <2> QED BY <2>2, <2>3, <2>4, <2>9
<1> QED BY <1>1, <1>2

\* So are coordinates and altitudes.
LEMMA SignedFits ==
    /\ \A n \in Signed32 : n \in Int /\ Signed(TwosComplement(n, 4)) = n
    /\ \A n \in Signed16 : n \in Int /\ Signed(TwosComplement(n, 2)) = n
<1>1. ASSUME NEW n \in Signed32 PROVE n \in Int /\ Signed(TwosComplement(n, 4)) = n
    <2>1. n \in Int /\ Abs(n) <= MaxInt
        BY DEF Signed32
    <2>2. n >= 0 => n \in TopNumbers(4)
        BY <2>1, SMT DEF TopNumbers, MaxInt, Abs
    <2>3. n < 0 => -1 - n \in TopNumbers(4)
        BY <2>1, SMT DEF TopNumbers, MaxInt, Abs
    <2> QED BY <2>1, <2>2, <2>3, SignedIsRead
<1>2. ASSUME NEW n \in Signed16 PROVE n \in Int /\ Signed(TwosComplement(n, 2)) = n
    <2>1. n \in Int /\ -32768 <= n /\ n < 32768
        BY SMT DEF Signed16
    <2>2. n >= 0 => n \in TopNumbers(2)
        BY <2>1, BelowIf, SMT DEF TopNumbers
    <2>3. n < 0 => -1 - n \in TopNumbers(2)
        <3> SUFFICES ASSUME n < 0 PROVE -1 - n \in TopNumbers(2)
            OBVIOUS
        <3>1. -1 - n \in Nat /\ -1 - n < 32768
            BY <2>1, SMT
        <3>2. ASSUME NEW k \in Nat, k < 32768 PROVE k \in TopNumbers(2)
            BY <3>2, BelowIf, SMT DEF TopNumbers
        <3> QED BY <3>1, <3>2, SMT
    <2>4. n \in Int
        BY <2>1, SMT
    <2> QED BY <2>2, <2>3, <2>4, SignedIsRead
<1> QED BY <1>1, <1>2

\* Two loops that start alike and take the same steps end alike.
LEMMA SameLoop ==
    ASSUME NEW n \in Nat, NEW f, NEW g, f[0] = g[0],
           \A i \in 1..n : f[i - 1] = g[i - 1] => f[i] = g[i]
    PROVE  f[n] = g[n]
<1> DEFINE T == {i \in 0..n : f[i] = g[i]}
<1>1. 0 \in T
    OBVIOUS
<1>2. ASSUME NEW i \in 1..n, i - 1 \in T PROVE i \in T
    <2>1. i \in 0..n
        OBVIOUS
    <2> QED BY <1>2, <2>1
<1> HIDE DEF T
<1>3. \A i \in 0..n : i \in T
    BY <1>1, <1>2, Upwards
<1>4. n \in T
    BY <1>3
<1> QED BY <1>4 DEF T

\* The elements of io with identifiers in D.
Part(io, D) == [id \in D |-> io[id]]

\* One more element.
LEMMA PutPart ==
    ASSUME NEW io, NEW D, NEW id
    PROVE  Put(Part(io, D), id, io[id]) = Part(io, D \cup {id})
BY DEF Put, Part

\* An element with a value of w bytes.
IsElement(id, io, idLen, w) ==
    /\ idLen \in {1, 2} /\ w \in {1, 2, 4, 8} /\ id \in Ids(idLen)
    /\ io[id] \in [int : {TRUE}, value : Numerals(w)]

\* One element.
LEMMA ElementIsRead ==
    ASSUME NEW idLen, NEW w, NEW id, NEW io, IsElement(id, io, idLen, w), NEW D, NEW t \in ByteStrings
    PROVE  Element(Parsed(Part(io, D), ElementBytes(id, io[id].value, idLen, w) \o t), idLen, w)
              = Parsed(Part(io, D \cup {id}), t)
<1> DEFINE v == io[id].value
           f1 == Bytes(id, idLen)
           f2 == Padded(v, w)
           e == ElementBytes(id, v, idLen, w)
           b == e \o t
           p == Parsed(Part(io, D), b)
<1>1. io[id] = [int |-> TRUE, value |-> v] /\ v \in Numerals(w) /\ w \in Nat /\ idLen \in Nat
    <2>1. ASSUME NEW S, NEW x \in [int : {TRUE}, value : S]
          PROVE  x = [int |-> TRUE, value |-> x.value] /\ x.value \in S
        BY <2>1
    <2>2. w \in Nat /\ idLen \in Nat
        BY DEF IsElement
    <2>3. io[id] \in [int : {TRUE}, value : Numerals(w)]
        BY DEF IsElement
    <2> QED BY <2>1, <2>2, <2>3, Zenon
<1>2. IsString(f1, idLen) /\ BigEndian(f1) = id
    BY IdIs DEF IsElement, IsString
<1>3. IsString(f2, w) /\ Numeral(f2) = v
    BY <1>1, PaddedTyped, PaddedIsRead, Zenon DEF IsString
<1>4. e = f1 \o f2
    BY DEF ElementBytes
<1>5. idLen + w \in Nat /\ 0 + idLen = idLen
    BY <1>1
<1> HIDE DEF v, f1, f2, e
<1>6. IsString(e, idLen + w) /\ At(e, idLen, f2) /\ At(e, 0, f1)
    <2>1. IsString(e, idLen + w) /\ At(e, idLen, f2) /\ Keeps(f1, e)
        BY <1>2, <1>3, <1>4, AppendAt, Zenon
    <2>2. At(f1, 0, f1)
        BY <1>2, AtWhole, Zenon DEF IsString
    <2> QED BY <2>1, <2>2, Zenon DEF Keeps
<1>7. Keeps(e, b) /\ Drop(b, idLen + w) = t /\ ~(Len(b) < idLen + w)
    BY <1>5, <1>6, InFront, Zenon
<1> HIDE DEF b
<1>8. At(b, idLen, f2) /\ At(b, 0, f1)
    BY <1>6, <1>7, Zenon DEF Keeps
<1>9. Slice(b, 0, idLen) = f1
    BY <1>2, <1>5, <1>8, FieldIs
<1>10. Slice(b, idLen, idLen + w) = f2
    BY <1>3, <1>8, FieldIs
<1>11. p.ok = TRUE /\ p.value = Part(io, D) /\ p.rest = b
    BY DEF Parsed
<1> HIDE DEF p
<1>12. Element(p, idLen, w) = Parsed(Put(Part(io, D), id, [int |-> TRUE, value |-> v]), t)
    <2> DEFINE n == idLen + w
    <2>1. ~(Len(b) < n) /\ Drop(b, n) = t /\ Slice(b, idLen, n) = f2 /\ n = idLen + w
        BY <1>7, <1>10
    <2> HIDE DEF n
    <2>2. BigEndian(Slice(b, 0, idLen)) = id /\ Numeral(Slice(b, idLen, n)) = v
        BY <1>2, <1>3, <1>9, <2>1
    <2>3. Element(p, idLen, w) = Parsed(Put(p.value, id, [int |-> TRUE, value |-> v]), t)
        BY <1>11, <2>1, <2>2 DEF Element
    <2> QED BY <1>11, <2>3
<1>13. Element(p, idLen, w) = Parsed(Part(io, D \cup {id}), t)
    <2>1. Put(Part(io, D), id, io[id]) = Part(io, D \cup {id})
        BY PutPart
    <2>2. Put(Part(io, D), id, [int |-> TRUE, value |-> v]) = Part(io, D \cup {id})
        BY <1>1, <2>1
    <2> QED BY <1>12, <2>2
<1> QED BY <1>13, Zenon DEF p, b, e, v

\* The steps of the loop over elements.
ReadsElements(g, p, n, idLen, w) ==
    n \in Nat /\ g[0] = p /\ \A i \in 1..n : g[i] = Element(g[i - 1], idLen, w)

\* The loop over elements computes the g[n] of every g that takes its steps.
LEMMA ElementsLoop ==
    ASSUME NEW n, NEW p, NEW idLen, NEW w, NEW g, ReadsElements(g, p, n, idLen, w)
    PROVE  Elements(p, n, idLen, w) = g[n]
<1> DEFINE Is(f) == f = [i \in 0..n |-> IF i = 0 THEN p ELSE Element(f[i - 1], idLen, w)]
           F == CHOOSE f : Is(f)
           h == [i \in 0..n |-> g[i]]
<1> USE DEF ReadsElements
<1>1. Elements(p, n, idLen, w) = F[n]
    BY DEF Elements
<1>2. Is(h)
    <2>1. ASSUME NEW i \in 0..n PROVE g[i] = IF i = 0 THEN p ELSE Element(h[i - 1], idLen, w)
        <3>1. CASE i = 0
            BY <3>1
        <3>2. CASE i # 0
            <4>1. i \in 1..n /\ i - 1 \in 0..n
                BY <3>2
            <4>2. h[i - 1] = g[i - 1]
                BY <4>1
            <4> HIDE DEF h
            <4> QED BY <3>2, <4>1, <4>2
        <3> QED BY <3>1, <3>2
    <2> QED BY <2>1
<1>3. Is(F)
    <2> HIDE DEF Is, h
    <2> QED BY <1>2
<1>4. F[0] = p /\ \A i \in 1..n : F[i] = Element(F[i - 1], idLen, w)
    <2> HIDE DEF F
    <2>1. 0 \in 0..n /\ \A i \in 1..n : i \in 0..n /\ i # 0
        OBVIOUS
    <2> QED BY <1>3, <2>1
<1> HIDE DEF F, Is
<1>5. F[n] = g[n]
    <2>1. ASSUME NEW i \in 1..n, F[i - 1] = g[i - 1] PROVE F[i] = g[i]
        BY <1>4, <2>1
    <2>2. F[0] = g[0]
        BY <1>4
    <2> QED BY <2>1, <2>2, SameLoop
<1> QED BY <1>1, <1>5

\* All elements of a group.
LEMMA ElementsAreRead ==
    ASSUME NEW idLen \in {1, 2}, NEW w \in {1, 2, 4, 8}, NEW ids, NEW io, IsGroup(ids, io, idLen, w),
           NEW D, NEW t \in ByteStrings
    PROVE  Elements(Parsed(Part(io, D), Joined(ElementStrings(ids, io, idLen, w)) \o t),
                    Len(ids), idLen, w) = Parsed(Part(io, D \cup Range(ids)), t)
<1> DEFINE parts == ElementStrings(ids, io, idLen, w)
           n == Len(ids)
<1>1. n \in Nat /\ parts \in Seq(ByteStrings) /\ Len(parts) = n
    BY ElementsTyped
<1>2. PICK f \in [1..(n + 1) -> ByteStrings] :
         /\ Joined(parts) = f[1] /\ f[n + 1] = <<>>
         /\ \A k \in 1..n : f[k] = parts[k] \o f[k + 1]
    <2> HIDE DEF parts, n
    <2> QED BY <1>1, JoinedSteps
<1>3. ASSUME NEW k \in 1..n
      PROVE  /\ ids[k] \in Ids(idLen) /\ io[ids[k]] \in [int : {TRUE}, value : Numerals(w)]
             /\ parts[k] = ElementBytes(ids[k], io[ids[k]].value, idLen, w)
             /\ parts[k] \in ByteStrings
    <2>1. ids[k] \in Ids(idLen)
        BY ElementOfSeq DEF IsGroup
    <2>2. io[ids[k]] \in [int : {TRUE}, value : Numerals(w)]
        BY DEF IsGroup
    <2>3. parts[k] = ElementBytes(ids[k], io[ids[k]].value, idLen, w)
        BY DEF ElementStrings
    <2>4. parts[k] \in ByteStrings
        <3> HIDE DEF parts, n
        <3> QED BY <1>1, ElementOfSeq
    <2> QED BY <2>1, <2>2, <2>3, <2>4
<1>4. Range(ids) = {ids[j] : j \in 1..n}
    <2>1. DOMAIN ids = 1..n
        BY DEF IsGroup
    <2> QED BY <2>1 DEF Range
<1> HIDE DEF parts, n
<1> DEFINE E(i) == D \cup {ids[j] : j \in 1..i}
           g == [i \in 0..n |-> Parsed(Part(io, E(i)), f[i + 1] \o t)]
<1>5. g[0] = Parsed(Part(io, D), Joined(parts) \o t)
    <2>1. E(0) = D /\ 0 \in 0..n /\ 0 + 1 = 1
        BY <1>1
    <2> HIDE DEF E
    <2> QED BY <1>2, <2>1
<1>6. g[n] = Parsed(Part(io, D \cup Range(ids)), t)
    <2>1. E(n) = D \cup Range(ids)
        BY <1>4
    <2>2. <<>> \o t = t
        BY ConcatEmptySeq DEF ByteStrings
    <2>3. n \in 0..n
        BY <1>1
    <2> HIDE DEF E
    <2> QED BY <1>2, <2>1, <2>2, <2>3
<1>7. ASSUME NEW i \in 1..n PROVE g[i] = Element(g[i - 1], idLen, w)
    <2>1. i \in 0..n /\ i - 1 \in 0..n /\ (i - 1) + 1 = i /\ i \in 1..(n + 1) /\ i + 1 \in 1..(n + 1)
        BY <1>1
    <2>2. E(i) = E(i - 1) \cup {ids[i]}
        <3>1. 1..i = (1..(i - 1)) \cup {i}
            BY <1>1
        <3> QED BY <3>1
    <2> HIDE DEF E
    <2>3. g[i] = Parsed(Part(io, E(i)), f[i + 1] \o t) /\ g[i - 1] = Parsed(Part(io, E(i - 1)), f[i] \o t)
        BY <2>1
    <2> HIDE DEF g
    <2>4. f[i + 1] \in ByteStrings /\ f[i] = parts[i] \o f[i + 1]
        BY <1>2, <2>1
    <2>5. f[i] \o t = parts[i] \o (f[i + 1] \o t)
        <3>1. ASSUME NEW x \in ByteStrings, NEW y \in ByteStrings PROVE (x \o y) \o t = x \o (y \o t)
            BY Associative
        <3>2. parts[i] \in ByteStrings
            BY <1>3
        <3> QED BY <2>4, <3>1, <3>2, Zenon
    <2>6. f[i + 1] \o t \in ByteStrings
        BY <2>4, ConcatTyped, Zenon
    <2> DEFINE id == ids[i]
               u == f[i + 1] \o t
               C == E(i - 1)
    <2>7. id \in Ids(idLen) /\ io[id] \in [int : {TRUE}, value : Numerals(w)]
          /\ parts[i] = ElementBytes(id, io[id].value, idLen, w)
        BY <1>3
    <2> HIDE DEF id, u, C
    <2>8. Element(Parsed(Part(io, C), ElementBytes(id, io[id].value, idLen, w) \o u), idLen, w)
             = Parsed(Part(io, C \cup {id}), u)
        <3>1. u \in ByteStrings
            BY <2>6 DEF u
        <3>2. IsElement(id, io, idLen, w)
            BY <2>7 DEF IsElement
        <3> QED BY ONLY <3>1, <3>2, ElementIsRead, SMT
    <2>9. g[i - 1] = Parsed(Part(io, C), ElementBytes(id, io[id].value, idLen, w) \o u)
        BY <2>3, <2>5, <2>7, Zenon DEF u, C
    <2>10. g[i] = Parsed(Part(io, C \cup {id}), u)
        BY <2>2, <2>3, Zenon DEF id, u, C
    <2> QED BY <2>8, <2>9, <2>10
<1> HIDE DEF g
<1>8. Elements(Parsed(Part(io, D), Joined(parts) \o t), n, idLen, w) = g[n]
    <2> DEFINE p == Parsed(Part(io, D), Joined(parts) \o t)
    <2>1. g[0] = p
        BY <1>5
    <2> HIDE DEF p
    <2>2. Elements(p, n, idLen, w) = g[n]
        <3>1. ReadsElements(g, p, n, idLen, w)
            BY <1>1, <1>7, <2>1 DEF ReadsElements
        <3> QED BY ONLY <3>1, ElementsLoop, SMT
    <2> QED BY <2>2 DEF p
<1> QED BY <1>6, <1>8 DEF parts, n

\* A group with its count.
LEMMA GroupIsRead ==
    ASSUME NEW idLen \in {1, 2}, NEW w \in {1, 2, 4, 8}, NEW ids, NEW io, IsGroup(ids, io, idLen, w),
           NEW D, NEW t \in ByteStrings
    PROVE  Group(Parsed(Part(io, D), GroupBytes(ids, io, idLen, w) \o t), idLen, w)
              = Parsed(Part(io, D \cup Range(ids)), t)
<1> DEFINE c == Bytes(Len(ids), idLen)
           j == Joined(ElementStrings(ids, io, idLen, w))
           b == GroupBytes(ids, io, idLen, w) \o t
           p == Parsed(Part(io, D), b)
<1>1. IsString(c, idLen) /\ BigEndian(c) = Len(ids) /\ idLen \in Nat /\ 0 + idLen = idLen
    <2>1. Len(ids) \in Ids(idLen)
        BY DEF IsGroup
    <2>2. Bytes(Len(ids), idLen) \in ByteStrings /\ Len(Bytes(Len(ids), idLen)) = idLen
          /\ BigEndian(Bytes(Len(ids), idLen)) = Len(ids)
        BY <2>1, IdIs, Zenon
    <2>3. idLen \in Nat /\ 0 + idLen = idLen
        OBVIOUS
    <2> QED BY <2>2, <2>3 DEF IsString
<1>2. j \in ByteStrings
    BY ElementsTyped, JoinedTyped
<1>3. GroupBytes(ids, io, idLen, w) = c \o j
    BY GroupTyped, ZenonT(60)
<1>4. Elements(Parsed(Part(io, D), j \o t), Len(ids), idLen, w) = Parsed(Part(io, D \cup Range(ids)), t)
    BY ElementsAreRead
<1> HIDE DEF c, j
<1>5. b = c \o (j \o t) /\ j \o t \in ByteStrings
    <2>1. c \in ByteStrings
        BY <1>1 DEF IsString
    <2>2. (c \o j) \o t = c \o (j \o t)
        BY <1>2, <2>1, Associative, Zenon
    <2>3. j \o t \in ByteStrings
        BY <1>2, ConcatTyped, Zenon
    <2> QED BY <1>3, <2>2, <2>3, Zenon
<1>6. Keeps(c, b) /\ Drop(b, idLen) = j \o t /\ ~(Len(b) < idLen)
    <2>1. j \o t \in ByteStrings /\ IsString(c, idLen) /\ idLen \in Nat
        BY <1>1, <1>5
    <2> DEFINE u == j \o t
    <2> HIDE DEF u
    <2>2. Keeps(c, c \o u) /\ Drop(c \o u, idLen) = u /\ ~(Len(c \o u) < idLen)
        BY <2>1, InFront, Zenon DEF u
    <2> QED BY <1>5, <2>2, Zenon DEF u
<1> HIDE DEF b
<1>7. At(b, 0, c)
    <2>1. c \in ByteStrings
        BY <1>1 DEF IsString
    <2>2. At(c, 0, c)
        BY <2>1, AtWhole, Zenon
    <2> QED BY <1>6, <2>2, Zenon DEF Keeps
<1>8. Slice(b, 0, idLen) = c
    BY <1>1, <1>7, FieldIs
<1>9. p.ok = TRUE /\ p.value = Part(io, D) /\ p.rest = b
    BY DEF Parsed
<1> HIDE DEF p
<1>10. Group(p, idLen, w) = Elements(Parsed(Part(io, D), j \o t), Len(ids), idLen, w)
    BY <1>1, <1>6, <1>8, <1>9 DEF Group
<1> QED BY <1>4, <1>10, Zenon DEF p, b

\* Elements with a length of their own, as those before.
VariableElementBytes(id, value) == Bytes(id, 2) \o Bytes(Len(value), 2) \o value

IsVariableElement(id, io) == id \in Ids(2) /\ io[id] \in [int : {FALSE}, value : ShortStrings]

\* One element with a length of its own.
LEMMA VariableElementIsRead ==
    ASSUME NEW id, NEW io, IsVariableElement(id, io), NEW D, NEW t \in ByteStrings
    PROVE  VariableElement(Parsed(Part(io, D), VariableElementBytes(id, io[id].value) \o t))
              = Parsed(Part(io, D \cup {id}), t)
<1> DEFINE v == io[id].value
           w == Len(v)
           f1 == Bytes(id, 2)
           f2 == Bytes(w, 2)
           e == VariableElementBytes(id, v)
           b == e \o t
           p == Parsed(Part(io, D), b)
           end == 4 + w
<1>1. io[id] = [int |-> FALSE, value |-> v] /\ v \in ShortStrings
    <2>1. ASSUME NEW S, NEW x \in [int : {FALSE}, value : S]
          PROVE  x = [int |-> FALSE, value |-> x.value] /\ x.value \in S
        BY <2>1
    <2>2. io[id] \in [int : {FALSE}, value : ShortStrings]
        BY DEF IsVariableElement
    <2> QED BY <2>1, <2>2, Zenon
<1>2. IsString(f1, 2) /\ BigEndian(f1) = id
    BY IdIs DEF IsVariableElement, IsString
<1>3. v \in ByteStrings /\ w \in Halfwords /\ w \in Nat
    <2> HIDE DEF v
    <2>1. v \in ByteStrings /\ w \in Nat /\ w < 65536
        BY <1>1, ShortIs, SMT
    <2> HIDE DEF w
    <2>2. w \in Halfwords
        BY <2>1, BelowIf, SMT DEF Halfwords
    <2> QED BY <2>1, <2>2
<1>4. IsString(f2, 2) /\ BigEndian(f2) = w
    BY <1>3, HalfwordIs, Zenon DEF IsString
<1>5. e = (f1 \o f2) \o v /\ IsString(v, w)
    BY <1>3 DEF VariableElementBytes, IsString
<1>6. 2 + 2 = 4 /\ end \in Nat /\ 0 + 2 = 2 /\ 2 \in Nat /\ 4 \in Nat /\ ~(end < 4)
    BY <1>3
<1> HIDE DEF v, w, f1, f2, e
<1> DEFINE h == f1 \o f2
<1>7. IsString(h, 2 + 2) /\ At(h, 2, f2) /\ Keeps(f1, h)
    BY <1>2, <1>4, AppendAt, Zenon
<1>8. IsString(h, 4) /\ At(h, 2, f2) /\ At(h, 0, f1)
    <2>1. At(f1, 0, f1)
        BY <1>2, AtWhole, Zenon DEF IsString
    <2> QED BY <1>6, <1>7, <2>1, Zenon DEF Keeps
<1>9. e = h \o v
    BY <1>5
<1> HIDE DEF h
<1>10. IsString(e, end) /\ At(e, 4, v) /\ Keeps(h, e)
    BY <1>5, <1>8, <1>9, AppendAt, Zenon
<1>11. Keeps(e, b) /\ Drop(b, end) = t /\ ~(Len(b) < end) /\ Len(b) = end + Len(t) /\ Len(t) \in Nat
    <2> HIDE DEF end
    <2> QED BY <1>6, <1>10, InFront, Zenon
<1>12. ~(Len(b) < 4)
    <2> DEFINE x == Len(b)
               y == Len(t)
    <2>1. x = end + y /\ y \in Nat
        BY <1>11
    <2> HIDE DEF x, y, b
    <2>2. ~(x < 4)
        BY <1>3, <2>1
    <2> QED BY <2>2 DEF x
<1> HIDE DEF b
<1>13. At(b, 0, f1) /\ At(b, 2, f2) /\ At(b, 4, v)
    BY <1>8, <1>10, <1>11, Zenon DEF Keeps
<1>14. Slice(b, 0, 2) = f1
    BY <1>2, <1>6, <1>13, FieldIs
<1>15. Slice(b, 2, 4) = f2
    BY <1>4, <1>6, <1>13, FieldIs
<1>16. Slice(b, 4, end) = v
    BY <1>5, <1>13, FieldIs
<1>17. p.ok = TRUE /\ p.value = Part(io, D) /\ p.rest = b
    BY DEF Parsed
<1> HIDE DEF p
<1>18. VariableElement(p) = Parsed(Put(Part(io, D), id, [int |-> FALSE, value |-> v]), t)
    <2>1. 4 + BigEndian(Slice(p.rest, 2, 4)) = end
        BY <1>4, <1>15, <1>17
    <2> HIDE DEF end
    <2> QED BY <1>2, <1>11, <1>12, <1>14, <1>16, <1>17, <2>1 DEF VariableElement
<1>19. VariableElement(p) = Parsed(Part(io, D \cup {id}), t)
    <2>1. Put(Part(io, D), id, io[id]) = Part(io, D \cup {id})
        BY PutPart
    <2>2. Put(Part(io, D), id, [int |-> FALSE, value |-> v]) = Part(io, D \cup {id})
        BY <1>1, <2>1
    <2> QED BY <1>18, <2>2
<1> QED BY <1>19, Zenon DEF p, b, e, v

\* The steps of the loop over elements.
ReadsVariable(g, p, n) ==
    n \in Nat /\ g[0] = p /\ \A i \in 1..n : g[i] = VariableElement(g[i - 1])

\* The loop over elements computes the g[n] of every g that takes its steps.
LEMMA VariableElementsLoop ==
    ASSUME NEW n, NEW p, NEW g, ReadsVariable(g, p, n)
    PROVE  VariableElements(p, n) = g[n]
<1> DEFINE Is(f) == f = [i \in 0..n |-> IF i = 0 THEN p ELSE VariableElement(f[i - 1])]
           F == CHOOSE f : Is(f)
           h == [i \in 0..n |-> g[i]]
<1> USE DEF ReadsVariable
<1>1. VariableElements(p, n) = F[n]
    BY DEF VariableElements
<1>2. Is(h)
    <2>1. ASSUME NEW i \in 0..n PROVE g[i] = IF i = 0 THEN p ELSE VariableElement(h[i - 1])
        <3>1. CASE i = 0
            BY <3>1
        <3>2. CASE i # 0
            <4>1. i \in 1..n /\ i - 1 \in 0..n
                BY <3>2
            <4>2. h[i - 1] = g[i - 1]
                BY <4>1
            <4> HIDE DEF h
            <4> QED BY <3>2, <4>1, <4>2
        <3> QED BY <3>1, <3>2
    <2> QED BY <2>1
<1>3. Is(F)
    <2> HIDE DEF Is, h
    <2> QED BY <1>2
<1>4. F[0] = p /\ \A i \in 1..n : F[i] = VariableElement(F[i - 1])
    <2> HIDE DEF F
    <2>1. 0 \in 0..n /\ \A i \in 1..n : i \in 0..n /\ i # 0
        OBVIOUS
    <2> QED BY <1>3, <2>1
<1> HIDE DEF F, Is
<1>5. F[n] = g[n]
    <2>1. ASSUME NEW i \in 1..n, F[i - 1] = g[i - 1] PROVE F[i] = g[i]
        BY <1>4, <2>1
    <2>2. F[0] = g[0]
        BY <1>4
    <2> QED BY <2>1, <2>2, SameLoop
<1> QED BY <1>1, <1>5

\* All elements of a group.
LEMMA VariableElementsAreRead ==
    ASSUME NEW ids, NEW io, IsVariable(ids, io),
           NEW D, NEW t \in ByteStrings
    PROVE  VariableElements(Parsed(Part(io, D), Joined(VariableStrings(ids, io)) \o t), Len(ids))
              = Parsed(Part(io, D \cup Range(ids)), t)
<1> DEFINE parts == VariableStrings(ids, io)
           n == Len(ids)
<1>1. n \in Nat /\ parts \in Seq(ByteStrings) /\ Len(parts) = n
    BY VariableTyped
<1>2. PICK f \in [1..(n + 1) -> ByteStrings] :
         /\ Joined(parts) = f[1] /\ f[n + 1] = <<>>
         /\ \A k \in 1..n : f[k] = parts[k] \o f[k + 1]
    <2> HIDE DEF parts, n
    <2> QED BY <1>1, JoinedSteps
<1>3. ASSUME NEW k \in 1..n
      PROVE  /\ IsVariableElement(ids[k], io)
             /\ parts[k] = VariableElementBytes(ids[k], io[ids[k]].value)
             /\ parts[k] \in ByteStrings
    <2>1. ids[k] \in Ids(2)
        BY ElementOfSeq DEF IsVariable
    <2>2. io[ids[k]] \in [int : {FALSE}, value : ShortStrings]
        BY DEF IsVariable
    <2>3. parts[k] = VariableElementBytes(ids[k], io[ids[k]].value)
        BY DEF VariableStrings, VariableElementBytes
    <2>4. parts[k] \in ByteStrings
        <3> HIDE DEF parts, n
        <3> QED BY <1>1, ElementOfSeq
    <2> QED BY <2>1, <2>2, <2>3, <2>4 DEF IsVariableElement
<1>4. Range(ids) = {ids[j] : j \in 1..n}
    <2>1. DOMAIN ids = 1..n
        BY DEF IsVariable
    <2> QED BY <2>1 DEF Range
<1> HIDE DEF parts, n
<1> DEFINE E(i) == D \cup {ids[j] : j \in 1..i}
           g == [i \in 0..n |-> Parsed(Part(io, E(i)), f[i + 1] \o t)]
<1>5. g[0] = Parsed(Part(io, D), Joined(parts) \o t)
    <2>1. E(0) = D /\ 0 \in 0..n /\ 0 + 1 = 1
        BY <1>1
    <2> HIDE DEF E
    <2> QED BY <1>2, <2>1
<1>6. g[n] = Parsed(Part(io, D \cup Range(ids)), t)
    <2>1. E(n) = D \cup Range(ids)
        BY <1>4
    <2>2. <<>> \o t = t
        BY ConcatEmptySeq DEF ByteStrings
    <2>3. n \in 0..n
        BY <1>1
    <2> HIDE DEF E
    <2> QED BY <1>2, <2>1, <2>2, <2>3
<1>7. ASSUME NEW i \in 1..n PROVE g[i] = VariableElement(g[i - 1])
    <2>1. i \in 0..n /\ i - 1 \in 0..n /\ (i - 1) + 1 = i /\ i \in 1..(n + 1) /\ i + 1 \in 1..(n + 1)
        BY <1>1
    <2>2. E(i) = E(i - 1) \cup {ids[i]}
        <3>1. 1..i = (1..(i - 1)) \cup {i}
            BY <1>1
        <3> QED BY <3>1
    <2> HIDE DEF E
    <2>3. g[i] = Parsed(Part(io, E(i)), f[i + 1] \o t) /\ g[i - 1] = Parsed(Part(io, E(i - 1)), f[i] \o t)
        BY <2>1
    <2> HIDE DEF g
    <2>4. f[i + 1] \in ByteStrings /\ f[i] = parts[i] \o f[i + 1]
        BY <1>2, <2>1
    <2>5. f[i] \o t = parts[i] \o (f[i + 1] \o t)
        <3>1. ASSUME NEW x \in ByteStrings, NEW y \in ByteStrings PROVE (x \o y) \o t = x \o (y \o t)
            BY Associative
        <3>2. parts[i] \in ByteStrings
            BY <1>3
        <3> QED BY <2>4, <3>1, <3>2, Zenon
    <2>6. f[i + 1] \o t \in ByteStrings
        BY <2>4, ConcatTyped, Zenon
    <2> DEFINE id == ids[i]
               u == f[i + 1] \o t
               C == E(i - 1)
    <2>7. IsVariableElement(id, io) /\ parts[i] = VariableElementBytes(id, io[id].value)
        BY <1>3
    <2> HIDE DEF id, u, C
    <2>8. VariableElement(Parsed(Part(io, C), VariableElementBytes(id, io[id].value) \o u))
             = Parsed(Part(io, C \cup {id}), u)
        <3>1. u \in ByteStrings
            BY <2>6 DEF u
        <3> QED BY ONLY <2>7, <3>1, VariableElementIsRead, SMT
    <2>9. g[i - 1] = Parsed(Part(io, C), VariableElementBytes(id, io[id].value) \o u)
        BY <2>3, <2>5, <2>7, Zenon DEF u, C
    <2>10. g[i] = Parsed(Part(io, C \cup {id}), u)
        BY <2>2, <2>3, Zenon DEF id, u, C
    <2> QED BY <2>8, <2>9, <2>10
<1> HIDE DEF g
<1>8. VariableElements(Parsed(Part(io, D), Joined(parts) \o t), n) = g[n]
    <2> DEFINE p == Parsed(Part(io, D), Joined(parts) \o t)
    <2>1. g[0] = p
        BY <1>5
    <2> HIDE DEF p
    <2>2. VariableElements(p, n) = g[n]
        <3>1. ReadsVariable(g, p, n)
            BY <1>1, <1>7, <2>1 DEF ReadsVariable
        <3> QED BY ONLY <3>1, VariableElementsLoop, SMT
    <2> QED BY <2>2 DEF p
<1> QED BY <1>6, <1>8 DEF parts, n

\* A group with its count.
LEMMA VariableGroupIsRead ==
    ASSUME NEW ids, NEW io, IsVariable(ids, io),
           NEW D, NEW t \in ByteStrings
    PROVE  VariableGroup(Parsed(Part(io, D), VariableBytes(ids, io) \o t))
              = Parsed(Part(io, D \cup Range(ids)), t)
<1> DEFINE c == Bytes(Len(ids), 2)
           j == Joined(VariableStrings(ids, io))
           b == VariableBytes(ids, io) \o t
           p == Parsed(Part(io, D), b)
<1>1. IsString(c, 2) /\ BigEndian(c) = Len(ids) /\ 2 \in Nat /\ 0 + 2 = 2
    <2>1. Len(ids) \in Ids(2)
        BY DEF IsVariable
    <2>2. Bytes(Len(ids), 2) \in ByteStrings /\ Len(Bytes(Len(ids), 2)) = 2
          /\ BigEndian(Bytes(Len(ids), 2)) = Len(ids)
        BY <2>1, IdIs, Zenon
    <2>3. 2 \in Nat /\ 0 + 2 = 2
        OBVIOUS
    <2> QED BY <2>2, <2>3 DEF IsString
<1>2. j \in ByteStrings
    BY VariableTyped, JoinedTyped
<1>3. VariableBytes(ids, io) = c \o j
    BY VariableTyped
<1>4. VariableElements(Parsed(Part(io, D), j \o t), Len(ids)) = Parsed(Part(io, D \cup Range(ids)), t)
    BY VariableElementsAreRead
<1> HIDE DEF c, j
<1>5. b = c \o (j \o t) /\ j \o t \in ByteStrings
    <2>1. c \in ByteStrings
        BY <1>1 DEF IsString
    <2>2. (c \o j) \o t = c \o (j \o t)
        BY <1>2, <2>1, Associative, Zenon
    <2>3. j \o t \in ByteStrings
        BY <1>2, ConcatTyped, Zenon
    <2> QED BY <1>3, <2>2, <2>3, Zenon
<1>6. Keeps(c, b) /\ Drop(b, 2) = j \o t /\ ~(Len(b) < 2)
    <2>1. j \o t \in ByteStrings /\ IsString(c, 2) /\ 2 \in Nat
        BY <1>1, <1>5
    <2> DEFINE u == j \o t
    <2> HIDE DEF u
    <2>2. Keeps(c, c \o u) /\ Drop(c \o u, 2) = u /\ ~(Len(c \o u) < 2)
        BY <2>1, InFront, Zenon DEF u
    <2> QED BY <1>5, <2>2, Zenon DEF u
<1> HIDE DEF b
<1>7. At(b, 0, c)
    <2>1. c \in ByteStrings
        BY <1>1 DEF IsString
    <2>2. At(c, 0, c)
        BY <2>1, AtWhole, Zenon
    <2> QED BY <1>6, <2>2, Zenon DEF Keeps
<1>8. Slice(b, 0, 2) = c
    BY <1>1, <1>7, FieldIs
<1>9. p.ok = TRUE /\ p.value = Part(io, D) /\ p.rest = b
    BY DEF Parsed
<1> HIDE DEF p
<1>10. VariableGroup(p) = VariableElements(Parsed(Part(io, D), j \o t), Len(ids))
    BY <1>1, <1>6, <1>8, <1>9 DEF VariableGroup
<1> QED BY <1>4, <1>10, Zenon DEF p, b

\* A string of which the first part is taken off.
AreStrings(a, b, c, d, e, f, t) ==
    /\ a \in ByteStrings /\ b \in ByteStrings /\ c \in ByteStrings /\ d \in ByteStrings
    /\ e \in ByteStrings /\ f \in ByteStrings /\ t \in ByteStrings

Regrouped(a, b, c, d, e, f, t) ==
    (a \o b \o c \o d \o e \o f) \o t = a \o (b \o (c \o (d \o (e \o (f \o t)))))

\* A string made from its start can be taken apart from its start.
LEMMA Regroup ==
    ASSUME NEW a, NEW b, NEW c, NEW d, NEW e, NEW f, NEW t, AreStrings(a, b, c, d, e, f, t)
    PROVE  Regrouped(a, b, c, d, e, f, t)
<1> USE DEF AreStrings
<1>1. a \o b \in ByteStrings
    BY ConcatTyped, Zenon
<1>2. (a \o b) \o c \in ByteStrings
    BY <1>1, ConcatTyped, Zenon
<1>3. ((a \o b) \o c) \o d \in ByteStrings
    BY <1>2, ConcatTyped, Zenon
<1>4. (((a \o b) \o c) \o d) \o e \in ByteStrings
    BY <1>3, ConcatTyped, Zenon
<1>5. f \o t \in ByteStrings
    BY ConcatTyped, Zenon
<1>6. e \o (f \o t) \in ByteStrings
    BY <1>5, ConcatTyped, Zenon
<1>7. d \o (e \o (f \o t)) \in ByteStrings
    BY <1>6, ConcatTyped, Zenon
<1>8. c \o (d \o (e \o (f \o t))) \in ByteStrings
    BY <1>7, ConcatTyped, Zenon
<1>9. ((((a \o b) \o c) \o d) \o e) \o f \o t = ((((a \o b) \o c) \o d) \o e) \o (f \o t)
    BY <1>4, Associative, ZenonT(60)
<1>10. ((((a \o b) \o c) \o d) \o e) \o (f \o t) = (((a \o b) \o c) \o d) \o (e \o (f \o t))
    BY <1>3, <1>5, Associative, ZenonT(60)
<1>11. (((a \o b) \o c) \o d) \o (e \o (f \o t)) = ((a \o b) \o c) \o (d \o (e \o (f \o t)))
    BY <1>2, <1>6, Associative, ZenonT(60)
<1>12. ((a \o b) \o c) \o (d \o (e \o (f \o t))) = (a \o b) \o (c \o (d \o (e \o (f \o t))))
    BY <1>1, <1>7, Associative, ZenonT(60)
<1>13. (a \o b) \o (c \o (d \o (e \o (f \o t)))) = a \o (b \o (c \o (d \o (e \o (f \o t)))))
    <2> DEFINE x == c \o (d \o (e \o (f \o t)))
    <2>1. x \in ByteStrings
        BY <1>8
    <2> HIDE DEF x
    <2>2. (a \o b) \o x = a \o (b \o x)
        BY ONLY a \in ByteStrings, b \in ByteStrings, <2>1, Associative, Zenon
    <2> QED BY <2>2 DEF x
<1> QED BY <1>9, <1>10, <1>11, <1>12, <1>13, Zenon DEF Regrouped

\* No element at first.
LEMMA NothingRead == ASSUME NEW io PROVE Part(io, {}) = <<>>
BY DEF Part

\* The identifiers of a record.
LEMMA IdentifiersAre ==
    ASSUME NEW order, NEW io, io = [id \in UNION {Range(order[j]) : j \in 1..5} |-> io[id]]
    PROVE  io = Part(io, (((({} \cup Range(order[1])) \cup Range(order[2])) \cup Range(order[3]))
                            \cup Range(order[4])) \cup Range(order[5]))
<1> DEFINE R(j) == Range(order[j])
           U == (((({} \cup R(1)) \cup R(2)) \cup R(3)) \cup R(4)) \cup R(5)
<1> HIDE DEF R
<1>1. UNION {R(j) : j \in 1..5} = U
    <2>1. 1..5 = {1, 2, 3, 4, 5}
        OBVIOUS
    <2>2. {R(j) : j \in {1, 2, 3, 4, 5}} = {R(1), R(2), R(3), R(4), R(5)}
        OBVIOUS
    <2> QED BY <2>1, <2>2
<1>2. io = [id \in UNION {R(j) : j \in 1..5} |-> io[id]]
    BY DEF R
<1> HIDE DEF U
<1>3. io = [id \in U |-> io[id]]
    BY <1>1, <1>2
<1> QED BY <1>3 DEF U, R, Part

\* All groups of a record.
LEMMA IoIsRead ==
    ASSUME NEW idLen \in {1, 2}, NEW r, NEW order, RecordFits(r, order, idLen), NEW t \in ByteStrings
    PROVE  /\ _read_io(IoBytes(r.event_io_id, r.io, order, idLen) \o t, idLen = 2) = Parsed(r.io, t)
           /\ At(IoBytes(r.event_io_id, r.io, order, idLen) \o t, 0, Bytes(r.event_io_id, idLen))
<1> DEFINE io == r.io
           b0 == IoHead(r.event_io_id, order, idLen)
           b1 == GroupBytes(order[1], io, idLen, 1)
           b2 == GroupBytes(order[2], io, idLen, 2)
           b3 == GroupBytes(order[3], io, idLen, 4)
           b4 == GroupBytes(order[4], io, idLen, 8)
           b5 == Variable(order, io, idLen)
           t5 == b5 \o t
           t4 == b4 \o t5
           t3 == b3 \o t4
           t2 == b2 \o t3
           t1 == b1 \o t2
           D1 == {} \cup Range(order[1])
           D2 == D1 \cup Range(order[2])
           D3 == D2 \cup Range(order[3])
           D4 == D3 \cup Range(order[4])
           D5 == D4 \cup Range(order[5])
           b == IoBytes(r.event_io_id, io, order, idLen) \o t
           size == 2 * idLen
<1>1. /\ IsGroup(order[1], io, idLen, 1) /\ IsGroup(order[2], io, idLen, 2)
      /\ IsGroup(order[3], io, idLen, 4) /\ IsGroup(order[4], io, idLen, 8)
      /\ idLen = 2 => IsVariable(order[5], io)
    BY GroupsOf
<1>2. b0 \in ByteStrings /\ Len(b0) = size /\ b5 \in ByteStrings /\ At(b0, 0, Bytes(r.event_io_id, idLen))
    BY IoTyped
<1>3. IoBytes(r.event_io_id, io, order, idLen) = b0 \o b1 \o b2 \o b3 \o b4 \o b5
    BY IoTyped
<1>4. b1 \in ByteStrings /\ b2 \in ByteStrings /\ b3 \in ByteStrings /\ b4 \in ByteStrings
    <2>1. 1 \in {1, 2, 4, 8} /\ 2 \in {1, 2, 4, 8} /\ 4 \in {1, 2, 4, 8} /\ 8 \in {1, 2, 4, 8}
        OBVIOUS
    <2>2. \A ids, w : w \in {1, 2, 4, 8} /\ IsGroup(ids, io, idLen, w) => GroupBytes(ids, io, idLen, w) \in ByteStrings
        BY GroupTyped
    <2> QED BY <1>1, <2>1, <2>2, Zenon
<1>5. io = Part(io, D5)
    <2>1. io = [id \in UNION {Range(order[j]) : j \in 1..5} |-> io[id]]
        BY Zenon DEF RecordFits
    <2> HIDE DEF io
    <2> QED BY <2>1, IdentifiersAre, Zenon
<1>6. idLen = 1 => b5 = <<>> /\ order[5] = <<>>
    BY DEF RecordFits, Variable
<1>7. idLen = 2 => b5 = VariableBytes(order[5], io)
    BY DEF Variable
<1>8. size \in Nat
    OBVIOUS
<1> HIDE DEF io, b0, b1, b2, b3, b4, b5, size
<1>9. b = b0 \o t1
    <2> AreStrings(b0, b1, b2, b3, b4, b5, t)
        BY <1>2, <1>4 DEF AreStrings
    <2>1. Regrouped(b0, b1, b2, b3, b4, b5, t)
        BY Regroup, Zenon
    <2> QED BY <1>3, <2>1 DEF Regrouped
<1>10. t5 \in ByteStrings
    BY <1>2, ConcatTyped, Zenon
<1> HIDE DEF b, t5
<1>11. t4 \in ByteStrings
    BY <1>4, <1>10, ConcatTyped, Zenon
<1> HIDE DEF t4
<1>12. t3 \in ByteStrings
    BY <1>4, <1>11, ConcatTyped, Zenon
<1> HIDE DEF t3
<1>13. t2 \in ByteStrings
    BY <1>4, <1>12, ConcatTyped, Zenon
<1> HIDE DEF t2
<1>14. t1 \in ByteStrings
    BY <1>4, <1>13, ConcatTyped, Zenon
<1> HIDE DEF t1
<1>15. Drop(b, size) = t1 /\ ~(Len(b) < size) /\ Keeps(b0, b)
    <2>1. IsString(b0, size)
        BY <1>2 DEF IsString
    <2> QED BY <1>8, <1>9, <1>14, <2>1, InFront, Zenon
<1>16. ASSUME NEW ids, NEW w \in {1, 2, 4, 8}, IsGroup(ids, io, idLen, w), NEW D, NEW u \in ByteStrings
       PROVE  Group(Parsed(Part(io, D), GroupBytes(ids, io, idLen, w) \o u), idLen, w)
                 = Parsed(Part(io, D \cup Range(ids)), u)
    BY <1>16, GroupIsRead
<1> DEFINE p0 == Parsed(Part(io, {}), t1)
           p1 == Parsed(Part(io, D1), t2)
           p2 == Parsed(Part(io, D2), t3)
           p3 == Parsed(Part(io, D3), t4)
           p4 == Parsed(Part(io, D4), t5)
<1>17. Group(p0, idLen, 1) = p1
    BY <1>1, <1>13, <1>16 DEF t1, b1
<1>18. Group(p1, idLen, 2) = p2
    BY <1>1, <1>12, <1>16 DEF t2, b2
<1>19. Group(p2, idLen, 4) = p3
    BY <1>1, <1>11, <1>16 DEF t3, b3
<1>20. Group(p3, idLen, 8) = p4
    BY <1>1, <1>10, <1>16 DEF t4, b4
<1> HIDE DEF p0, p1, p2, p3, p4, D5
<1>21. p0 = Parsed(<<>>, Drop(b, size))
    BY <1>15, NothingRead DEF p0
<1>22. _read_io(b, idLen = 2) = IF idLen = 2 THEN VariableGroup(p4) ELSE p4
    <2>1. (IF idLen = 2 THEN 2 ELSE 1) = idLen
        OBVIOUS
    <2>2. ~(Len(b) < 2 * idLen) /\ p0 = Parsed(<<>>, Drop(b, 2 * idLen))
        BY <1>15, <1>21 DEF size
    <2> QED BY <1>17, <1>18, <1>19, <1>20, <2>1, <2>2 DEF _read_io
<1>23. ASSUME idLen = 2 PROVE _read_io(b, idLen = 2) = Parsed(io, t)
    <2>1. IsVariable(order[5], io)
        BY <1>1, <1>23
    <2>2. VariableGroup(Parsed(Part(io, D4), VariableBytes(order[5], io) \o t)) = Parsed(Part(io, D5), t)
        BY ONLY t \in ByteStrings, <2>1, VariableGroupIsRead, SMT DEF D5
    <2>3. VariableGroup(p4) = Parsed(Part(io, D5), t)
        BY <1>7, <1>23, <2>2 DEF p4, t5
    <2> QED BY <1>5, <1>22, <1>23, <2>3
<1>24. ASSUME idLen = 1 PROVE _read_io(b, idLen = 2) = Parsed(io, t)
    <2>1. t5 = t
        <3>1. <<>> \o t = t
            BY ConcatEmptySeq DEF ByteStrings
        <3> QED BY <1>6, <1>24, <3>1 DEF t5
    <2>2. D5 = D4
        <3>1. Range(<<>>) = {}
            BY DEF Range
        <3> QED BY <1>6, <1>24, <3>1 DEF D5
    <2>3. p4 = Parsed(io, t)
        BY <1>5, <2>1, <2>2 DEF p4
    <2> QED BY <1>22, <1>24, <2>3
<1>25. At(b, 0, Bytes(r.event_io_id, idLen))
    BY <1>2, <1>15, Zenon DEF Keeps
<1>26. _read_io(b, idLen = 2) = Parsed(io, t)
    BY <1>23, <1>24
<1> QED BY <1>25, <1>26 DEF b, io

\* A record, if its time exists.
LEMMA RecordIsRead ==
    ASSUME NEW idLen \in {1, 2}, NEW r, NEW order, RecordFits(r, order, idLen), NEW t \in ByteStrings
    PROVE  _read_record(RecordBytes(r, order, idLen) \o t, idLen = 2)
              = IF InRange(r.millis) THEN Parsed(r, t) ELSE ParseError
<1> DEFINE h == RecordHead(r)
           i == IoBytes(r.event_io_id, r.io, order, idLen)
           x == i \o t
           b == RecordBytes(r, order, idLen) \o t
           extended == idLen = 2
           c1 == Padded(r.millis, 8)
           c3 == TwosComplement(r.longitude, 4)
           c4 == TwosComplement(r.latitude, 4)
           c5 == TwosComplement(r.altitude, 2)
           c6 == Bytes(r.angle, 2)
           c8 == Bytes(r.speed, 2)
           c9 == Bytes(r.event_io_id, idLen)
<1>1. /\ r.millis \in Numerals(8) /\ r.priority \in 0..255 /\ r.satellites \in 0..255
      /\ r.longitude \in Signed32 /\ r.latitude \in Signed32 /\ r.altitude \in Signed16
      /\ r.angle \in Halfwords /\ r.speed \in Halfwords
      /\ r.longitude \in Int /\ r.latitude \in Int /\ r.altitude \in Int
    BY RecordFields
<1>2. r = [millis |-> r.millis, priority |-> r.priority, longitude |-> r.longitude,
           latitude |-> r.latitude, altitude |-> r.altitude, angle |-> r.angle,
           satellites |-> r.satellites, speed |-> r.speed, event_io_id |-> r.event_io_id,
           io |-> r.io]
    BY RecordFields
<1>3. /\ IsString(h, 24) /\ At(h, 0, c1) /\ At(h, 8, <<r.priority>>) /\ At(h, 9, c3) /\ At(h, 13, c4)
      /\ At(h, 17, c5) /\ At(h, 19, c6) /\ At(h, 21, <<r.satellites>>) /\ At(h, 22, c8)
    BY RecordHeadFields DEF IsString
<1>4. i \in ByteStrings /\ RecordBytes(r, order, idLen) = h \o i
    BY IoTyped, RecordTyped
<1>5. _read_io(x, extended) = Parsed(r.io, t) /\ At(x, 0, c9)
    BY IoIsRead
<1>6. IsString(c1, 8) /\ Numeral(c1) = r.millis
    <2>1. 8 \in Nat
        OBVIOUS
    <2> QED BY <1>1, <2>1, PaddedTyped, PaddedIsRead, Zenon DEF IsString
<1>7. IsString(c3, 4) /\ IsString(c4, 4) /\ IsString(c5, 2)
    <2>1. 4 \in {2, 4} /\ 2 \in {2, 4}
        OBVIOUS
    <2> QED BY <1>1, <2>1, ComplementTyped, Zenon DEF IsString
<1>8. Signed(c3) = r.longitude /\ Signed(c4) = r.latitude /\ Signed(c5) = r.altitude
    BY <1>1, SignedFits, Zenon
<1>9. IsString(c6, 2) /\ IsString(c8, 2) /\ BigEndian(c6) = r.angle /\ BigEndian(c8) = r.speed
    BY <1>1, HalfwordIs, Zenon DEF IsString
<1>10. IsString(c9, idLen) /\ BigEndian(c9) = r.event_io_id
    <2>1. r.event_io_id \in Ids(idLen)
        BY IoTyped
    <2> QED BY <2>1, IdIs, Zenon DEF IsString
<1> HIDE DEF h, i, c1, c3, c4, c5, c6, c8, c9
<1>11. x \in ByteStrings /\ b = h \o x
    <2>1. h \in ByteStrings
        BY <1>3 DEF IsString
    <2>2. (h \o i) \o t = h \o (i \o t)
        BY <1>4, <2>1, Associative, Zenon
    <2>3. i \o t \in ByteStrings
        BY <1>4, ConcatTyped, Zenon
    <2> QED BY <1>4, <2>2, <2>3, Zenon
<1> HIDE DEF x, b
<1>12. Keeps(h, b) /\ Drop(b, 24) = x /\ ~(Len(b) < 24) /\ At(b, 24, x)
    <2>1. 24 \in Nat
        OBVIOUS
    <2>2. IsString(x, Len(x))
        BY <1>11 DEF IsString
    <2>3. At(h \o x, 24, x)
        BY <1>3, <2>2, AppendAt, Zenon
    <2> QED BY <1>3, <1>11, <2>1, <2>3, InFront, Zenon
<1>13. /\ At(b, 0, c1) /\ At(b, 8, <<r.priority>>) /\ At(b, 9, c3) /\ At(b, 13, c4)
       /\ At(b, 17, c5) /\ At(b, 19, c6) /\ At(b, 21, <<r.satellites>>) /\ At(b, 22, c8)
    BY <1>3, <1>12, Zenon DEF Keeps
<1>14. At(b, 24, c9)
    <2>1. At(b, 24 + 0, c9)
        BY <1>5, <1>12, AtWithin, Zenon
    <2>2. 24 + 0 = 24
        OBVIOUS
    <2> QED BY <2>1, <2>2, Zenon
<1>15. Slice(b, 0, 8) = c1
    BY <1>6, <1>13, FieldIs
<1>16. Byte(b, 8) = r.priority /\ Byte(b, 21) = r.satellites
    BY <1>1, <1>13, AtOneByte, Zenon
<1>17. Slice(b, 9, 13) = c3
    BY <1>7, <1>13, FieldIs
<1>18. Slice(b, 13, 17) = c4
    BY <1>7, <1>13, FieldIs
<1>19. Slice(b, 17, 19) = c5
    BY <1>7, <1>13, FieldIs
<1>20. Slice(b, 19, 21) = c6
    BY <1>9, <1>13, FieldIs
<1>21. Slice(b, 22, 24) = c8
    BY <1>9, <1>13, FieldIs
<1>22. Slice(b, 24, IF extended THEN 26 ELSE 25) = c9
    <2> DEFINE e == IF extended THEN 26 ELSE 25
    <2>1. e = 24 + idLen
        OBVIOUS
    <2> HIDE DEF e
    <2>2. Slice(b, 24, e) = c9
        BY <1>10, <1>14, <2>1, FieldIs
    <2> QED BY <2>2 DEF e
<1> DEFINE y == Parsed(r.io, t)
<1>23. y.ok = TRUE /\ y.value = r.io /\ y.rest = t
    BY DEF Parsed
<1>24. _read_io(Drop(b, 24), extended) = y
    BY <1>5, <1>12
<1> HIDE DEF y, extended
<1>25. CASE ~InRange(r.millis)
    <2>1. _read_record(b, extended) = ParseError
        BY <1>6, <1>12, <1>15, <1>25 DEF _read_record
    <2> QED BY <1>25, <2>1 DEF b, extended
<1>26. CASE InRange(r.millis)
    <2> DEFINE q == [millis |-> r.millis, priority |-> r.priority, longitude |-> r.longitude,
                     latitude |-> r.latitude, altitude |-> r.altitude, angle |-> r.angle,
                     satellites |-> r.satellites, speed |-> r.speed, event_io_id |-> r.event_io_id,
                     io |-> r.io]
    <2>1. _read_record(b, extended) = Parsed(q, t)
        BY <1>6, <1>8, <1>9, <1>10, <1>12, <1>15, <1>16, <1>17, <1>18, <1>19, <1>20, <1>21, <1>22,
           <1>23, <1>24, <1>26 DEF _read_record
    <2>2. q = r
        BY <1>2
    <2> HIDE DEF q
    <2> QED BY <1>26, <2>1, <2>2 DEF b, extended
<1> QED BY <1>25, <1>26

\* What is shorter than a record is none.
LEMMA ShortIsNoRecord ==
    ASSUME NEW b, Len(b) < 24, NEW extended
    PROVE  _read_record(b, extended) = ParseError
BY DEF _read_record

\* The first i elements of a sequence.
First(s, i) == [k \in 1..i |-> s[k]]

\* One element more.
LEMMA AppendFirst ==
    ASSUME NEW n \in Nat, NEW S, NEW s \in [1..n -> S], NEW i \in 1..n
    PROVE  Append(First(s, i - 1), s[i]) = First(s, i)
<1> DEFINE p == First(s, i - 1)
<1>1. p \in [1..(i - 1) -> S] /\ i - 1 \in Nat /\ s[i] \in S
    BY DEF First
<1>2. p \in Seq(S) /\ Len(p) = i - 1
    BY <1>1, FunctionIsSeq
<1>3. \A k \in 1..(i - 1) : p[k] = s[k]
    BY DEF First
<1> HIDE DEF p
<1>4. Append(p, s[i]) = First(s, i)
    BY <1>1, <1>2, <1>3 DEF First
<1> QED BY <1>4 DEF p

\* The steps of the loop over records.
ReadsRecords(g, data, n, extended) ==
    n \in Nat /\ g[0] = Parsed(<<>>, data) /\ \A i \in 1..n : g[i] = NextRecord(g[i - 1], extended)

\* The loop over records computes the g[n] of every g that takes its steps.
LEMMA RecordsLoop ==
    ASSUME NEW n, NEW data, NEW extended, NEW g, ReadsRecords(g, data, n, extended)
    PROVE  ReadRecords(data, n, extended) = g[n]
<1> DEFINE Is(f) == f = [i \in 0..n |-> IF i = 0 THEN Parsed(<<>>, data) ELSE NextRecord(f[i - 1], extended)]
           F == CHOOSE f : Is(f)
           h == [i \in 0..n |-> g[i]]
<1> USE DEF ReadsRecords
<1>1. ReadRecords(data, n, extended) = F[n]
    BY DEF ReadRecords
<1>2. Is(h)
    <2>1. ASSUME NEW i \in 0..n PROVE g[i] = IF i = 0 THEN Parsed(<<>>, data) ELSE NextRecord(h[i - 1], extended)
        <3>1. CASE i = 0
            BY <3>1
        <3>2. CASE i # 0
            <4>1. i \in 1..n /\ i - 1 \in 0..n
                BY <3>2
            <4>2. h[i - 1] = g[i - 1]
                BY <4>1
            <4> HIDE DEF h
            <4> QED BY <3>2, <4>1, <4>2
        <3> QED BY <3>1, <3>2
    <2> QED BY <2>1
<1>3. Is(F)
    <2> HIDE DEF Is, h
    <2> QED BY <1>2
<1>4. F[0] = Parsed(<<>>, data) /\ \A i \in 1..n : F[i] = NextRecord(F[i - 1], extended)
    <2> HIDE DEF F
    <2>1. 0 \in 0..n /\ \A i \in 1..n : i \in 0..n /\ i # 0
        OBVIOUS
    <2> QED BY <1>3, <2>1
<1> HIDE DEF F, Is
<1>5. F[n] = g[n]
    <2>1. ASSUME NEW i \in 1..n, F[i - 1] = g[i - 1] PROVE F[i] = g[i]
        BY <1>4, <2>1
    <2>2. F[0] = g[0]
        BY <1>4
    <2> QED BY <2>1, <2>2, SameLoop
<1> QED BY <1>1, <1>5


\* The state of the loop after each record: all of them read so far, if their
\* times exist, and the data behind them.
Times(m, i) == \A k \in 1..i : InRange(m.data.records[k].millis)

AfterRecord(m, f, i) ==
    IF i <= Len(m.data.records) /\ Times(m, i)
    THEN Parsed(First(m.data.records, i), f[i + 1] \o AvlTail(m))
    ELSE ParseError

Unjoins(f, parts) ==
    /\ f \in [1..(Len(parts) + 1) -> ByteStrings]
    /\ Joined(parts) = f[1] /\ f[Len(parts) + 1] = <<>>
    /\ \A k \in 1..Len(parts) : f[k] = parts[k] \o f[k + 1]

\* The strings of a packet's records.
LEMMA RecordStringIs ==
    ASSUME NEW m, AvlFits(m), NEW k \in 1..Len(m.data.records), NEW r, r = m.data.records[k],
           NEW order, order = m.orders[k], NEW idLen, idLen = IdLen(m.data.codec)
    PROVE  /\ idLen \in {1, 2} /\ RecordFits(r, order, idLen)
           /\ RecordStrings(m)[k] = RecordBytes(r, order, idLen)
           /\ RecordStrings(m)[k] \in ByteStrings
<1>1. idLen \in {1, 2}
    BY IdLenIs
<1>2. RecordFits(r, order, idLen)
    BY DEF AvlFits
<1>3. RecordStrings(m)[k] = RecordBytes(r, order, idLen)
    BY DEF RecordStrings
<1>4. RecordBytes(r, order, idLen) \in ByteStrings
    BY <1>1, <1>2, RecordTyped
<1> QED BY <1>1, <1>2, <1>3, <1>4

\* The records of a packet are a sequence.
LEMMA RecordsAre ==
    ASSUME NEW m, AvlFits(m), NEW records, records = m.data.records
    PROVE  /\ Len(records) \in Nat /\ records \in [1..Len(records) -> {records[k] : k \in 1..Len(records)}]
           /\ First(records, Len(records)) = records
           /\ m.data = [codec |-> m.data.codec, records |-> records]
<1>1. Len(records) \in Nat
    BY RecordStringsTyped
<1>2. records = [k \in 1..Len(records) |-> records[k]]
    BY DEF AvlFits
<1>3. m.data = [codec |-> m.data.codec, records |-> records]
    BY DEF AvlFits
<1> DEFINE n == Len(records)
<1>4. records = [k \in 1..n |-> records[k]]
    BY <1>2
<1> HIDE DEF n
<1>5. records \in [1..n -> {records[k] : k \in 1..n}] /\ First(records, n) = records
    BY <1>4 DEF First
<1> QED BY <1>1, <1>3, <1>5 DEF n

\* What a turn of the loop makes of a record, of an error, after an error.
LEMMA NextRecordStep ==
    ASSUME NEW v, NEW b, NEW extended, NEW r, NEW t
    PROVE  /\ _read_record(b, extended) = Parsed(r, t) =>
                 NextRecord(Parsed(v, b), extended) = Parsed(Append(v, r), t)
           /\ _read_record(b, extended) = ParseError => NextRecord(Parsed(v, b), extended) = ParseError
           /\ NextRecord(ParseError, extended) = ParseError
<1>1. Parsed(v, b).ok = TRUE /\ Parsed(v, b).value = v /\ Parsed(v, b).rest = b
    BY DEF Parsed
<1>2. Parsed(r, t).ok = TRUE /\ Parsed(r, t).value = r /\ Parsed(r, t).rest = t
    BY DEF Parsed
<1>3. ParseError.ok = FALSE
    BY DEF ParseError
<1>4. ASSUME _read_record(b, extended) = Parsed(r, t)
      PROVE  NextRecord(Parsed(v, b), extended) = Parsed(Append(v, r), t)
    BY <1>1, <1>2, <1>4, Zenon DEF NextRecord
<1>5. ASSUME _read_record(b, extended) = ParseError
      PROVE  NextRecord(Parsed(v, b), extended) = ParseError
    BY <1>1, <1>3, <1>5, Zenon DEF NextRecord
<1>6. NextRecord(ParseError, extended) = ParseError
    BY <1>3, Zenon DEF NextRecord
<1> QED BY <1>4, <1>5, <1>6

\* The times up to one record more.
LEMMA TimesStep ==
    ASSUME NEW m, NEW i \in Nat \ {0}
    PROVE  Times(m, i) <=> Times(m, i - 1) /\ InRange(m.data.records[i].millis)
<1> DEFINE P(k) == InRange(m.data.records[k].millis)
<1> HIDE DEF P
<1>1. (\A k \in 1..i : P(k)) <=> (\A k \in 1..(i - 1) : P(k)) /\ P(i)
    <2>1. 1..i = (1..(i - 1)) \cup {i}
        OBVIOUS
    <2> QED BY <2>1
<1> QED BY <1>1 DEF P, Times

\* AfterRecord takes the steps of the loop, past the last record too.
LEMMA AfterRecordStep ==
    ASSUME NEW m, AvlFits(m), NEW f, Unjoins(f, RecordStrings(m)), NEW i \in Nat \ {0}
    PROVE  AfterRecord(m, f, i) = NextRecord(AfterRecord(m, f, i - 1), m.data.codec = 142)
<1> DEFINE records == m.data.records
           parts == RecordStrings(m)
           n == Len(records)
           tail == AvlTail(m)
           extended == m.data.codec = 142
           idLen == IdLen(m.data.codec)
           a == AfterRecord(m, f, i - 1)
<1>1. n \in Nat /\ Len(parts) = n
    BY RecordStringsTyped
<1>2. extended = (idLen = 2)
    BY DEF IdLen
<1>3. tail \in ByteStrings
    BY AvlParts
<1>4. f \in [1..(n + 1) -> ByteStrings] /\ f[n + 1] = <<>> /\ \A k \in 1..n : f[k] = parts[k] \o f[k + 1]
    BY <1>1 DEF Unjoins
<1>5. AfterRecord(m, f, i) = IF i <= n /\ Times(m, i) THEN Parsed(First(records, i), f[i + 1] \o tail)
                             ELSE ParseError
    BY DEF AfterRecord
<1>6. a = IF i - 1 <= n /\ Times(m, i - 1) THEN Parsed(First(records, i - 1), f[i] \o tail) ELSE ParseError
    <2>1. (i - 1) + 1 = i
        OBVIOUS
    <2> QED BY <2>1 DEF AfterRecord
<1>7. Times(m, i) <=> Times(m, i - 1) /\ InRange(records[i].millis)
    BY TimesStep
<1>8. CASE ~(i - 1 <= n /\ Times(m, i - 1))
    <2>1. a = ParseError
        BY <1>6, <1>8
    <2>2. AfterRecord(m, f, i) = ParseError
        <3>1. ~(i <= n /\ Times(m, i))
            BY <1>1, <1>7, <1>8
        <3> QED BY <1>5, <3>1, Zenon
    <2>3. NextRecord(ParseError, extended) = ParseError
        BY NextRecordStep
    <2> QED BY <2>1, <2>2, <2>3
<1>9. CASE i - 1 <= n /\ Times(m, i - 1) /\ ~(i <= n)
    <2>1. i = n + 1
        BY <1>1, <1>9
    <2>2. <<>> \o tail = tail
        BY <1>3, ConcatEmptySeq DEF ByteStrings
    <2>3. f[i] \o tail = tail
        BY <1>4, <2>1, <2>2
    <2>4. Len(tail) < 24
        <3> DEFINE x == Len(m.extra)
        <3>1. Len(tail) = 1 + x /\ m.extra \in ByteStrings
            BY AvlParts
        <3>2. x < 23 /\ x \in Nat
            BY <3>1 DEF AvlFits, ByteStrings
        <3> HIDE DEF x, tail
        <3> QED BY <3>1, <3>2
    <2>5. _read_record(tail, extended) = ParseError
        BY <2>4, ShortIsNoRecord
    <2>6. a = Parsed(First(records, i - 1), tail)
        BY <1>6, <1>9, <2>3
    <2>7. NextRecord(Parsed(First(records, i - 1), tail), extended) = ParseError
        BY <2>5, NextRecordStep
    <2>8. AfterRecord(m, f, i) = ParseError
        BY <1>5, <1>9, Zenon
    <2> QED BY <2>6, <2>7, <2>8
<1>10. CASE i <= n /\ Times(m, i - 1)
    <2> DEFINE r == records[i]
               t == f[i + 1] \o tail
               v == First(records, i - 1)
               b == f[i] \o tail
    <2>1. i \in 1..n /\ i - 1 <= n /\ i + 1 \in 1..(n + 1)
        BY <1>1, <1>10
    <2>2. /\ idLen \in {1, 2} /\ RecordFits(r, m.orders[i], idLen)
          /\ parts[i] = RecordBytes(r, m.orders[i], idLen) /\ parts[i] \in ByteStrings
        BY <2>1, RecordStringIs
    <2>3. f[i] = parts[i] \o f[i + 1] /\ f[i + 1] \in ByteStrings
        BY <1>4, <2>1
    <2>4. t \in ByteStrings
        BY <1>3, <2>3, ConcatTyped, Zenon
    <2>5. b = parts[i] \o t
        <3>1. ASSUME NEW x \in ByteStrings, NEW y \in ByteStrings PROVE (x \o y) \o tail = x \o (y \o tail)
            BY <1>3, Associative
        <3>2. parts[i] \in ByteStrings
            BY <2>2
        <3> QED BY <2>3, <3>1, <3>2, Zenon
    <2>6. a = Parsed(v, b)
        BY <1>6, <1>10, <2>1
    <2>7. Append(v, r) = First(records, i)
        <3> DEFINE S == {records[k] : k \in 1..n}
        <3>1. records \in [1..n -> S]
            BY RecordsAre
        <3> HIDE DEF records, n, S
        <3> QED BY <1>1, <2>1, <3>1, AppendFirst
    <2> HIDE DEF b, t, v, a, r, extended, idLen, parts, records, n, tail
    <2> DEFINE order == m.orders[i]
    <2> HIDE DEF order
    <2>8. _read_record(RecordBytes(r, order, idLen) \o t, idLen = 2)
             = IF InRange(r.millis) THEN Parsed(r, t) ELSE ParseError
        <3>1. RecordFits(r, order, idLen) /\ idLen \in {1, 2}
            BY <2>2 DEF order
        <3> QED BY ONLY <2>4, <3>1, RecordIsRead, SMT
    <2>9. _read_record(b, extended) = IF InRange(r.millis) THEN Parsed(r, t) ELSE ParseError
        BY <1>2, <2>2, <2>5, <2>8 DEF order
    <2>10. CASE InRange(r.millis)
        <3>1. _read_record(b, extended) = Parsed(r, t)
            BY <2>9, <2>10
        <3>2. NextRecord(Parsed(v, b), extended) = Parsed(Append(v, r), t)
            BY <3>1, NextRecordStep
        <3>3. AfterRecord(m, f, i) = Parsed(First(records, i), t)
            BY <1>5, <1>7, <1>10, <2>10 DEF t, r
        <3>4. AfterRecord(m, f, i) = NextRecord(a, extended)
            BY <2>6, <2>7, <3>2, <3>3
        <3> QED BY <3>4 DEF a, extended
    <2>11. CASE ~InRange(r.millis)
        <3>1. _read_record(b, extended) = ParseError
            BY <2>9, <2>11
        <3>2. NextRecord(Parsed(v, b), extended) = ParseError
            BY <3>1, NextRecordStep
        <3>3. AfterRecord(m, f, i) = ParseError
            BY <1>5, <1>7, <1>10, <2>11 DEF r
        <3>4. AfterRecord(m, f, i) = NextRecord(a, extended)
            BY <2>6, <3>2, <3>3
        <3> QED BY <3>4 DEF a, extended
    <2> QED BY <2>10, <2>11
<1> QED BY <1>8, <1>9, <1>10

\* What the loop over the records of a packet ends with.
LEMMA RecordsAreRead ==
    ASSUME NEW m, AvlFits(m), NEW f, Unjoins(f, RecordStrings(m))
    PROVE  ReadRecords(Joined(RecordStrings(m)) \o AvlTail(m), m.count, m.data.codec = 142)
              = AfterRecord(m, f, m.count)
<1> DEFINE n == m.count
           data == Joined(RecordStrings(m)) \o AvlTail(m)
           extended == m.data.codec = 142
           g == [i \in 0..n |-> AfterRecord(m, f, i)]
<1>1. n \in Nat
    <2>1. n \in 0..255
        BY AvlParts
    <2> QED BY <2>1
<1>2. AfterRecord(m, f, 0) = Parsed(<<>>, data)
    <2>1. 0 <= Len(m.data.records)
        BY RecordStringsTyped
    <2>2. Times(m, 0)
        BY DEF Times
    <2>3. First(m.data.records, 0) = <<>>
        BY DEF First
    <2>4. f[0 + 1] = Joined(RecordStrings(m))
        BY DEF Unjoins
    <2> QED BY <2>1, <2>2, <2>3, <2>4 DEF AfterRecord
<1> HIDE DEF n, data, extended
<1>3. g[0] = Parsed(<<>>, data)
    BY <1>1, <1>2
<1>4. ASSUME NEW i \in 1..n PROVE g[i] = NextRecord(g[i - 1], extended)
    <2>1. i \in 0..n /\ i - 1 \in 0..n /\ i \in Nat \ {0}
        BY <1>1
    <2>2. AfterRecord(m, f, i) = NextRecord(AfterRecord(m, f, i - 1), extended)
        BY <2>1, AfterRecordStep DEF extended
    <2> QED BY <2>1, <2>2
<1>5. g[n] = AfterRecord(m, f, n)
    BY <1>1
<1> HIDE DEF g
<1>6. ReadsRecords(g, data, n, extended)
    BY <1>1, <1>3, <1>4 DEF ReadsRecords
<1>7. ReadRecords(data, n, extended) = g[n]
    BY ONLY <1>6, RecordsLoop, SMT
<1> QED BY <1>5, <1>7 DEF n, data, extended

\* Fewer records than there are leave more than a count behind.
LEMMA RecordsRemain ==
    ASSUME NEW m, AvlFits(m), NEW f, Unjoins(f, RecordStrings(m)), NEW i \in 1..Len(m.data.records), NEW x
    PROVE  f[i] \o AvlTail(m) # <<x>>
<1> DEFINE n == Len(m.data.records)
           parts == RecordStrings(m)
           t == f[i + 1] \o AvlTail(m)
           b == f[i] \o AvlTail(m)
           p == parts[i]
<1>1. n \in Nat /\ Len(parts) = n
    BY RecordStringsTyped
<1>2. AvlTail(m) \in ByteStrings
    BY AvlParts
<1>3. f[i] = parts[i] \o f[i + 1] /\ f[i + 1] \in ByteStrings
    <2>1. i + 1 \in 1..(n + 1)
        BY <1>1
    <2> HIDE DEF parts, n
    <2> QED BY <1>1, <2>1 DEF Unjoins, parts, n
<1>4. p \in ByteStrings /\ Len(p) \in Nat /\ Len(p) >= 24
    <2> DEFINE r == m.data.records[i]
               order == m.orders[i]
               idLen == IdLen(m.data.codec)
    <2>1. idLen \in {1, 2} /\ RecordFits(r, order, idLen) /\ p = RecordBytes(r, order, idLen)
        BY RecordStringIs
    <2> HIDE DEF r, order, idLen, p
    <2>2. /\ RecordBytes(r, order, idLen) \in ByteStrings
          /\ Len(RecordBytes(r, order, idLen)) \in Nat /\ Len(RecordBytes(r, order, idLen)) >= 24
        BY <2>1, RecordTyped
    <2> QED BY <2>1, <2>2
<1>5. b = p \o t /\ t \in ByteStrings
    <2>1. ASSUME NEW y \in ByteStrings, NEW z \in ByteStrings
          PROVE  (y \o z) \o AvlTail(m) = y \o (z \o AvlTail(m))
        BY <1>2, Associative
    <2>2. t \in ByteStrings
        BY <1>2, <1>3, ConcatTyped, Zenon
    <2> QED BY <1>3, <1>4, <2>1, <2>2, Zenon
<1> HIDE DEF b, p, t
<1>6. Len(b) = Len(p) + Len(t) /\ Len(t) \in Nat
    <2>1. IsString(p, Len(p))
        BY <1>4 DEF IsString
    <2> QED BY <1>4, <1>5, <2>1, InFront, Zenon
<1>7. Len(b) # 1
    <2> DEFINE y == Len(p)
               z == Len(t)
    <2>1. y \in Nat /\ y >= 24 /\ z \in Nat /\ Len(b) = y + z
        BY <1>4, <1>6
    <2> HIDE DEF y, z
    <2> QED BY <2>1
<1>8. Len(<<x>>) = 1
    OBVIOUS
<1>9. b # <<x>>
    BY <1>7, <1>8, Zenon
<1> QED BY <1>9 DEF b

\* The count at the end agrees with nothing behind it.
LEMMA TailAgrees ==
    ASSUME NEW m, AvlFits(m), NEW x
    PROVE  AvlTail(m) = <<x>> <=> m.trailing = x /\ m.extra = <<>>
<1>1. m.trailing \in 0..255 /\ m.extra \in ByteStrings
    BY AvlParts
<1>2. AvlTail(m) = <<m.trailing>> \o m.extra
    BY DEF AvlTail
<1>3. ASSUME NEW y \in 0..255, NEW e \in ByteStrings
      PROVE  <<y>> \o e = <<x>> <=> y = x /\ e = <<>>
    <2>1. <<y>> \in ByteStrings /\ Len(<<y>>) = 1
        BY OneByte
    <2>2. e \in Seq(0..255) /\ Len(e) \in Nat
        BY DEF ByteStrings
    <2>3. ASSUME e = <<>> PROVE <<y>> \o e = <<y>>
        BY <2>1, <2>3, ConcatEmptySeq DEF ByteStrings
    <2>4. ASSUME <<y>> \o e = <<x>> PROVE y = x /\ e = <<>>
        <3>1. Len(<<y>> \o e) = 1 + Len(e) /\ (<<y>> \o e)[1] = y
            BY <2>2
        <3>2. Len(<<x>>) = 1 /\ <<x>>[1] = x
            OBVIOUS
        <3>3. 1 + Len(e) = 1 /\ y = x
            BY <2>4, <3>1, <3>2
        <3>4. Len(e) = 0
            BY <2>2, <3>3
        <3>5. e = <<>>
            BY <2>2, <3>4, EmptySeq
        <3> QED BY <3>3, <3>5
    <2>5. <<y>> = <<x>> <=> y = x
        OBVIOUS
    <2> QED BY <2>3, <2>4, <2>5
<1> QED BY <1>1, <1>2, <1>3, Zenon

\* The records of a packet are read if its counts agree and its times exist.
CountsAndTimes(m) ==
    /\ m.count = Len(m.data.records) /\ m.trailing = m.count /\ m.extra = <<>>
    /\ Times(m, Len(m.data.records))

\* Too few, too many, a wrong count behind them or bytes behind that: nothing is read.
LEMMA RecordsResult ==
    ASSUME NEW m, AvlFits(m), NEW r,
           r = ReadRecords(Joined(RecordStrings(m)) \o AvlTail(m), m.count, m.data.codec = 142)
    PROVE  /\ CountsAndTimes(m) <=> r.ok /\ CountsAgree(m.count, r.rest)
           /\ CountsAndTimes(m) => r.value = m.data.records
<1> DEFINE n == Len(m.data.records)
           c == m.count
           parts == RecordStrings(m)
           tail == AvlTail(m)
<1>1. n \in Nat /\ parts \in Seq(ByteStrings) /\ Len(parts) = n
    BY RecordStringsTyped
<1>2. c \in Nat /\ tail \in ByteStrings
    <2>1. c \in 0..255 /\ tail \in ByteStrings
        BY AvlParts
    <2> QED BY <2>1
<1>3. PICK f : Unjoins(f, parts)
    <2> HIDE DEF parts
    <2> QED BY <1>1, JoinedSteps DEF Unjoins
<1>4. r = AfterRecord(m, f, c)
    BY <1>3, RecordsAreRead
<1>5. CASE ~(c <= n /\ Times(m, c))
    <2>1. r = ParseError
        BY <1>4, <1>5 DEF AfterRecord
    <2>2. ~r.ok
        BY <2>1 DEF ParseError
    <2>3. ~CountsAndTimes(m)
        BY <1>1, <1>2, <1>5 DEF CountsAndTimes
    <2> QED BY <2>2, <2>3
<1>6. CASE c <= n /\ Times(m, c)
    <2> DEFINE rest == f[c + 1] \o tail
    <2>1. r = Parsed(First(m.data.records, c), rest)
        BY <1>4, <1>6 DEF AfterRecord
    <2>2. r.ok = TRUE /\ r.value = First(m.data.records, c) /\ r.rest = rest
        BY <2>1 DEF Parsed
    <2>3. CASE c = n
        <3>1. f[c + 1] = <<>>
            BY <1>1, <1>3, <2>3 DEF Unjoins
        <3>2. <<>> \o tail = tail
            BY <1>2, ConcatEmptySeq DEF ByteStrings
        <3>3. rest = tail
            BY <3>1, <3>2
        <3>4. CountsAgree(c, r.rest) <=> m.trailing = c /\ m.extra = <<>>
            <4>1. AvlTail(m) = <<c>> <=> m.trailing = c /\ m.extra = <<>>
                BY TailAgrees, Zenon
            <4> QED BY <2>2, <3>3, <4>1, ZenonT(60) DEF CountsAgree
        <3>5. First(m.data.records, c) = m.data.records
            BY <2>3, RecordsAre
        <3> QED BY <1>6, <2>2, <2>3, <3>4, <3>5 DEF CountsAndTimes
    <2>4. CASE c # n
        <3>1. c + 1 \in 1..n
            BY <1>1, <1>2, <1>6, <2>4
        <3>2. rest # <<c>>
            BY <1>3, <3>1, RecordsRemain
        <3> QED BY <2>2, <2>4, <3>2 DEF CountsAgree, CountsAndTimes
    <2> QED BY <2>3, <2>4
<1> QED BY <1>5, <1>6

\* A data packet that arrives as it was sent.
LEMMA AvlDataFields ==
    ASSUME NEW m, AvlFits(m), NEW d, d = AvlData(m)
    PROVE  /\ d[1] = m.data.codec /\ d[2] = m.count
           /\ Drop(d, 2) = Joined(RecordStrings(m)) \o AvlTail(m)
<1> DEFINE h == AvlHead(m)
           t == Joined(RecordStrings(m)) \o AvlTail(m)
<1>1. h \in ByteStrings /\ Len(h) = 2 /\ h[1] = m.data.codec /\ h[2] = m.count
    BY AvlParts
<1>2. t \in ByteStrings
    <2>1. Joined(RecordStrings(m)) \in ByteStrings /\ AvlTail(m) \in ByteStrings
        BY AvlParts
    <2> QED BY <2>1, ConcatTyped, Zenon
<1>3. d = h \o t
    BY AvlTyped
<1> HIDE DEF h, t
<1>4. IsString(h, 2) /\ 2 \in Nat
    BY <1>1 DEF IsString
<1>5. Drop(d, 2) = t /\ Keeps(h, d)
    BY <1>2, <1>3, <1>4, InFront, ZenonT(60)
<1>6. At(d, 0, h)
    <2>1. At(h, 0, h)
        BY <1>1, AtWhole, Zenon
    <2> QED BY <1>5, <2>1, Zenon DEF Keeps
<1>7. d[0 + 1] = h[1] /\ d[0 + 2] = h[2]
    <2>1. 1 \in 1..Len(h) /\ 2 \in 1..Len(h)
        BY <1>1
    <2> QED BY <1>6, <2>1, AtByte
<1> QED BY <1>1, <1>5, <1>7 DEF t

\* A packet is not taken for a login.
LEMMA NotLogin ==
    ASSUME NEW b, NEW n \in Nat, IsString(b, 12 + n), At(b, 0, Zeros(4))
    PROVE  TeltonikaParse(b) = parse_avl_packet(b) /\ IsPrefix(Zeros(4), b)
<1>1. b \in ByteStrings /\ Len(b) = 12 + n /\ Len(b) \in Nat
    BY DEF IsString
<1>2. Zeros(4) \in ByteStrings /\ Len(Zeros(4)) = 4 /\ Zeros(4)[2] = 0
    BY PreambleIs
<1>3. b[0 + 2] = Zeros(4)[2]
    <2>1. 2 \in 1..Len(Zeros(4))
        BY <1>2
    <2> QED BY <2>1, AtByte
<1>4. SubSeq(b, 1, 2)[2] = 0
    BY <1>1, <1>2, <1>3 DEF ByteStrings
<1>5. <<0, 15>>[2] = 15
    OBVIOUS
<1>6. SubSeq(b, 1, 2) # <<0, 15>>
    <2>1. SubSeq(b, 1, 2)[2] # <<0, 15>>[2]
        BY <1>4, <1>5
    <2> QED BY <2>1, Zenon
<1>7. IsPrefix(Zeros(4), b)
    <2>1. Len(Zeros(4)) <= Len(b)
        <3>1. 4 <= 12 + n
            OBVIOUS
        <3> QED BY <1>1, <1>2, <3>1
    <2> QED BY <1>1, <1>2, <2>1, PrefixIs
<1> QED BY <1>6, <1>7 DEF TeltonikaParse

\* A packet is decoded if its codec is known, its counts agree and its times exist.
LEMMA AvlIsParsed ==
    ASSUME NEW m, AvlFits(m)
    PROVE  TeltonikaParse(AvlWire(m))
              = IF m.data.codec \in {8, 142} /\ CountsAndTimes(m) THEN m.data ELSE Refused
<1> DEFINE b == AvlWire(m)
           d == AvlData(m)
           n == Len(d)
           s == Bytes(crc16_ibm(d), 4)
           r == ReadRecords(Drop(d, 2), d[2], d[1] = 142)
<1>1. /\ IsString(b, 12 + n) /\ At(b, 0, Zeros(4)) /\ At(b, 4, Bytes(n, 4)) /\ At(b, 8, d)
      /\ At(b, 8 + n, s) /\ IsString(Bytes(n, 4), 4) /\ IsString(s, 4)
      /\ BigEndian(Bytes(n, 4)) = n /\ BigEndian(s) = crc16_ibm(d)
    BY AvlWireFields, Zenon
<1>2. n \in Nat /\ n >= 3 /\ IsString(d, n)
    BY AvlTyped, Zenon DEF IsString
<1>3. d[1] = m.data.codec /\ d[2] = m.count /\ Drop(d, 2) = Joined(RecordStrings(m)) \o AvlTail(m)
    BY AvlDataFields
<1>4. /\ CountsAndTimes(m) <=> r.ok /\ CountsAgree(m.count, r.rest)
      /\ CountsAndTimes(m) => r.value = m.data.records
    <2>1. r = ReadRecords(Joined(RecordStrings(m)) \o AvlTail(m), m.count, m.data.codec = 142)
        BY <1>3
    <2> HIDE DEF r
    <2> QED BY ONLY AvlFits(m), <2>1, RecordsResult, Zenon
<1>5. m.data = [codec |-> m.data.codec, records |-> m.data.records]
    BY RecordsAre
<1> HIDE DEF b, d, n, s, r
<1>6. Len(b) = 12 + n /\ ~(Len(b) < 15)
    BY <1>1, <1>2 DEF IsString
<1>7. TeltonikaParse(b) = parse_avl_packet(b) /\ IsPrefix(Zeros(4), b)
    BY <1>1, <1>2, NotLogin
<1>8. BigEndian(Slice(b, 4, 8)) = n
    <2>1. Slice(b, 4, 8) = Bytes(n, 4)
        BY <1>1, FieldIs
    <2> QED BY <1>1, <2>1
<1>9. Slice(b, 8, 8 + n) = d
    BY <1>1, <1>2, FieldIs
<1>10. Drop(b, 8 + n) = s
    <2>1. Len(b) = (8 + n) + Len(s)
        BY <1>1, <1>2, <1>6 DEF IsString
    <2> QED BY <1>1, <2>1, DropIs
<1>11. CrcMatches(d, BigEndian(Drop(b, 8 + n)))
    BY <1>1, <1>10 DEF CrcMatches
<1>12. parse_avl_packet(b) =
          IF d[1] \notin {8, 142} THEN Refused
          ELSE IF ~r.ok THEN Refused
          ELSE IF ~CountsAgree(d[2], r.rest) THEN Refused
          ELSE [codec |-> d[1], records |-> r.value]
    BY <1>6, <1>7, <1>8, <1>9, <1>11 DEF parse_avl_packet, r
<1>13. CASE m.data.codec \in {8, 142} /\ CountsAndTimes(m)
    <2>1. parse_avl_packet(b) = [codec |-> m.data.codec, records |-> m.data.records]
        BY <1>3, <1>4, <1>12, <1>13
    <2> QED BY <1>5, <1>7, <1>13, <2>1 DEF b
<1>14. CASE ~(m.data.codec \in {8, 142} /\ CountsAndTimes(m))
    <2>1. parse_avl_packet(b) = Refused
        BY <1>3, <1>4, <1>12, <1>14
    <2> QED BY <1>7, <1>14, <2>1 DEF b
<1> QED BY <1>13, <1>14

\* And the framer has let it through: its size is allowed.
LEMMA AvlIsUnderstood ==
    ASSUME NEW m, AvlFits(m)
    PROVE  Understood(AvlWire(m)) = IF ValidAvl(m) THEN m.data ELSE Refused
<1> DEFINE b == AvlWire(m)
           n == Len(AvlData(m))
           Good == m.data.codec \in {8, 142} /\ CountsAndTimes(m)
<1>1. /\ IsString(b, 12 + n) /\ At(b, 0, Zeros(4)) /\ At(b, 4, Bytes(n, 4))
      /\ IsString(Bytes(n, 4), 4) /\ BigEndian(Bytes(n, 4)) = n
    BY AvlWireFields, Zenon
<1>2. n \in Nat /\ n >= 3
    BY AvlTyped, Zenon
<1>3. TeltonikaParse(b) = IF Good THEN m.data ELSE Refused
    BY AvlIsParsed
<1>4. ValidAvl(m) <=> Good /\ n <= MaxPacket
    BY DEF ValidAvl, CountsAndTimes, Times
<1> HIDE DEF b, n, Good
<1>5. LegalLength(n) <=> n <= MaxPacket
    BY <1>2, SizesAssumption DEF LegalLength
<1>6. BigEndian(Slice(b, 4, 8)) = n
    <2>1. Slice(b, 4, 8) = Bytes(n, 4)
        BY <1>1, FieldIs
    <2> QED BY <1>1, <2>1
<1>7. TeltonikaTurn(b) = IF LegalLength(n) THEN Take(Len(b), <<b>>) ELSE Fail
    BY <1>1, <1>2, <1>6, PacketTurn
<1>8. b \in ByteStrings
    BY <1>1 DEF IsString
<1>9. CASE n <= MaxPacket
    <2>1. Understood(b) = TeltonikaParse(b)
        BY <1>5, <1>7, <1>8, <1>9, TeltonikaTaken
    <2> QED BY <1>3, <1>4, <1>9, <2>1 DEF b
<1>10. CASE ~(n <= MaxPacket)
    <2>1. Understood(b) = Refused
        BY <1>5, <1>7, <1>8, <1>10, TeltonikaTaken
    <2> QED BY <1>4, <1>10, <2>1 DEF b
<1> QED BY <1>9, <1>10

\* A login, as it was sent.
LoginBytes(imei) == <<0, 15>> \o [k \in 1..15 |-> 48 + imei[k]]

\* Its bytes.
LEMMA LoginBytesAre ==
    ASSUME NEW imei \in Imeis, NEW b, b = LoginBytes(imei)
    PROVE  /\ b \in ByteStrings /\ Len(b) = 17 /\ b[1] = 0 /\ b[2] = 15
           /\ \A k \in 1..15 : b[k + 2] = 48 + imei[k] /\ b[k + 2] \in 48..57
<1> DEFINE h == <<0, 15>>
           t == [k \in 1..15 |-> 48 + imei[k]]
<1>1. \A k \in 1..15 : imei[k] \in 0..9
    BY DEF Imeis
<1>2. t \in [1..15 -> 0..255] /\ \A k \in 1..15 : t[k] = 48 + imei[k] /\ t[k] \in 48..57
    BY <1>1
<1> HIDE DEF t
<1>3. t \in ByteStrings /\ Len(t) = 15
    <2>1. 15 \in Nat
        OBVIOUS
    <2>2. t \in Seq(0..255) /\ Len(t) = 15
        <3> DEFINE S == 0..255
        <3>1. t \in [1..15 -> S]
            BY <1>2
        <3> HIDE DEF S
        <3>2. t \in Seq(S) /\ Len(t) = 15
            BY <2>1, <3>1, FunctionIsSeq
        <3> QED BY <3>2 DEF S
    <2> QED BY <2>2 DEF ByteStrings
<1>4. IsString(h, 2) /\ h[1] = 0 /\ h[2] = 15
    <2>1. 0 \in 0..255 /\ 15 \in 0..255
        OBVIOUS
    <2> QED BY <2>1, TwoByteStrings, Zenon
<1>5. b = h \o t
    BY DEF LoginBytes, t
<1> HIDE DEF h
<1>6. IsString(t, 15)
    BY <1>3 DEF IsString
<1>7. IsString(b, 2 + 15) /\ At(b, 2, t) /\ Keeps(h, b)
    BY <1>4, <1>5, <1>6, AppendAt, Zenon
<1>8. b \in ByteStrings /\ Len(b) = 17
    BY <1>7 DEF IsString
<1>9. At(b, 0, h)
    <2>1. At(h, 0, h)
        BY <1>4, AtWhole, Zenon DEF IsString
    <2> QED BY <1>7, <2>1, Zenon DEF Keeps
<1>10. b[1] = 0 /\ b[2] = 15
    <2>1. 1 \in 1..Len(h) /\ 2 \in 1..Len(h)
        BY <1>4 DEF IsString
    <2>2. b[0 + 1] = h[1] /\ b[0 + 2] = h[2]
        BY <1>9, <2>1, AtByte
    <2> QED BY <1>4, <2>2
<1>11. ASSUME NEW k \in 1..15 PROVE b[k + 2] = 48 + imei[k] /\ b[k + 2] \in 48..57
    <2>1. k \in 1..Len(t)
        BY <1>3
    <2>2. b[2 + k] = t[k]
        BY <1>7, <2>1, AtByte
    <2>3. 2 + k = k + 2
        OBVIOUS
    <2> QED BY <1>2, <2>2, <2>3
<1> QED BY <1>8, <1>10, <1>11

\* It is framed and read.
LEMMA LoginIsUnderstood ==
    ASSUME NEW imei \in Imeis, NEW b, b = LoginBytes(imei)
    PROVE  Understood(b) = [imei |-> imei]
<1>1. /\ b \in ByteStrings /\ Len(b) = 17 /\ b[1] = 0 /\ b[2] = 15
      /\ \A k \in 1..15 : b[k + 2] = 48 + imei[k] /\ b[k + 2] \in 48..57
    BY LoginBytesAre
<1>2. PreambleLen = 4 /\ LoginLen = 17
    BY FieldsAssumption
<1>3. IsString(<<0, 15>>, 2) /\ <<0, 15>>[1] = 0 /\ <<0, 15>>[2] = 15
    <2>1. 0 \in 0..255 /\ 15 \in 0..255
        OBVIOUS
    <2> QED BY <2>1, TwoByteStrings, Zenon
<1>4. At(b, 0, <<0, 15>>)
    <2>1. \A k \in 1..2 : b[0 + k] = <<0, 15>>[k]
        BY <1>1, <1>3
    <2>2. 0 + 2 <= 17
        OBVIOUS
    <2> QED BY <1>1, <1>3, <2>1, <2>2 DEF At, IsString
<1>13. SubSeq(b, 1, 2) = <<0, 15>>
    <2>2. Slice(b, 0, 2) = <<0, 15>>
        BY <1>3, <1>4, FieldIs
    <2> QED BY <2>2 DEF Slice
<1>5. IsPrefix(<<0, 15>>, b)
    <2>2. Len(<<0, 15>>) <= Len(b)
        BY <1>1
    <2> QED BY <1>1, <1>3, <1>4, <2>2, PrefixIs DEF IsString
<1>6. ~IsPrefix(Zeros(4), b)
    <2>1. Zeros(4) \in ByteStrings /\ Len(Zeros(4)) = 4 /\ Zeros(4)[2] = 0
        BY PreambleIs
    <2>2. Len(Zeros(4)) <= Len(b) /\ 2 \in 1..Len(Zeros(4))
        <3>1. 4 <= 17 /\ 2 \in 1..4
            OBVIOUS
        <3> QED BY <1>1, <2>1, <3>1, Zenon
    <2>3. IsPrefix(Zeros(4), b) => At(b, 0, Zeros(4))
        BY <1>1, <2>1, <2>2, PrefixIs
    <2>4. At(b, 0, Zeros(4)) => b[0 + 2] = 0
        BY <2>1, <2>2, AtByte
    <2> QED BY <1>1, <2>3, <2>4
<1>7. GoodLogin(b)
    <2> DEFINE d == SubSeq(b, 3, 17)
    <2>1. Len(d) = 15 /\ \A k \in 1..15 : d[k] = b[k + 2]
        BY <1>1 DEF ByteStrings
    <2> HIDE DEF d
    <2>2. \A k \in 1..Len(d) : d[k] \in 48..57
        BY <1>1, <2>1
    <2> QED BY <1>2, <2>2 DEF GoodLogin, Digits, d
<1>8. SubSeq(b, 1, 17) = b
    BY <1>1 DEF ByteStrings
<1>9. TeltonikaTurn(b) = Take(Len(b), <<b>>)
    BY <1>1, <1>2, <1>5, <1>6, <1>7, <1>8 DEF TeltonikaTurn
<1>10. TeltonikaParse(b) = [imei |-> [k \in 1..15 |-> b[k + 2] - 48]]
    BY <1>1, <1>2, <1>13 DEF TeltonikaParse
<1>11. [k \in 1..15 |-> b[k + 2] - 48] = imei
    <2>1. ASSUME NEW k \in 1..15 PROVE b[k + 2] - 48 = imei[k]
        <3>1. imei[k] \in 0..9
            BY DEF Imeis
        <3> QED BY <1>1, <3>1
    <2>2. imei = [k \in 1..15 |-> imei[k]]
        BY DEF Imeis
    <2> QED BY <2>1, <2>2
<1>12. Understood(b) = TeltonikaParse(b)
    BY <1>1, <1>9, TeltonikaTaken
<1> QED BY <1>10, <1>11, <1>12

\* What has been made of a message that arrived as it was sent.
LEMMA TeltonikaArrived ==
    ASSUME DecodingInv, Arrived("TELTONIKA")
    PROVE  /\ msg.kind \in {"login", "avl"}
           /\ msg.kind = "login" => got = msg.data
           /\ msg.kind = "avl" => got = IF ValidAvl(msg) THEN msg.data ELSE Refused
<1>1. got # None /\ damaged = 0 /\ msg.family = "TELTONIKA"
    BY DEF Arrived
<1>2. msg \in Samples /\ wire = Wire(msg)
    BY <1>1 DEF DecodingInv, MessageInv, WireInv
<1>3. got = Understood(wire)
    BY <1>1 DEF DecodingInv, HeardInv
<1>4. /\ msg.kind \in {"login", "avl"}
      /\ msg.kind = "login" => msg.data \in [imei : Imeis]
      /\ msg.kind = "avl" => AvlFits(msg)
    BY <1>1, <1>2, SamplesAssumption DEF Fitting
<1>5. ASSUME msg.kind = "login" PROVE got = msg.data
    <2> DEFINE imei == msg.data.imei
    <2>1. imei \in Imeis /\ msg.data = [imei |-> imei]
        BY <1>4, <1>5
    <2>2. wire = LoginBytes(imei)
        BY <1>1, <1>2, <1>5 DEF Wire, LoginBytes
    <2> HIDE DEF imei
    <2>3. Understood(wire) = [imei |-> imei]
        BY <2>1, <2>2, LoginIsUnderstood, Zenon
    <2> QED BY <1>3, <2>1, <2>3
<1>6. ASSUME msg.kind = "avl" PROVE got = IF ValidAvl(msg) THEN msg.data ELSE Refused
    <2>1. wire = AvlWire(msg)
        BY <1>1, <1>2, <1>6 DEF Wire
    <2> QED BY <1>3, <1>4, <1>6, <2>1, AvlIsUnderstood
<1> QED BY <1>3, <1>4, <1>5, <1>6

(***************************************************************************)
(* Every Teltonika packet and login a device can send, and not only those   *)
(* of the run: parse_avl_packet gives back its records unchanged, in either *)
(* codec, with any number of IO elements of any size, coordinates of either *)
(* sign included; and it refuses the packet as a whole if a count, the      *)
(* codec, the size or a time cannot be (TeltonikaIsRead).                   *)
(***************************************************************************)
THEOREM TeltonikaRoundTrip == DecodingSpec => []TeltonikaIsRead
<1>1. ASSUME DecodingInv PROVE TeltonikaIsRead
    <2> SUFFICES ASSUME Arrived("TELTONIKA") PROVE ReadIf(msg.kind = "avl" => ValidAvl(msg))
        BY DEF TeltonikaIsRead
    <2>1. /\ msg.kind \in {"login", "avl"}
          /\ msg.kind = "login" => got = msg.data
          /\ msg.kind = "avl" => got = IF ValidAvl(msg) THEN msg.data ELSE Refused
        BY <1>1, TeltonikaArrived
    <2> QED BY <2>1 DEF ReadIf
<1> QED BY <1>1, DecodingInvariant, PTL

(***************************************************************************)
(* Of whatever family, every message of its format and every command is     *)
(* read by its receiver as it was meant, but for the day of a GPS103 report *)
(* from a zone beyond the half day, or refused as a whole (DecodedIsSent):  *)
(* Gt06RoundTrip, Gps103RoundTrip, TeltonikaRoundTrip, CommandRoundTrip.    *)
(***************************************************************************)
THEOREM RoundTrip == DecodingSpec => []DecodedIsSent
<1>1. Gt06IsRead /\ Gps103IsRead /\ TeltonikaIsRead /\ CommandIsRead => DecodedIsSent
    BY DEF DecodedIsSent
<1> QED BY <1>1, Gt06RoundTrip, Gps103RoundTrip, TeltonikaRoundTrip, CommandRoundTrip, PTL

(***************************************************************************)
(* The answer to every GT06 frame, parsed or refused: build_ack gives a     *)
(* whole frame with the protocol and the serial number of the frame it      *)
(* answers (AckMatches).                                                    *)
(***************************************************************************)
THEOREM Acknowledged == DecodingSpec => []AckMatches
<1>1. ASSUME DecodingInv PROVE AckMatches
    BY <1>1, Gt06Acknowledged DEF AckMatches
<1> QED BY <1>1, DecodingInvariant, PTL

(***************************************************************************)
(* Whatever text a GT06 information frame or command response carries, the  *)
(* parsers find exactly that text, behind a length of one byte and of two.  *)
(***************************************************************************)
THEOREM TextIsFound ==
    ASSUME NEW m, Gt06Fits(m), m.kind \in {"text", "response"}
    PROVE  Payload(Gt06Wire(m)) = m.text
<1> DEFINE b == Gt06Wire(m)
           c == Content(m)
           n == Len(c)
           w == LengthWidth(m)
<1>1. /\ n \in Nat /\ w \in {1, 2} /\ IsString(b, w + 9 + n) /\ At(b, w + 3, c)
      /\ IsLong(b) <=> m.long
    BY Gt06WireFields, Zenon
<1>2. c \in ByteStrings /\ m.long \in BOOLEAN
    <2>1. c \in ByteStrings
        BY ONLY Gt06Fits(m), ContentIs
    <2>2. m.long \in BOOLEAN
        BY ONLY Gt06Fits(m), KindIs
    <2> QED BY <2>1, <2>2
<1>3. c = m.text
    BY DEF Content
<1>4. (IF IsLong(b) THEN 5 ELSE 4) = w + 3
    BY <1>1, <1>2 DEF LengthWidth
<1> HIDE DEF b, c, n, w
<1>5. Len(b) - 6 = (w + 3) + n /\ IsString(c, n)
    <2>1. ASSUME NEW x \in {1, 2}, NEW y \in Nat PROVE (x + 9 + y) - 6 = (x + 3) + y
        OBVIOUS
    <2>2. Len(b) - 6 = (w + 9 + n) - 6
        BY <1>1 DEF IsString
    <2> QED BY <1>1, <1>2, <2>1, <2>2, Zenon DEF IsString, n
<1>6. Slice(b, w + 3, Len(b) - 6) = c
    BY <1>1, <1>5, FieldIs
<1>7. Payload(b) = c
    BY <1>4, <1>6, Zenon DEF Payload
<1> QED BY <1>3, <1>7 DEF b
=============================================================================
