---------------------------- MODULE LossyTokens ----------------------------
(***************************************************************************)
(* How the modes and the coefficients of a macroblock are read, one binary  *)
(* decision after another: read_pred4x4_mode, decode_mb_mode and           *)
(* decode_block_coeffs of src/vp8/mod.rs, get_tree and get_coeff of        *)
(* src/vp8/rac.rs.  The walks are unrolled in the code, with a branch for   *)
(* each decision; the format gives them as trees.                          *)
(*                                                                         *)
(* The decisions are a sequence of <<probability, bit>>; a probability is  *)
(* named by where it is found.  A reader that asks for another probability *)
(* than the next one in the sequence has gone wrong: it answers Lost.      *)
(***************************************************************************)
EXTENDS Integers, Sequences

Lost == [ok |-> FALSE]

Asked(d, p) == d # <<>> /\ d[1][1] = p
Bit(d)      == d[1][2]

----------------------------------------------------------------------------
(* Trees.                                                                  *)

(* The modes of a luma block, and those of a macroblock's luma or chroma.   *)
Ve == 0
He == 1
Dc == 2
Ld == 3
Rd == 4
Vr == 5
Hd == 6
Vl == 7
Hu == 8
Tm == 9
MbDc == 0
MbHe == 1
MbVe == 2
MbTm == 3
ModeI4 == 4

(* Nodes are numbered from 0, at index 1; a leaf is its mode, negated.     *)
Pred4x4Tree   == <<<<-Dc, 1>>, <<-Tm, 2>>, <<-Ve, 3>>, <<4, 6>>, <<-He, 5>>,
                   <<-Rd, -Vr>>, <<-Ld, 7>>, <<-Vl, 8>>, <<-Hd, -Hu>>>>
Pred16x16Tree == <<<<-ModeI4, 1>>, <<2, 3>>, <<-MbDc, -MbVe>>, <<-MbHe, -MbTm>>>>
PredChroma    == <<<<-MbDc, 1>>, <<-MbVe, 2>>, <<-MbHe, -MbTm>>>>
Segments      == <<<<1, 2>>, <<0, -1>>, <<-2, -3>>>>

RECURSIVE WalkTree(_, _, _)
WalkTree(tree, node, d) ==
    IF ~Asked(d, node) THEN Lost
    ELSE LET next == tree[node + 1][Bit(d) + 1]
         IN IF next > 0 THEN WalkTree(tree, next, Tail(d))
            ELSE [ok |-> TRUE, value |-> -next, rest |-> Tail(d)]

(* Every way down a tree.                                                  *)
RECURSIVE Paths(_, _)
Paths(tree, node) ==
    UNION {LET next == tree[node + 1][b + 1]
           IN IF next > 0
              THEN {<<<<node, b>>>> \o p : p \in Paths(tree, next)}
              ELSE {<<<<node, b>>>>} : b \in {0, 1}}

(* What an unrolled walk has read, and what is left.                       *)
Leaf(d, v) == [ok |-> TRUE, value |-> v, rest |-> d]

ReadPred4x4Mode(d) ==
    LET at(k) == SubSeq(d, k, Len(d))
        is(k, p) == k <= Len(d) /\ d[k][1] = p
        no(k) == d[k][2] = 0
    IN IF ~is(1, 0) THEN Lost
       ELSE IF no(1) THEN Leaf(at(2), Dc)
       ELSE IF ~is(2, 1) THEN Lost
       ELSE IF no(2) THEN Leaf(at(3), Tm)
       ELSE IF ~is(3, 2) THEN Lost
       ELSE IF no(3) THEN Leaf(at(4), Ve)
       ELSE IF ~is(4, 3) THEN Lost
       ELSE IF no(4)
            THEN IF ~is(5, 4) THEN Lost
                 ELSE IF no(5) THEN Leaf(at(6), He)
                 ELSE IF ~is(6, 5) THEN Lost
                 ELSE IF no(6) THEN Leaf(at(7), Rd) ELSE Leaf(at(7), Vr)
       ELSE IF ~is(5, 6) THEN Lost
       ELSE IF no(5) THEN Leaf(at(6), Ld)
       ELSE IF ~is(6, 7) THEN Lost
       ELSE IF no(6) THEN Leaf(at(7), Vl)
       ELSE IF ~is(7, 8) THEN Lost
       ELSE IF no(7) THEN Leaf(at(8), Hd) ELSE Leaf(at(8), Hu)

(* The segment, the luma mode, and the chroma mode of decode_mb_mode.      *)
ReadSegment(d) ==
    IF ~Asked(d, 0) THEN Lost
    ELSE LET e == Tail(d)   p == IF Bit(d) = 0 THEN 1 ELSE 2
         IN IF ~Asked(e, p) THEN Lost
            ELSE Leaf(Tail(e), IF p = 1 THEN (IF Bit(e) = 0 THEN 0 ELSE 1)
                                        ELSE (IF Bit(e) = 0 THEN 2 ELSE 3))

ReadLumaMode(d) ==
    IF ~Asked(d, 0) THEN Lost
    ELSE IF Bit(d) = 0 THEN Leaf(Tail(d), ModeI4)
    ELSE LET e == Tail(d)
         IN IF ~Asked(e, 1) THEN Lost
            ELSE LET f == Tail(e)   p == IF Bit(e) = 0 THEN 2 ELSE 3
                 IN IF ~Asked(f, p) THEN Lost
                    ELSE Leaf(Tail(f),
                              CASE p = 2 /\ Bit(f) = 0 -> MbDc [] p = 2 /\ Bit(f) = 1 -> MbVe
                                [] p = 3 /\ Bit(f) = 0 -> MbHe  [] p = 3 /\ Bit(f) = 1 -> MbTm)

ReadChromaMode(d) ==
    IF ~Asked(d, 0) THEN Lost
    ELSE IF Bit(d) = 0 THEN Leaf(Tail(d), MbDc)
    ELSE LET e == Tail(d)
         IN IF ~Asked(e, 1) THEN Lost
            ELSE IF Bit(e) = 0 THEN Leaf(Tail(e), MbVe)
            ELSE LET f == Tail(e)
                 IN IF ~Asked(f, 2) THEN Lost
                    ELSE Leaf(Tail(f), IF Bit(f) = 0 THEN MbHe ELSE MbTm)

(* The unrolled walks ask for the probabilities the trees name and reach   *)
(* their leaves, down every path, and read nothing past it.                *)
TreesRight ==
    /\ \A p \in Paths(Pred4x4Tree, 0) : ReadPred4x4Mode(p) = WalkTree(Pred4x4Tree, 0, p)
    /\ \A p \in Paths(Segments, 0) : ReadSegment(p) = WalkTree(Segments, 0, p)
    /\ \A p \in Paths(Pred16x16Tree, 0) : ReadLumaMode(p) = WalkTree(Pred16x16Tree, 0, p)
    /\ \A p \in Paths(PredChroma, 0) : ReadChromaMode(p) = WalkTree(PredChroma, 0, p)

----------------------------------------------------------------------------
(* Coefficients.                                                           *)

CatBits == <<1, 2, 3, 4, 5, 11>>

(* get_coeff: the bits of a category, most significant first, the k-th in  *)
(* the category's k-th probability.                                        *)
RECURSIVE GetCoeff(_, _, _, _)
GetCoeff(d, cat, k, v) ==
    IF k > CatBits[cat] THEN Leaf(d, v)
    ELSE IF ~Asked(d, <<"cat", cat, k>>) THEN Lost
    ELSE GetCoeff(Tail(d), cat, k + 1, 2 * v + Bit(d))

Plus(r, v) == IF ~r.ok THEN Lost ELSE [r EXCEPT !.value = @ + v]

(* The magnitude, past the decision that it is not zero; row is where the  *)
(* probabilities are found, [i, ctx].                                      *)
Magnitude(d0, row) ==
    LET P(k) == <<row, k>>
        Go(d, k, no, yes) == IF ~Asked(d, P(k)) THEN Lost
                             ELSE IF Bit(d) = 0 THEN no ELSE yes
        d1 == Tail(d0)   d2 == Tail(d1)   d3 == Tail(d2)   d4 == Tail(d3)
    IN Go(d0, 2, Leaf(d1, 1),
       Go(d1, 3,
          Go(d2, 4, Leaf(d3, 2), Go(d3, 5, Leaf(d4, 3), Leaf(d4, 4))),
          Go(d2, 6,
             Go(d3, 7, Plus(GetCoeff(d4, 1, 1, 0), 5), Plus(GetCoeff(d4, 2, 1, 0), 7)),
             Go(d3, 8,
                Go(d4, 9, Plus(GetCoeff(Tail(d4), 3, 1, 0), 3 + 8),
                          Plus(GetCoeff(Tail(d4), 4, 1, 0), 3 + 16)),
                Go(d4, 10, Plus(GetCoeff(Tail(d4), 5, 1, 0), 3 + 32),
                           Plus(GetCoeff(Tail(d4), 6, 1, 0), 3 + 64))))))

Zigzag == <<0, 1, 4, 8, 5, 2, 3, 6, 9, 12, 13, 10, 7, 11, 14, 15>>

(* decode_block_coeffs, from the decision that a coefficient follows at i:  *)
(* [n, block, rest], n one past the last coefficient.  "fresh" is whether   *)
(* the decision that the block goes on is still to be made.                *)
RECURSIVE Coeffs(_, _, _, _, _)
Coeffs(d, i, ctx, block, fresh) ==
    LET row == <<i, ctx>>
    IN IF fresh /\ ~Asked(d, <<row, 0>>) THEN Lost
       ELSE IF fresh /\ Bit(d) = 0 THEN Leaf(Tail(d), [n |-> i, block |-> block])
       ELSE LET e == IF fresh THEN Tail(d) ELSE d
            IN IF ~Asked(e, <<row, 1>>) THEN Lost
               ELSE IF Bit(e) = 0
                    THEN IF i + 1 = 16 THEN Leaf(Tail(e), [n |-> 16, block |-> block])
                         ELSE Coeffs(Tail(e), i + 1, 0, block, FALSE)
               ELSE LET m == Magnitude(Tail(e), row)
                    IN IF ~m.ok \/ ~Asked(m.rest, "sign") THEN Lost
                       ELSE LET v == IF Bit(m.rest) = 0 THEN m.value ELSE -m.value
                                b == [block EXCEPT ![Zigzag[i + 1]] = v]
                                f == Tail(m.rest)
                            IN IF i + 1 = 16 THEN Leaf(f, [n |-> 16, block |-> b])
                               ELSE Coeffs(f, i + 1, IF m.value = 1 THEN 1 ELSE 2, b, TRUE)

NoCoeffs == [k \in 0..15 |-> 0]

\* A block without coefficients that ends where it starts.
DecodeBlockCoeffsFrom(d, start, ctx) == Coeffs(d, start, ctx, NoCoeffs, TRUE)

(* A block whose first decision is no has no coefficients: n is 0 even     *)
(* when it starts at 1.                                                    *)
DecodeBlockCoeffs(d, start, ctx) ==
    IF Asked(d, <<<<start, ctx>>, 0>>) /\ Bit(d) = 0
    THEN Leaf(Tail(d), [n |-> 0, block |-> NoCoeffs])
    ELSE Coeffs(d, start, ctx, NoCoeffs, TRUE)

----------------------------------------------------------------------------
(* The format: a coefficient is a token of the tree below, the extra bits  *)
(* of its category and a sign; the branch "end" is not there after a zero.  *)

TokenBits ==
    [end |-> <<<<0, 0>>>>,
     zero |-> <<<<0, 1>>, <<1, 0>>>>,
     one |-> <<<<0, 1>>, <<1, 1>>, <<2, 0>>>>,
     two |-> <<<<0, 1>>, <<1, 1>>, <<2, 1>>, <<3, 0>>, <<4, 0>>>>,
     three |-> <<<<0, 1>>, <<1, 1>>, <<2, 1>>, <<3, 0>>, <<4, 1>>, <<5, 0>>>>,
     four |-> <<<<0, 1>>, <<1, 1>>, <<2, 1>>, <<3, 0>>, <<4, 1>>, <<5, 1>>>>]

CategoryBits ==
    LET high == <<<<0, 1>>, <<1, 1>>, <<2, 1>>, <<3, 1>>>>
    IN <<high \o <<<<6, 0>>, <<7, 0>>>>,
         high \o <<<<6, 0>>, <<7, 1>>>>,
         high \o <<<<6, 1>>, <<8, 0>>, <<9, 0>>>>,
         high \o <<<<6, 1>>, <<8, 0>>, <<9, 1>>>>,
         high \o <<<<6, 1>>, <<8, 1>>, <<10, 0>>>>,
         high \o <<<<6, 1>>, <<8, 1>>, <<10, 1>>>>>>

CategoryFrom == <<5, 7, 11, 19, 35, 67, 67 + 2048>>

Abs(v) == IF v < 0 THEN -v ELSE v

Coded(v, row, afterZero) ==
    LET a == Abs(v)
        cat == CHOOSE c \in 1..6 : CategoryFrom[c] <= a /\ a < CategoryFrom[c + 1]
        token == CASE a = 0 -> TokenBits.zero  [] a = 1 -> TokenBits.one
                   [] a = 2 -> TokenBits.two   [] a = 3 -> TokenBits.three
                   [] a = 4 -> TokenBits.four  [] a > 4 -> CategoryBits[cat]
        named == [k \in DOMAIN token |-> <<<<row, token[k][1]>>, token[k][2]>>]
        bits == CatBits[cat]
        extra == IF a <= 4 THEN <<>>
                 ELSE [k \in 1..bits |->
                         <<<<"cat", cat, k>>,
                           ((a - CategoryFrom[cat]) \div 2 ^ (bits - k)) % 2>>]
        sign == IF a = 0 THEN <<>> ELSE <<<<"sign", IF v < 0 THEN 1 ELSE 0>>>>
    IN (IF afterZero THEN Tail(named) ELSE named) \o extra \o sign

ContextAfter(v) == IF Abs(v) > 1 THEN 2 ELSE Abs(v)

(* The decisions of a block that holds values from position start on.      *)
Encoded(values, start, ctx) ==
    LET n == Len(values)
        before(k) == IF k = 1 THEN ctx ELSE ContextAfter(values[k - 1])
        part == [k \in 1..n |-> Coded(values[k], <<start + k - 1, before(k)>>,
                                      k > 1 /\ values[k - 1] = 0)]
        all[k \in 0..n] == IF k = 0 THEN <<>> ELSE all[k - 1] \o part[k]
        full == start + n = 16
    IN all[n] \o IF full THEN <<>>
                 ELSE <<<<<<<<start + n, before(n + 1)>>, 0>>, 0>>>>

(* decode_block_coeffs reads back what the format writes: each value, at   *)
(* its place, its probabilities chosen by position and by the magnitude    *)
(* before it, n one past the last, and not a decision more.                *)
TokensRight(values, start, ctx) ==
    LET n == Len(values)
        after == <<<<"next", 1>>>>
        want == [n |-> IF n = 0 THEN 0 ELSE start + n,
                 block |-> [k \in 0..15 |->
                    LET at == CHOOSE i \in 1..16 : Zigzag[i] = k
                    IN IF at > start /\ at <= start + n THEN values[at - start] ELSE 0]]
    IN DecodeBlockCoeffs(Encoded(values, start, ctx) \o after, start, ctx)
          = Leaf(after, want)
============================================================================
