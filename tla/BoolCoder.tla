----------------------------- MODULE BoolCoder -----------------------------
(***************************************************************************)
(* The boolean decoders of lossy frames (src/vp8/rac.rs): the wide coder,  *)
(* which takes several bytes at a load; the token coder it becomes inside  *)
(* the coefficient loop, which renormalises one decision late; and the     *)
(* narrow coder of 32-bit targets.  All read one partition side by side,   *)
(* next to a reference that shifts bit by bit.  The partition may arrive   *)
(* in pieces: a coder that ran past what is there is put back where the    *)
(* macroblock began and goes on when there is more.                        *)
(***************************************************************************)
EXTENDS Integers, Sequences

CONSTANTS Load,        \* bytes the wide coder takes at once (7)
          Probs,       \* the probabilities asked for
          MaxDecisions

VARIABLES data,                  \* the whole partition
          avail,                 \* how much of it is there
          wide, token, narrow,   \* the three coders
          ref,                   \* the reference
          last,                  \* what each read for the last decision
          kept,                  \* the coders at the start of the macroblock
          count                  \* decisions made

coders == <<wide, token, narrow, ref>>
vars == <<data, avail, wide, token, narrow, ref, last, kept, count>>

\* The place of the highest bit set: 31 ^ leading_zeros.
Top(v) == CHOOSE k \in 0 .. 30 : 2 ^ k <= v /\ v < 2 ^ (k + 1)
Norm(range) == 7 - Top(range)
Byte(p) == data[p + 1]

-----------------------------------------------------------------------------
\* The wide coder.

BufMax(pos, end) == IF end - pos >= Load + 1 THEN end - Load ELSE pos
WideNew(end) == [value |-> 0, range |-> 254, bits |-> -8, pos |-> 0,
                 max |-> BufMax(0, end), end |-> end, eof |-> FALSE]
WideExtend(c, end) == [c EXCEPT !.end = end, !.max = BufMax(c.pos, end)]

\* The data at its end with its last byte.
LoadFinalBytesEarly(c) ==
    IF c.pos < c.end
    THEN [c EXCEPT !.value = @ * 256 + Byte(c.pos), !.pos = @ + 1, !.bits = @ + 8,
                   !.eof = c.pos + 1 = c.end]
    ELSE [c EXCEPT !.bits = 0]

LoadFinalBytes(c) ==
    IF c.pos < c.end
    THEN [c EXCEPT !.value = @ * 256 + Byte(c.pos), !.pos = @ + 1, !.bits = @ + 8]
    ELSE IF ~ c.eof THEN [c EXCEPT !.value = @ * 256, !.bits = @ + 8, !.eof = TRUE]
    ELSE [c EXCEPT !.bits = 0]

Word(pos) == LET W[k \in 0 .. Load] == IF k = 0 THEN 0 ELSE W[k - 1] * 256 + Byte(pos + k - 1)
             IN  W[Load]

Refilled(c) ==
    IF c.bits >= 0 THEN c
    ELSE IF c.pos < c.max
    THEN [c EXCEPT !.value = @ * 2 ^ (8 * Load) + Word(c.pos),
                   !.pos = @ + Load, !.bits = @ + 8 * Load]
    ELSE LoadFinalBytes(c)

WideProb(c0, prob) ==
    LET c == Refilled(c0)
        split == (c.range * prob) \div 256
        bit == IF c.value \div 2 ^ c.bits > split THEN 1 ELSE 0
        range == IF bit = 1 THEN c.range - split ELSE split + 1
        shift == Norm(range)
    IN  [bit |-> bit,
         c |-> [c EXCEPT !.value = @ - bit * (split + 1) * 2 ^ c.bits,
                         !.range = range * 2 ^ shift - 1, !.bits = @ - shift]]

\* A sign: an even split, always one bit to shift.
WideSigned(c0) ==
    LET c == Refilled(c0)
        split == c.range \div 2
        bit == IF c.value \div 2 ^ c.bits > split THEN 1 ELSE 0
        less == c.range - bit
    IN  [bit |-> bit,
         c |-> [c EXCEPT !.value = @ - bit * (split + 1) * 2 ^ c.bits,
                         !.range = less + 1 - (less % 2), !.bits = @ - 1]]

-----------------------------------------------------------------------------
\* The token coder: the range as the last decision left it, and the shift.

Tokens(c) == [c |-> [c EXCEPT !.range = @ + 1], shift |-> 0]
Finish(t) == [t.c EXCEPT !.range = @ * 2 ^ t.shift - 1]

SetRange(c, range, pos) ==
    [c |-> [c EXCEPT !.range = range, !.bits = pos - Norm(range)], shift |-> Norm(range)]

TokenProb(t, prob) ==
    LET c == Refilled(t.c)
        full == c.range * 2 ^ t.shift
        split == (c.range * prob * 2 ^ t.shift + 256 - prob) \div 256
        bit == IF c.value \div 2 ^ c.bits >= split THEN 1 ELSE 0
    IN  [bit |-> bit,
         t |-> SetRange([c EXCEPT !.value = @ - bit * split * 2 ^ c.bits],
                        IF bit = 1 THEN full - split ELSE split, c.bits)]

\* A decision at the split taken for one above it.
TokenBranchyAt(t, prob) ==
    LET c == Refilled(t.c)
        a == c.range * prob * 2 ^ t.shift
        split == (a + 256 - prob) \div 256
    IN  IF (c.value \div 2 ^ c.bits + 1) * 256 > a
        THEN [bit |-> 1, t |-> SetRange([c EXCEPT !.value = @ - split * 2 ^ c.bits],
                                        c.range * 2 ^ t.shift - split, c.bits)]
        ELSE [bit |-> 0, t |-> SetRange(c, split, c.bits)]

\* The same decided before the split's last add and shift.
TokenBranchy(t, prob) ==
    LET c == Refilled(t.c)
        a == c.range * prob * 2 ^ t.shift
        split == (a + 256 - prob) \div 256
    IN  IF (c.value \div 2 ^ c.bits) * 256 + prob > a
        THEN [bit |-> 1, t |-> SetRange([c EXCEPT !.value = @ - split * 2 ^ c.bits],
                                        c.range * 2 ^ t.shift - split, c.bits)]
        ELSE [bit |-> 0, t |-> SetRange(c, split, c.bits)]

TokenSigned(t) ==
    LET c == Refilled(t.c)
        full == c.range * 2 ^ t.shift
        split == (full + 1) \div 2
        bit == IF c.value \div 2 ^ c.bits > split - 1 THEN 1 ELSE 0
    IN  [bit |-> bit,
         t |-> [c |-> [c EXCEPT !.value = @ - bit * split * 2 ^ c.bits,
                                !.range = IF bit = 1 THEN full - split ELSE split,
                                !.bits = @ - 1],
                shift |-> 1]]

-----------------------------------------------------------------------------
\* The narrow coder: a code word of 24 bits, the window on top.

NarrowNew(end) ==
    LET At(k) == IF k < end THEN Byte(k) ELSE 0
        n == IF end < 3 THEN end ELSE 3
    IN  [high |-> 255, bits |-> -8 * (n - 1), pos |-> n, end |-> end,
         code |-> At(0) * 65536 + At(1) * 256 + At(2), eof |-> FALSE]

\* renorm: the shift the last decision left, then what there is to read.  A code
\* word is below 2 ^ 24 here unless the partition opens past the first range;
\* what it has above wraps at 32 bits in the code, and sooner here.
Renorm(c) ==
    LET shift == IF c.high >= 128 THEN 0 ELSE Norm(c.high)
        bits == c.bits + shift
        code == (c.code % 2 ^ 24) * 2 ^ shift
        m == [c EXCEPT !.high = @ * 2 ^ shift, !.bits = bits, !.code = code]
    IN  IF bits < 0 THEN m
        ELSE IF c.end - c.pos >= 2
        THEN [m EXCEPT !.code = code + (Byte(c.pos) * 256 + Byte(c.pos + 1)) * 2 ^ bits,
                       !.pos = @ + 2, !.bits = bits - 16]
        ELSE IF c.pos < c.end
        THEN [m EXCEPT !.code = code + Byte(c.pos) * 2 ^ (bits + 8),
                       !.pos = @ + 1, !.bits = bits - 8]
        ELSE IF bits > 0 THEN [m EXCEPT !.eof = TRUE, !.bits = 0]
        ELSE m

NarrowProb(c0, prob) ==
    LET c == Renorm(c0)
        low == 1 + ((c.high - 1) * prob) \div 256
        bit == IF c.code >= low * 65536 THEN 1 ELSE 0
    IN  [bit |-> bit,
         c |-> [c EXCEPT !.high = IF bit = 1 THEN @ - low ELSE low,
                         !.code = @ - bit * low * 65536]]

\* The sign shortcut shifts by one at once, to a range of 256 if it must.
NarrowSigned(c0) ==
    LET c == Renorm(c0)
        low == (c.high + 1) \div 2
        bit == IF c.code >= low * 65536 THEN 1 ELSE 0
    IN  [bit |-> bit,
         c |-> [c EXCEPT !.high = (IF bit = 1 THEN c.high - low ELSE low) * 2,
                         !.code = (@ - bit * low * 65536) * 2, !.bits = @ + 1]]

-----------------------------------------------------------------------------
(***************************************************************************)
(* The reference: a window of eight bits over the partition, zeros past    *)
(* its end, moved one bit for each doubling of the range.                  *)
(***************************************************************************)
Bit(k, end) == IF k >= 8 * end THEN 0 ELSE (Byte(k \div 8) \div 2 ^ (7 - (k % 8))) % 2
Window(from, n, end) ==
    LET W[k \in 0 .. n] == IF k = 0 THEN 0 ELSE 2 * W[k - 1] + Bit(from + k - 1, end) IN W[n]
RefNew(end) == [value |-> Window(0, 8, end), range |-> 255, next |-> 8]
\* What the range is after a decision, before it is doubled up to 128.
RefStep(c, split, sign, end) ==
    LET bit == IF c.value >= split THEN 1 ELSE 0
        range == IF bit = 1 THEN c.range - split ELSE split
        shift == IF sign THEN 1 ELSE Norm(range)
    IN  [bit |-> bit,
         c |-> [value |-> (c.value - bit * split) * 2 ^ shift + Window(c.next, shift, end),
                range |-> range * 2 ^ shift, next |-> c.next + shift]]
RefProb(c, prob, end) == RefStep(c, 1 + ((c.range - 1) * prob) \div 256, FALSE, end)
RefSigned(c, end) == RefStep(c, (c.range + 1) \div 2, TRUE, end)
\* The window needs a bit that is not there.
Overruns(c, end) == c.next > 8 * end

-----------------------------------------------------------------------------
Dry == wide.eof

Take(w, t, n, f) ==
    /\ wide' = w.c /\ token' = t.t /\ narrow' = n.c /\ ref' = f.c
    /\ last' = [wide |-> w.bit, token |-> t.bit, narrow |-> n.bit, ref |-> f.bit,
                over |-> Overruns(ref, avail)]
    /\ count' = count + 1
    /\ UNCHANGED <<data, avail, kept>>

Decide ==
    /\ ~ Dry /\ count < MaxDecisions
    /\ \E prob \in Probs, branchy \in BOOLEAN :
          Take(WideProb(wide, prob),
               IF branchy THEN TokenBranchy(token, prob) ELSE TokenProb(token, prob),
               NarrowProb(narrow, prob), RefProb(ref, prob, avail))

Sign ==
    /\ ~ Dry /\ count < MaxDecisions
    /\ Take(WideSigned(wide), TokenSigned(token), NarrowSigned(narrow), RefSigned(ref, avail))

\* A macroblock ends: where to go back to, and the coder in its other form.
NextMacroblock ==
    /\ ~ Dry
    /\ kept' = [coders |-> <<wide, token, narrow>>, ref |-> ref, avail |-> avail]
    /\ token' = Tokens(Finish(token))
    /\ UNCHANGED <<data, avail, wide, narrow, ref, last, count>>

\* A read past what is there is undone once more has arrived; the reference
\* looks again at the bits it took for zeros.
Extend ==
    /\ avail < Len(data)
    /\ \E end \in avail + 1 .. Len(data) :
        LET w == IF Dry THEN kept.coders[1] ELSE wide
            t == IF Dry THEN kept.coders[2] ELSE token
            n == IF Dry THEN kept.coders[3] ELSE narrow
            f == IF Dry THEN kept.ref ELSE ref
            seen == 8 * (IF Dry THEN kept.avail ELSE avail)
            fresh == IF f.next > seen THEN Window(seen, f.next - seen, end) ELSE 0
        IN  /\ avail' = end
            /\ wide' = WideExtend(w, end)
            /\ token' = [t EXCEPT !.c = WideExtend(t.c, end)]
            /\ narrow' = [n EXCEPT !.end = end]
            /\ ref' = [f EXCEPT !.value = @ + fresh]
    /\ last' = [last EXCEPT !.over = FALSE]
    /\ UNCHANGED <<data, kept, count>>

InitOf(bytes, n) ==
    /\ data = bytes /\ avail = n
    /\ wide = WideNew(n)
    /\ token = Tokens(WideNew(n))
    /\ narrow = NarrowNew(n)
    /\ ref = RefNew(n)
    /\ last = [wide |-> 0, token |-> 0, narrow |-> 0, ref |-> 0, over |-> FALSE]
    /\ kept = [coders |-> <<wide, token, narrow>>, ref |-> ref, avail |-> n]
    /\ count = 0

Next == Decide \/ Sign \/ NextMacroblock \/ Extend

-----------------------------------------------------------------------------
\* A partition no encoder writes: the first byte is past the first range, and
\* the narrow coder loses the excess while the wide ones carry it.
Excess == data[1] = 255

\* Every coder decides as the reference, however the partition is loaded and
\* in whatever pieces it came, and all run dry at the same decision: the first
\* that needs a bit the partition does not have.
CodersAgree ==
    /\ last.wide = last.token
    /\ wide = Finish(token)
    /\ ~ Excess => /\ last.wide = last.narrow /\ last.wide = last.ref
                   /\ wide.eof = narrow.eof
    /\ wide.eof <=> last.over
=============================================================================
