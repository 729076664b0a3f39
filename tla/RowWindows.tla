------------------------------ MODULE RowWindows ------------------------------
(***************************************************************************)
(* The rows a conversion from YUV 4:2:0 reads and writes: src/convert.rs.  *)
(* A packed row is described by the luma row and the chroma rows it is     *)
(* made from, in the order its filter weighs them.  Conversions are called *)
(* for a range of rows at a time, as a picture arrives, and cut a range    *)
(* into bands for threads and, for the formats of two bytes a pixel, into  *)
(* strips; what is written has to be what one pass over the picture would. *)
(***************************************************************************)
EXTENDS Integers, SequencesExt

Chroma(h) == (h + 1) \div 2
Clamp(n, lo, hi) == Max({lo, Min({n, hi})})
Overlay(old, new) == [y \in DOMAIN old |-> IF y \in DOMAIN new THEN new[y] ELSE old[y]]
Stale == <<>>       \* what a row holds that nothing was written to

\* The filters: how many chroma rows each weighs.
Samplings == {"Full", "Simple", "Fancy", "FastFancy", "ExtraFancy"}
Taps(sampling) == IF sampling = "FastFancy" THEN 4 ELSE 10

\* The pair above the one a range begins in.
FirstPairAbove(s) == IF s > 1 THEN s \div 2 + 1 ELSE 1

\* first_pair() and first_row(): where a range resumed at row s begins.
FirstPair(s) == IF s # 0 THEN (s + 1) \div 2 ELSE 1
FirstRow(s)  == IF s # 0 THEN 2 * FirstPair(s) - 1 ELSE 0

\* upsample_rows(): the first row alone, then pairs of an odd row and the even
\* one below, near and far chroma swapped, and the last of an even height alone.
FancySpan(h, s, e) ==
    LET pairs == {j \in FirstPair(s)..h : 2 * j < e}
        last  == Chroma(h) - 1
        lone  == (IF s = 0 THEN {0} ELSE {}) \cup (IF h % 2 = 0 /\ e = h THEN {h - 1} ELSE {})
    IN  [y \in lone \cup {2 * j - 1 : j \in pairs} \cup {2 * j : j \in pairs} |->
            IF y \in lone THEN <<y, IF y = 0 THEN 0 ELSE last, IF y = 0 THEN 0 ELSE last>>
            ELSE IF y % 2 = 1 THEN <<y, (y - 1) \div 2, (y + 1) \div 2>>
            ELSE <<y, y \div 2, y \div 2 - 1>>]

SimpleSpan(s, e) == [y \in s..e - 1 |-> <<y, y \div 2>>]
FullSpan(s, e)   == [y \in s..e - 1 |-> <<y, y>>]

\* filtered_rows(): the window of n chroma rows moves down a ring of as many
\* slots, and after the first row only its last one can be new.
Window(h, n, y) ==
    LET base == y \div 2 - (n \div 2 - (y % 2))
    IN  [t \in 1..n |-> Clamp(base + t - 1, 0, Chroma(h) - 1)]
FilteredSpan(h, n, s, e) ==
    LET add(a, y) ==
            LET rows    == Window(h, n, y)
                missing == IF y = s THEN Range(rows) ELSE {rows[n]}
                ring    == [slot \in DOMAIN a.ring |->
                               IF \E j \in missing : j % n = slot
                               THEN CHOOSE j \in missing : j % n = slot ELSE a.ring[slot]]
            IN  [ring |-> ring,
                 rows |-> Append(a.rows, <<y>> \o [t \in 1..n |-> ring[rows[t] % n]])]
        all == FoldLeft(add, [ring |-> [slot \in 0..n - 1 |-> -1], rows |-> <<>>],
                        [i \in 1..e - s |-> s + i - 1])
    IN  [y \in s..e - 1 |-> all.rows[y - s + 1]]

\* packed_rows_span(), packed_simple_span(), yuv444_span(), packed_filtered_span().
Span(sampling, h, s, e) ==
    CASE sampling = "Full"   -> FullSpan(s, e)
      [] sampling = "Simple" -> SimpleSpan(s, e)
      [] sampling = "Fancy"  -> FancySpan(h, s, e)
      [] OTHER -> FilteredSpan(h, Taps(sampling), s, e)

\* strip_2byte_span(): through a strip of `rows` rows that is not cleared in
\* between, each row packed from it, each strip ending before an odd row.
Filtered == {"FastFancy", "ExtraFancy"}
Strips(rows, s, e) ==
    LET to(f) == LET up == f + rows - 1 IN Min({e, IF up % 2 = 0 THEN up + 1 ELSE up})
        cuts[f \in 0..e] == IF f >= e THEN <<>> ELSE << <<f, to(f)>> >> \o cuts[to(f)]
    IN  cuts[s]
Into(strip, new, f) == [i \in DOMAIN strip |-> IF f + i \in DOMAIN new THEN new[f + i] ELSE strip[i]]
Packed2(a, strip, f, to) ==
    [strip |-> strip,
     out |-> [y \in (DOMAIN a.out) \cup (f..to - 1) |-> IF y \in f..to - 1 THEN strip[y - f] ELSE a.out[y]]]
StripSpan(sampling, h, rows, s, e) ==
    LET add(a, t) == Packed2(a, Into(a.strip, Span(sampling, h, t[1], t[2]), t[1]), t[1], t[2])
    IN  FoldLeft(add, [strip |-> [i \in 0..rows |-> Stale], out |-> << >>],
                 Strips(rows, IF sampling = "Fancy" THEN FirstRow(s) ELSE s, e)).out

\* split_bands(): every band but the first begins on an odd row.
Cuts(s, e, n) ==
    [i \in 0..n |-> IF i = 0 THEN s ELSE IF i = n THEN e
                    ELSE LET raw == s + (i * (e - s)) \div n
                         IN  IF raw % 2 = 0 THEN raw + 1 ELSE raw]

\* in_bands() over yuv420_to_packed_rows() and its like: the bands' rows, a row
\* written by the band it belongs to, or by the first one above it.
Banded(bands, cut, n) ==
    [rows |-> [y \in UNION {DOMAIN bands[i] : i \in 1..n} |->
                  bands[CHOOSE i \in 1..n : y \in DOMAIN bands[i]][y]],
     \* A band is given the rows from its cut on, and the first those above.
     disjoint |-> \A i \in 1..n : DOMAIN bands[i] \subseteq
                      (IF i = 1 THEN 0 ELSE cut[i - 1])..cut[i] - 1]

\* A conversion of rows s..e over what is there; rows is 0 or a strip's rows.
Convert(sampling, h, rows, s, e, n) ==
    LET cut == Cuts(s, e, n)
        bands == [i \in 1..n |-> IF rows = 0 \/ sampling \in Filtered
                                 THEN Span(sampling, h, cut[i - 1], cut[i])
                                 ELSE StripSpan(sampling, h, rows, cut[i - 1], cut[i])]
    IN  IF s >= e THEN [rows |-> << >>, disjoint |-> TRUE] ELSE Banded(bands, cut, n)

\* Where the rows it made anew begin, which premultiplying starts from.
ConvertedFrom(sampling, s) == IF sampling = "Fancy" THEN FirstRow(s) ELSE s

---------------------------------------------------------------------------
(* What one pass over the picture makes of a row *)

RowOf(sampling, h, y) ==
    CASE sampling = "Full"   -> <<y, y>>
      [] sampling = "Simple" -> <<y, y \div 2>>
      [] sampling = "Fancy"  ->
            <<y, y \div 2, Clamp(IF y % 2 = 1 THEN y \div 2 + 1 ELSE y \div 2 - 1,
                                 0, Chroma(h) - 1)>>
      [] OTHER -> <<y>> \o Window(h, Taps(sampling), y)

\* All the rows there are.
VouchedAll(sampling, h, rows) == rows

\* The rows an export vouches for when those before `rows` are final: all but
\* as many as the filter reads ahead (partial_picture()).
Vouched(sampling, h, rows) ==
    IF rows = 0 \/ rows >= h THEN rows
    ELSE CASE sampling = "ExtraFancy" -> Max({rows - 10, 0})
           [] sampling = "FastFancy"  -> Max({rows - 4, 0})
           [] OTHER -> rows - 1

---------------------------------------------------------------------------
(* Rows converted in two calls, each cut into n bands and strips of `rows` *)

\* Each band writes rows of its own, and after both calls every row is made
\* from what one pass over the picture would have made it from: none is left
\* as it was, and none is made from a filter's leftovers.
MadeAsOne(sampling, h, above, below) ==
    LET all == Overlay(Overlay([y \in 0..h - 1 |-> Stale], above.rows), below.rows)
    IN  /\ above.disjoint /\ below.disjoint
        /\ \A y \in 0..h - 1 : all[y] = RowOf(sampling, h, y)
WindowsRight(sampling, h, rows, m, n) ==
    MadeAsOne(sampling, h, Convert(sampling, h, rows, 0, m, n), Convert(sampling, h, rows, m, h, n))
=============================================================================
