----------------------------- MODULE MCRowResume -----------------------------
(* Instances of RowResume for TLC.                                         *)
EXTENDS RowResume, FiniteSetsExt

\* A frame of one byte to a macroblock but for those in `skip`, which take
\* none, with `slack` bytes after the last of each partition.
Frame(partitions, skip, slack, modesDry, filter) ==
    LET upTo(m) == {n \in Mb \ skip :
                        n[1] % partitions = m[1] % partitions /\ Raster(n) <= Raster(m)}
        bytes(p) == Cardinality({n \in Mb \ skip : n[1] % partitions = p})
    IN [partitions |-> partitions,
        need       |-> [m \in Mb |-> Cardinality(upTo(m))],
        size       |-> [p \in 0..partitions - 1 |-> Max({0, bytes(p) + slack[p]})],
        modesDry   |-> modesDry,
        filter     |-> filter]

\* Macroblocks that take no bytes, at the start, the middle and the end of rows.
Skips == {{}, {<<0, 0>>, <<0, 1>>, <<1, 2>>, <<2, 1>>, <<2, 2>>}}

Even(k) == [p \in Parts |-> k]

\* Sound frames, some with bytes left over.
Sound == {Frame(2, skip, Even(k), W * H, filter) :
             skip \in Skips, k \in {0, 1}, filter \in Filters}

\* Frames that lack a byte of one partition, or macroblocks' modes.
Short == {Frame(2, {}, [p \in Parts |-> IF p = q THEN -1 ELSE 0], W * H, filter) :
             q \in 0..1, filter \in {"off", "normal"}}
         \cup {Frame(2, {}, Even(0), dry, "simple") : dry \in {0, 4}}

\* Frames of the same number of partitions, so that any may follow any: see
\* ResumeStale for what may not.
ResumeFiles == Sound \cup Short

\* A damaged frame of two partitions and a sound one of one.
StaleFiles == {Frame(2, {}, [p \in Parts |-> -p], W * H, "off"),
               Frame(1, {}, Even(0), W * H, "off")}
=============================================================================
