------------------------------- MODULE MCUtil -------------------------------
EXTENDS Util

\* Every string up to 3 characters over digits, the suffixes and one other
\* character: "2k", "3G", "32G", "2x", "k2", "" and the rest.
MCArgs == UNION {[1..n -> {"0", "2", "3", "G", "M", "k", "x"}] : n \in 0..3}

\* Sizes made of 0 or 1 GiB, and MiB, KiB and byte counts at the edges of
\* the tenths (101/102, 1019/1020) and of the range.
MCSizes == {g * GiB + m * MiB + k * KiB + b :
              g \in {0, 1}, m \in {0, 101, 102, 1019, 1020, 1023},
              k \in {0, 1, 1020}, b \in {0, 1023}}
=============================================================================
