----------------------------- MODULE SeqFilter -----------------------------
EXTENDS Naturals, Sequences, Functions

\* Vec::retain: the sequence s without the elements of D.
Omit(s, D) ==
    LET kept[i \in 0..Len(s)] ==
           IF i = 0 THEN <<>>
           ELSE IF s[i] \in D THEN kept[i - 1] ELSE Append(kept[i - 1], s[i])
    IN kept[Len(s)]
=============================================================================
