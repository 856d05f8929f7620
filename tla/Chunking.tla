------------------------------- MODULE Chunking ------------------------------
(***************************************************************************)
(* RecursiveChunker: where a text is cut.  A text is a sequence of "w" (a  *)
(* character of a sentence) and "n" (of a separator, which is white space);*)
(* a chunk is the pair of its offsets.                                     *)
(***************************************************************************)
EXTENDS Integers, Sequences, FiniteSetsExt

(* Runs of "w" between separators; one at either end may be empty.           *)
Segments(t) ==
  {s \in (0 .. Len(t)) \X (0 .. Len(t)) :
     /\ s[1] < s[2] \/ (s[1] = s[2] /\ s[1] \in {0, Len(t)})
     /\ \A i \in s[1] + 1 .. s[2] : t[i] = "w"
     /\ s[1] = 0 \/ t[s[1]] = "n"
     /\ s[2] = Len(t) \/ t[s[2] + 1] = "n"}

(* The last segment that begins after start and ends within the budget ends  *)
(* the chunk; without one the text is cut at the budget.                     *)
SplitEnd(segments, start, budget) ==
  LET fitting == {s \in segments : start < s[1] /\ s[1] < budget /\ s[2] <= budget}
  IN  IF fitting = {} THEN budget ELSE Max({s[2] : s \in fitting})

Blank(t, c) == \A i \in c[1] + 1 .. c[2] : t[i] = "n"

AfterBlank(c) == Max({c[1] + 1, c[2]})

AfterGap(c, overlap) == c[2] + overlap
AfterChunk(c, overlap) == IF c[2] - overlap <= c[1] THEN c[2] ELSE c[2] - overlap

Chunks(t, size, overlap) ==
  LET segments == Segments(t)
      from[start \in Nat] ==
        LET budget == start + size
            c      == <<start, IF budget < Len(t) THEN SplitEnd(segments, start, budget)
                               ELSE Len(t)>>
            rest(next) == IF c[2] >= Len(t) THEN {} ELSE from[next]
        IN  IF start >= Len(t) THEN {}
            ELSE IF Blank(t, c) THEN rest(AfterBlank(c))
            ELSE {c} \cup rest(AfterChunk(c, overlap))
  IN  from[0]

Texts(n) == UNION {[1 .. k -> {"w", "n"}] : k \in 0 .. n}

(* For every text, size and overlap the settings allow (up to the bounds):   *)
(* each character of a sentence is in a chunk, no chunk is blank or longer   *)
(* than the size, neighbours share at most the overlap.                      *)
ChunksCoverText(length, sizes) ==
  \A t \in Texts(length), size \in sizes : \A overlap \in 0 .. size - 1 :
    LET chunks == Chunks(t, size, overlap)
    IN  /\ \A i \in 1 .. Len(t) : t[i] = "w" =>
             \E c \in chunks : i \in c[1] + 1 .. c[2]
        /\ \A c \in chunks : c[2] - c[1] <= size /\ ~Blank(t, c)
        /\ \A c, e \in chunks : c[1] < e[1] =>
             c[2] <= e[1] + overlap \/ (\E f \in chunks : c[1] < f[1] /\ f[1] < e[1])
==============================================================================
