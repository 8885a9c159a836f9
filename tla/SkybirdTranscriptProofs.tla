----------------------- MODULE SkybirdTranscriptProofs ----------------------
(***************************************************************************)
(* What holds of the audio of a session for every length of segment, chunk *)
(* and playlist: first the arithmetic of SkybirdRewind, for gaps of every  *)
(* length, a clock ahead of the stream included; then the clock, the       *)
(* seams, the backlog and the numbering of SkybirdTranscript. ClockInv is  *)
(* the inductive invariant: where the clock stands against the audio that  *)
(* is accounted for next, and what is held between the two.                *)
(***************************************************************************)
EXTENDS SkybirdTranscript, SequenceTheorems, Sums

Windows == [segments : Nat, seg : Nat]

LEMMA Division ==
    ASSUME NEW a \in Int, NEW b \in Nat \ {0}
    PROVE  a \div b \in Int /\ a - (a \div b) * b \in 0 .. b - 1
  OBVIOUS

LEMMA DivisionOfNat ==
    ASSUME NEW a \in Nat, NEW b \in Nat \ {0}
    PROVE  a \div b \in Nat /\ a - (a \div b) * b \in 0 .. b - 1
<1>1. a \in Int
  OBVIOUS
<1>2. a - (a \div b) * b \in 0 .. b - 1
  BY <1>1, Division
<1>3. a \div b \in Nat
  OBVIOUS
<1> QED
  BY <1>2, <1>3

LEMMA Multiples ==
    ASSUME NEW a \in Int, NEW b \in Int, NEW c \in Nat, a <= b
    PROVE  a * c \in Int /\ b * c \in Int /\ a * c <= b * c
  OBVIOUS

\* A clock ahead of the stream is put back to it where it can be, and never by
\* more than the segments at the live edge.
LEMMA BackIsClamped ==
    ASSUME NEW gap \in Int, NEW window \in Windows, NEW limit \in Nat,
           CanRewind(window, limit)
    PROVE  LET n == gap \div window.seg
               b == Back(gap, window, limit)
           IN  /\ window.seg \in Nat \ {0}
               /\ n \in Int /\ b \in Int
               /\ Reach(window, limit) \in Nat
               /\ Reach(window, limit) <= window.segments - LiveEdge
               /\ Reach(window, limit) <= limit \div window.seg
               /\ b \in 1 - LiveEdge .. Reach(window, limit)
               /\ b <= n \/ b = 1 - LiveEdge
               /\ n \in 1 - LiveEdge .. Reach(window, limit) => b = n
<1> DEFINE n == gap \div window.seg
           m == limit \div window.seg
           r == Reach(window, limit)
<1>1. window.segments \in Nat /\ window.seg \in Nat \ {0}
  BY DEF Windows, CanRewind
<1>2. n \in Int
  BY <1>1, Division
<1>3. m \in Nat
  BY <1>1, DivisionOfNat
<1>4. window.segments > LiveEdge
  BY DEF CanRewind
<1>5. r = Lesser(window.segments - LiveEdge, m)
  BY DEF Reach
<1>6. Back(gap, window, limit) = Greater(Lesser(n, r), 1 - LiveEdge)
  BY DEF Back
<1> HIDE DEF n, m, r
<1>7. r \in Nat /\ r <= window.segments - LiveEdge /\ r <= m
  BY <1>1, <1>3, <1>4, <1>5, LiveEdgeAssumption DEF Lesser
<1> QED
  BY <1>1, <1>2, <1>3, <1>6, <1>7, LiveEdgeAssumption
     DEF Greater, Lesser, n, m, r

\* ffmpeg is never told to start outside the playlist: the segment it starts
\* at, counted from the end, is one of those listed.
THEOREM StartIsListed ==
    ASSUME NEW gap \in Int, NEW window \in Windows, NEW limit \in Nat,
           CanRewind(window, limit)
    PROVE  LiveEdge + Back(gap, window, limit) \in 1 .. window.segments
  BY BackIsClamped, LiveEdgeAssumption DEF Windows

\* No rewind is longer than max_rewind_seconds.
THEOREM RewindIsBounded ==
    ASSUME NEW gap \in Int, NEW window \in Windows, NEW limit \in Nat
    PROVE  Back(gap, window, limit) * window.seg <= limit
<1>1. CASE ~CanRewind(window, limit)
  BY <1>1 DEF Back, Windows
<1>2. CASE CanRewind(window, limit)
  <2> DEFINE b == Back(gap, window, limit)
             m == limit \div window.seg
  <2>1. window.seg \in Nat \ {0} /\ b \in Int /\ b <= m
    BY <1>2, BackIsClamped, LiveEdgeAssumption, DivisionOfNat
  <2>2. m \in Nat /\ limit - m * window.seg \in 0 .. window.seg - 1
    <3>1. window.seg \in Nat \ {0}
      BY <2>1
    <3> QED
      BY <3>1, DivisionOfNat
  <2> HIDE DEF b, m
  <2>3. b * window.seg <= m * window.seg /\ m * window.seg \in Int
    BY <2>1, <2>2, Multiples
  <2>4. m * window.seg <= limit
    BY <2>1, <2>2, <2>3
  <2> QED
    BY <2>1, <2>3, <2>4, Multiples DEF b
<1> QED
  BY <1>1, <1>2

\* No negative stretch is ever skipped: the clock of a capture that is not ahead of
\* the stream is never set back.  The audio may still start before the clock, by
\* what is left of a segment and what the playlist lags behind.
LEMMA ClockIsNotSetBack ==
    ASSUME NEW gap \in Nat, NEW window \in Windows, NEW limit \in Nat
    PROVE  Skipped(gap, window, limit) >= 0
<1>1. CASE ~CanRewind(window, limit)
  BY <1>1 DEF Skipped
<1>2. CASE CanRewind(window, limit)
  <2> DEFINE b == Back(gap, window, limit)
             n == gap \div window.seg
  <2>1. window.seg \in Nat \ {0} /\ b \in Int
    BY <1>2, BackIsClamped
  <2>2. n \in Nat /\ gap - n * window.seg \in 0 .. window.seg - 1
    BY <2>1, DivisionOfNat
  <2>3. b <= n
    BY <1>2, <2>1, <2>2, BackIsClamped, LiveEdgeAssumption
  <2>4. Skipped(gap, window, limit) = gap - b * window.seg
    BY <1>2 DEF Skipped
  <2> HIDE DEF b, n
  <2>5. b * window.seg <= n * window.seg
        /\ b * window.seg \in Int /\ n * window.seg \in Int
    BY <2>1, <2>2, <2>3, Multiples
  <2> QED
    BY <2>1, <2>2, <2>4, <2>5
<1> QED
  BY <1>1, <1>2

\* A gap that the playlist still holds, within the limit, is recovered to the
\* segment; and so is a clock that is ahead by less than the live edge.
THEOREM SeamIsShort ==
    ASSUME NEW gap \in Int, NEW window \in Windows, NEW limit \in Nat,
           CanRewind(window, limit),
           gap \div window.seg \in 1 - LiveEdge .. Reach(window, limit)
    PROVE  Skipped(gap, window, limit) \in 0 .. window.seg - 1
<1>1. window.seg \in Nat \ {0}
      /\ Back(gap, window, limit) = gap \div window.seg
  BY BackIsClamped
<1>2. Skipped(gap, window, limit) = gap - (gap \div window.seg) * window.seg
  BY <1>1 DEF Skipped
<1> QED
  BY <1>1, <1>2, Division

-----------------------------------------------------------------------------
(* From the rewind to the transcript.                                      *)

LEMMA Units ==
    /\ Seg \in Nat \ {0} /\ Chunk \in Nat \ {0} /\ PerTick \in Nat \ {0}
    /\ LiveEdge \in Nat \ {0}
    /\ MaxLag \in Nat /\ Audible \in Nat /\ Limit \in Nat /\ MaxPending \in Nat
    /\ Patience \in Nat /\ MinLoss \in Nat /\ Horizon \in Nat /\ MaxFaults \in Nat
    /\ Sizes \subseteq Nat
    /\ Never \in Int /\ Never < -1
<1>1. LiveEdge * Seg \in Nat \ {0}
    <2>1. LiveEdge \in Nat \ {0} /\ Seg \in Nat \ {0}
        BY UnitsAssumption, LiveEdgeAssumption
    <2>2. QED BY <2>1
<1>2. QED BY <1>1, UnitsAssumption, LiveEdgeAssumption DEF Never

LEMMA EdgeIs ==
    ASSUME NEW t \in Nat
    PROVE  Edge(t) \in Nat /\ t - Edge(t) \in 0 .. Seg - 1
<1>1. Seg \in Nat \ {0}
    BY Units
<1>2. t \div Seg \in Nat /\ t - (t \div Seg) * Seg \in 0 .. Seg - 1
    BY <1>1, DivisionOfNat
<1>3. (t \div Seg) * Seg \in Nat
    BY <1>1, <1>2
<1>4. QED BY <1>2, <1>3 DEF Edge

LEMMA EdgeGrows ==
    ASSUME NEW t \in Nat, NEW u \in Nat, t <= u
    PROVE  Edge(t) <= Edge(u)
<1>1. Seg \in Nat \ {0}
    BY Units
<1>2. PICK m \in Nat : m = t \div Seg /\ t - m * Seg \in 0 .. Seg - 1
    BY <1>1, DivisionOfNat
<1>3. PICK n \in Nat : n = u \div Seg /\ u - n * Seg \in 0 .. Seg - 1
    BY <1>1, DivisionOfNat
<1>4. m * Seg \in Int /\ n * Seg \in Int /\ (n + 1) * Seg = n * Seg + Seg
    BY <1>1, <1>2, <1>3
<1>5. m <= n
    <2>1. SUFFICES ASSUME n + 1 <= m PROVE FALSE
        BY <1>2, <1>3
    <2>2. (n + 1) * Seg <= m * Seg
        BY <1>1, <1>2, <1>3, <2>1, Multiples
    <2>3. QED BY <1>1, <1>2, <1>3, <1>4, <2>2
<1>6. m * Seg <= n * Seg
    BY <1>1, <1>2, <1>3, <1>5, Multiples
<1>7. QED BY <1>2, <1>3, <1>6 DEF Edge

-----------------------------------------------------------------------------
(* What is cut and not yet accounted for.                                  *)

Pieces == [from : Int, to : Int]

\* From b to a, in chunks, the last of them perhaps short.
Row(s, b, a) ==
    /\ s \in Seq(Pieces)
    /\ \A i \in 1 .. Len(s) :
          /\ s[i].from = b + (i - 1) * Chunk
          /\ s[i].to = IF i = Len(s) THEN a ELSE b + i * Chunk
    /\ IF Len(s) = 0 THEN a = b
       ELSE /\ a > b + (Len(s) - 1) * Chunk
            /\ a <= b + Len(s) * Chunk

Full(s, b, a) == a = b + Len(s) * Chunk

LEMMA Products ==
    /\ \A m, n \in Nat : m * n \in Nat
    /\ \A m, n \in Nat \ {0} : m * n \in Nat \ {0}
    /\ \A m, n \in Int, c \in Int : (m + n) * c = m * c + n * c
    /\ \A m \in Int : 0 * m = 0 /\ 1 * m = m
  OBVIOUS

LEMMA RowFirst ==
    ASSUME NEW b \in Int, NEW a \in Int, NEW s, Row(s, b, a)
    PROVE  (s \o <<Piece(a, 0)>>)[1].from = b
<1>0. Piece(a, 0) \in Pieces /\ Piece(a, 0).from = a
    BY DEF Piece, Pieces
<1>1. s \in Seq(Pieces) /\ Len(s) \in Nat
    BY DEF Row
<1>2. CASE Len(s) = 0
    <2>1. (s \o <<Piece(a, 0)>>)[1] = Piece(a, 0)
        BY <1>0, <1>1, <1>2
    <2>2. QED BY <1>0, <1>2, <2>1 DEF Row
<1>3. CASE Len(s) # 0
    <2>1. 1 \in 1 .. Len(s) /\ (s \o <<Piece(a, 0)>>)[1] = s[1]
        BY <1>0, <1>1, <1>3
    <2>2. s[1].from = b + (1 - 1) * Chunk
        BY <2>1 DEF Row
    <2>3. QED BY <2>1, <2>2, Units
<1>4. QED BY <1>2, <1>3

LEMMA RowCut ==
    ASSUME NEW b \in Int, NEW a \in Int, NEW s, Row(s, b, a), Full(s, b, a),
           NEW l \in 1 .. Chunk
    PROVE  /\ Row(Append(s, Piece(a, l)), b, a + l)
           /\ l = Chunk => Full(Append(s, Piece(a, l)), b, a + l)
<1> DEFINE t == Append(s, Piece(a, l))
           n == Len(s)
<1>1. s \in Seq(Pieces) /\ n \in Nat /\ Chunk \in Nat \ {0}
    BY Units DEF Row
<1>2. Piece(a, l) = [from |-> a, to |-> a + l] /\ Piece(a, l) \in Pieces
    BY DEF Piece, Pieces
<1>3. t \in Seq(Pieces) /\ Len(t) = n + 1 /\ t[n + 1] = Piece(a, l)
      /\ \A i \in 1 .. n : t[i] = s[i]
    BY <1>1, <1>2
<1>4. a = b + n * Chunk /\ (n + 1) * Chunk = n * Chunk + Chunk /\ n * Chunk \in Int
    BY <1>1 DEF Full
<1>5. ASSUME NEW i \in 1 .. n + 1
      PROVE /\ t[i].from = b + (i - 1) * Chunk
            /\ t[i].to = IF i = n + 1 THEN a + l ELSE b + i * Chunk
    <2>1. CASE i = n + 1
        <3>1. (i - 1) * Chunk = n * Chunk
            BY <1>1, <2>1
        <3>2. QED BY <1>2, <1>3, <1>4, <2>1, <3>1
    <2>2. CASE i \in 1 .. n
        <3>1. /\ s[i].from = b + (i - 1) * Chunk
              /\ s[i].to = IF i = n THEN a ELSE b + i * Chunk
            BY <2>2 DEF Row
        <3>2. CASE i = n
            BY <1>1, <1>3, <1>4, <2>2, <3>1, <3>2
        <3>3. CASE i # n
            BY <1>1, <1>3, <2>2, <3>1, <3>3
        <3>4. QED BY <3>2, <3>3
    <2>3. QED BY <1>1, <2>1, <2>2
<1>6. a + l > b + (n + 1 - 1) * Chunk /\ a + l <= b + (n + 1) * Chunk
    <2>1. (n + 1 - 1) * Chunk = n * Chunk
        BY <1>1
    <2>2. QED BY <1>1, <1>4, <2>1
<1>7. Row(t, b, a + l)
    <2>. HIDE DEF t
    <2>1. QED BY <1>1, <1>3, <1>5, <1>6 DEF Row
<1>8. l = Chunk => Full(t, b, a + l)
    <2>. HIDE DEF t
    <2>1. QED BY <1>1, <1>3, <1>4 DEF Full
<1>9. QED BY <1>7, <1>8

\* The oldest n leave: they are of a stretch that begins where the row does,
\* and what remains begins where it ends.
LEMMA RowDrop ==
    ASSUME NEW b \in Int, NEW a \in Int, NEW s, Row(s, b, a),
           NEW n \in 1 .. Len(s), NEW t \in Seq(Pieces),
           Len(t) = Len(s) - n, \A i \in 1 .. Len(t) : t[i] = s[n + i]
    PROVE  /\ s[1].from = b
           /\ s[n].to \in Int /\ s[n].to > b
           /\ s[n].to <= b + n * Chunk
           /\ Len(t) # 0 => s[n].to = b + n * Chunk
           /\ Row(t, s[n].to, a)
           /\ Full(s, b, a) => Full(t, s[n].to, a)
<1>1. s \in Seq(Pieces) /\ Len(s) \in Nat /\ n \in Nat \ {0} /\ Chunk \in Nat \ {0}
      /\ 1 \in 1 .. Len(s) /\ n \in 1 .. Len(s) /\ Len(s) # 0 /\ Len(t) \in Nat
    <2>1. s \in Seq(Pieces)
        BY DEF Row
    <2>2. Len(s) \in Nat /\ Len(t) \in Nat
        BY <2>1
    <2>3. n \in Nat \ {0} /\ 1 \in 1 .. Len(s) /\ Len(s) # 0
        BY <2>2
    <2>4. QED BY <2>1, <2>2, <2>3, Units
<1>2. s[1].from = b
    <2>1. s[1].from = b + (1 - 1) * Chunk
        BY <1>1 DEF Row
    <2>2. (1 - 1) * Chunk = 0
        BY <1>1
    <2>3. QED BY <2>1, <2>2
<1>3. s[n].to = IF n = Len(s) THEN a ELSE b + n * Chunk
    BY <1>1 DEF Row
<1>4. a > b + (Len(s) - 1) * Chunk /\ a <= b + Len(s) * Chunk
    BY <1>1 DEF Row
<1>5. n * Chunk \in Nat \ {0} /\ (Len(s) - 1) * Chunk \in Nat
    <2>1. Len(s) - 1 \in Nat
        BY <1>1
    <2>2. QED BY <1>1, <2>1, Products
<1>6. CASE n = Len(s)
    <2>1. s[n].to = a /\ Len(t) = 0
        BY <1>1, <1>3, <1>6
    <2>2. Row(t, a, a) /\ Full(t, a, a)
        <3>1. 0 * Chunk = 0
            BY <1>1
        <3>2. \A i \in 1 .. Len(t) : FALSE
            BY <2>1
        <3>3. a = a + Len(t) * Chunk
            BY <2>1, <3>1
        <3>4. QED BY <1>1, <2>1, <3>2, <3>3 DEF Row, Full
    <2>3. QED BY <1>1, <1>2, <1>4, <1>5, <1>6, <2>1, <2>2
<1>7. CASE n < Len(s)
    <2> DEFINE c == b + n * Chunk
    <2>1. s[n].to = c /\ c \in Int /\ c > b /\ Len(t) \in Nat \ {0}
        BY <1>1, <1>3, <1>5, <1>7
    <2>2. ASSUME NEW i \in 1 .. Len(t)
          PROVE /\ t[i].from = c + (i - 1) * Chunk
                /\ t[i].to = IF i = Len(t) THEN a ELSE c + i * Chunk
        <3>1. n + i \in 1 .. Len(s) /\ t[i] = s[n + i] /\ i \in Nat
              /\ (i = Len(t) <=> n + i = Len(s))
            BY <1>1, <1>7
        <3>2. /\ s[n + i].from = b + (n + i - 1) * Chunk
              /\ s[n + i].to = IF n + i = Len(s) THEN a ELSE b + (n + i) * Chunk
            <4>1. PICK j \in 1 .. Len(s) : j = n + i
                BY <3>1
            <4>2. /\ s[j].from = b + (j - 1) * Chunk
                  /\ s[j].to = IF j = Len(s) THEN a ELSE b + j * Chunk
                BY DEF Row
            <4>3. QED BY <4>1, <4>2
        <3>3. (n + i - 1) * Chunk = n * Chunk + (i - 1) * Chunk
              /\ (n + i) * Chunk = n * Chunk + i * Chunk
            BY <1>1, <3>1
        <3>4. i * Chunk \in Int /\ (i - 1) * Chunk \in Int
            BY <1>1, <3>1
        <3>5. b + (n + i - 1) * Chunk = c + (i - 1) * Chunk
              /\ b + (n + i) * Chunk = c + i * Chunk
            BY <1>5, <3>3, <3>4
        <3>6. QED
            <4>. HIDE DEF c
            <4>1. QED BY <3>1, <3>2, <3>5
    <2>3. a > c + (Len(t) - 1) * Chunk /\ a <= c + Len(t) * Chunk
          /\ (a = b + Len(s) * Chunk => a = c + Len(t) * Chunk)
        <3>1. Len(s) = n + Len(t)
            BY <1>1
        <3>2. (n + Len(t)) * Chunk = n * Chunk + Len(t) * Chunk
              /\ (n + Len(t) - 1) * Chunk = n * Chunk + (Len(t) - 1) * Chunk
              /\ Len(t) * Chunk \in Int /\ (Len(t) - 1) * Chunk \in Int
            <4>1. PICK k \in Nat : k = Len(t)
                BY <1>1
            <4>2. (n + k) * Chunk = n * Chunk + k * Chunk
                  /\ (n + k - 1) * Chunk = n * Chunk + (k - 1) * Chunk
                  /\ k * Chunk \in Int /\ (k - 1) * Chunk \in Int
                BY <1>1, <4>1
            <4>3. QED BY <4>1, <4>2
        <3>3. QED BY <1>4, <1>5, <3>1, <3>2
    <2>4. Row(t, c, a)
        <3>. HIDE DEF c
        <3>1. QED BY <2>1, <2>2, <2>3 DEF Row
    <2>5. Full(s, b, a) => Full(t, c, a)
        BY <2>3 DEF Full
    <2>6. QED BY <1>2, <2>1, <2>4, <2>5
<1>8. QED BY <1>1, <1>6, <1>7

\* What is taken out of the row in the backlog's own two parts.
LEMMA BacklogDrops ==
    ASSUME NEW h \in Seq(Pieces), NEW r \in Seq(Pieces), Len(h) # 0
    PROVE  /\ (h \o r)[1] = h[1] /\ Len(h \o r) \in Nat \ {0}
           /\ Tail(h) \o r \in Seq(Pieces)
           /\ Len(Tail(h) \o r) = Len(h \o r) - 1
           /\ \A i \in 1 .. Len(Tail(h) \o r) : (Tail(h) \o r)[i] = (h \o r)[1 + i]
<1> DEFINE t == Tail(h)
<1>1. t \in Seq(Pieces) /\ Len(t) = Len(h) - 1 /\ Len(h) \in Nat \ {0} /\ Len(r) \in Nat
      /\ \A i \in 1 .. Len(h) - 1 : t[i] = h[i + 1]
    OBVIOUS
<1>2. t \o r \in Seq(Pieces) /\ Len(t \o r) = Len(t) + Len(r)
      /\ \A i \in 1 .. Len(t) + Len(r) :
            (t \o r)[i] = IF i <= Len(t) THEN t[i] ELSE r[i - Len(t)]
    <2>1. PICK u \in Seq(Pieces) : u = t
        BY <1>1
    <2>2. u \o r \in Seq(Pieces) /\ Len(u \o r) = Len(u) + Len(r)
          /\ \A i \in 1 .. Len(u) + Len(r) :
                (u \o r)[i] = IF i <= Len(u) THEN u[i] ELSE r[i - Len(u)]
        OBVIOUS
    <2>3. QED BY <2>1, <2>2
<1>3. h \o r \in Seq(Pieces) /\ Len(h \o r) = Len(h) + Len(r)
      /\ \A i \in 1 .. Len(h) + Len(r) :
            (h \o r)[i] = IF i <= Len(h) THEN h[i] ELSE r[i - Len(h)]
    OBVIOUS
<1>4. QED
    <2>. HIDE DEF t
    <2>1. \A i \in 1 .. Len(t) + Len(r) : (t \o r)[i] = (h \o r)[1 + i]
        BY <1>1, <1>2, <1>3
    <2>2. QED BY <1>1, <1>2, <1>3, <2>1 DEF t

-----------------------------------------------------------------------------
(* Where a connect puts the clock.                                         *)

\* What the playlist is found to list, and what is believed of it.
Found(size) == IF size = 0 THEN NoWindow ELSE [segments |-> size, seg |-> Seg]

LEMMA ConnectIs ==
    ASSUME NEW gap \in Int, NEW size \in Nat,
           NEW window \in {NoWindow, Found(size)}
    PROVE  LET back == Back(gap, window, Limit)
               skipped == Skipped(gap, window, Limit)
           IN  /\ window \in Windows
               /\ back \in Int /\ skipped \in Int
               /\ skipped = gap - back * Seg
               /\ skipped >= 0 \/ back <= 0
               /\ gap >= 0 => skipped >= 0
<1> DEFINE back == Back(gap, window, Limit)
           skipped == Skipped(gap, window, Limit)
<1>1. Seg \in Nat \ {0} /\ Limit \in Nat /\ LiveEdge \in Nat \ {0}
    BY Units
<1>2. window \in Windows
    BY <1>1 DEF Windows, Found, NoWindow
<1>3. CASE ~CanRewind(window, Limit)
    <2>1. back = 0 /\ skipped = gap
        BY <1>3 DEF Back, Skipped
    <2>2. back * Seg = 0
        BY <1>1, <2>1
    <2>3. QED
        <3>1. gap >= 0 => skipped >= 0
            BY <2>1
        <3>2. skipped >= 0 \/ back <= 0
            BY <2>1
        <3>3. QED BY <1>2, <2>1, <2>2, <3>1, <3>2
<1>4. CASE CanRewind(window, Limit)
    <2>1. window.seg = Seg
        BY <1>1, <1>4 DEF CanRewind, NoWindow, Found
    <2>2. back \in Int /\ (back <= gap \div Seg \/ back = 1 - LiveEdge)
        BY <1>1, <1>2, <1>4, <2>1, BackIsClamped
    <2>3. gap \div Seg \in Int /\ gap - (gap \div Seg) * Seg \in 0 .. Seg - 1
        BY <1>1, Division
    <2>4. skipped = gap - back * Seg
        BY <1>4, <2>1 DEF Skipped
    <2>5. PICK n \in Int : n = gap \div Seg
        BY <2>3
    <2>6. back * Seg \in Int /\ n * Seg \in Int
        BY <1>1, <2>2, <2>5
    <2>7. back <= n => skipped >= 0
        <3>1. back <= n => back * Seg <= n * Seg
            BY <1>1, <2>2, <2>5, Multiples
        <3>2. gap - n * Seg >= 0
            BY <2>3, <2>5
        <3>3. QED
            <4>. HIDE DEF back, skipped
            <4>1. QED BY <2>2, <2>4, <2>6, <3>1, <3>2
    <2>8. gap >= 0 => skipped >= 0
        BY <1>1, <1>2, ClockIsNotSetBack
    <2>9. QED
        <3>. HIDE DEF back, skipped
        <3>1. skipped >= 0 \/ back <= 0
            BY <1>1, <2>2, <2>5, <2>7
        <3>2. skipped \in Int
            BY <1>1, <2>2, <2>4, <2>6
        <3>3. QED BY <1>2, <2>2, <2>4, <2>8, <3>1, <3>2 DEF back, skipped
<1>5. QED BY <1>3, <1>4

\* An allowance is of the whole backlog a rewind brings.
LEMMA AllowanceCovers ==
    ASSUME NEW n \in Int
    PROVE  Allowance(n) \in Nat /\ Allowance(n) * Chunk >= n
<1>1. Chunk \in Nat \ {0}
    BY Units
<1>2. CASE n <= 0
    <2>1. Allowance(n) = 0
        BY <1>2 DEF Allowance
    <2>2. QED BY <1>1, <1>2, <2>1
<1>3. CASE n > 0
    <2>1. PICK m \in Nat : m = n + Chunk - 1
        BY <1>1, <1>3
    <2>2. PICK k \in Nat : k = m \div Chunk /\ m - k * Chunk \in 0 .. Chunk - 1
        BY <1>1, <2>1, DivisionOfNat
    <2>3. Allowance(n) = k + 1
        BY <1>3, <2>1, <2>2 DEF Allowance
    <2>4. (k + 1) * Chunk = k * Chunk + Chunk /\ k * Chunk \in Nat
        BY <1>1, <2>2
    <2>5. QED BY <1>1, <2>1, <2>2, <2>3, <2>4
<1>4. QED BY <1>2, <1>3

-----------------------------------------------------------------------------
(* The clock and the backlog behind it.                                    *)

Runs == [offset : Nat, origin : Int, until : Int, allowance : Nat, stalled : Int,
         rewound : BOOLEAN, produced : BOOLEAN, noRewind : BOOLEAN,
         since : Nat, skipped : Int, missed : BOOLEAN, seam : BOOLEAN]

\* What is in range.
InRange ==
    /\ now \in 0 .. Horizon
    /\ seconds \in Nat
    /\ until \in Int /\ (until = Never \/ until >= 0)
    /\ last \in Pieces
    /\ ahead \in BOOLEAN
    /\ capture \in {"down", "none", "live", "exited"}
    /\ stage \in {"idle", "hearing", "check"}
    /\ run \in Runs
    /\ at \in Int
    /\ ready \in Seq(Pieces) /\ held \in Seq(Pieces)
    /\ next \in Nat \ {0}
    /\ left \in 0 .. PerTick
    /\ faults \in 0 .. MaxFaults

Capturing == capture \in {"live", "exited"}
Backlog == held \o ready
Stamp == run.origin + run.offset

\* Nothing is held of a capture that is not.
NothingLeftOver ==
    ~Capturing => ready = <<>> /\ held = <<>> /\ stage = "idle"

\* The backlog is one stretch of the stream, up to where ffmpeg is.
BacklogIsARow ==
    Capturing =>
        /\ Row(Backlog, NextAudio, at)
        /\ capture = "live" => Full(Backlog, NextAudio, at)
        /\ Len(Backlog) # 0 => at <= Listed

\* The clock stands where the backlog begins, to within a segment, and where the
\* row has it once something of this connection is on the row.
ClockIsThere ==
    /\ until # Never => Close(until, last.to)
    /\ Capturing =>
          /\ Close(Stamp, NextAudio)
          /\ Stamp >= 0
          /\ until # Never =>
                IF run.seam
                THEN /\ Stamp = until + run.skipped
                     /\ ahead \/ run.skipped >= 0
                     /\ run.missed \/ run.skipped < Max({Seg, MinLoss})
                ELSE last.to = NextAudio /\ Stamp = until
          /\ until = Never => run.seam

\* An allowance is enough for what is left of the backlog a rewind brought.
AllowanceIsEnough ==
    (capture = "live" \/ (capture = "exited" /\ Len(Backlog) # 0)) =>
        NextAudio + run.allowance * Chunk >= Edge(run.since)

\* What the lines say.
LinesAreTrue ==
    /\ DOMAIN lines \subseteq Nat \ {0} /\ IsFiniteSet(DOMAIN lines)
    /\ \A q \in DOMAIN lines :
          /\ lines[q].said \in Int /\ lines[q].at \in Int
          /\ Close(lines[q].at, lines[q].said)
          /\ until # Never
          /\ ahead \/ lines[q].at < until

ClockInv ==
    /\ InRange /\ NothingLeftOver /\ BacklogIsARow /\ ClockIsThere
    /\ AllowanceIsEnough /\ LinesAreTrue /\ ClocksAgree

LEMMA ClockStarts == Init => ClockInv
<1> SUFFICES ASSUME Init PROVE ClockInv
    OBVIOUS
<1>1. InRange
    <2>1. run \in Runs
        BY Units DEF Init, Runs, FreshRun
    <2>2. last \in Pieces
        BY DEF Init, Pieces, Piece
    <2>3. now \in 0 .. Horizon /\ left \in 0 .. PerTick /\ faults \in 0 .. MaxFaults
        BY Units DEF Init
    <2>4. ready \in Seq(Pieces) /\ held \in Seq(Pieces) /\ at \in Int
        BY DEF Init
    <2>5. next \in Nat \ {0} /\ seconds \in Nat /\ until \in Int /\ until = Never /\ ahead \in BOOLEAN
          /\ capture \in {"down", "none", "live", "exited"}
          /\ stage \in {"idle", "hearing", "check"}
        <3>1. next = 1 /\ seconds = 0 /\ until = Never /\ ahead = FALSE
              /\ capture = "down" /\ stage = "idle"
            BY DEF Init
        <3>2. next \in Nat \ {0} /\ seconds \in Nat /\ until \in Int
            BY <3>1, Units
        <3>3. QED BY <3>1, <3>2
    <2>6. QED BY <2>1, <2>2, <2>3, <2>4, <2>5 DEF InRange
<1>2. NothingLeftOver /\ BacklogIsARow /\ AllowanceIsEnough /\ ClocksAgree
    BY DEF Init, NothingLeftOver, BacklogIsARow, AllowanceIsEnough, ClocksAgree, Capturing
<1>3. ClockIsThere
    BY DEF Init, ClockIsThere, Capturing
<1>4. LinesAreTrue
    BY FS_EmptySet DEF Init, LinesAreTrue
<1>5. QED BY <1>1, <1>2, <1>3, <1>4 DEF ClockInv

\* Where the next audio is when the backlog is a row.
LEMMA NextAudioIs ==
    ASSUME NEW b \in Int, NEW a \in Int, Row(Backlog, b, a), at = a
    PROVE  NextAudio = b
  BY RowFirst DEF NextAudio, Backlog

LEMMA NextAudioIsNumber ==
    ASSUME InRange, Capturing, BacklogIsARow
    PROVE  NextAudio \in Int
<1>1. Backlog \in Seq(Pieces) /\ at \in Int
    BY DEF InRange, Backlog
<1>2. Piece(at, 0) \in Pieces
    BY <1>1 DEF Piece, Pieces
<1>3. Backlog \o <<Piece(at, 0)>> \in Seq(Pieces) /\ 1 \in 1 .. Len(Backlog \o <<Piece(at, 0)>>)
    BY <1>1, <1>2
<1>4. (Backlog \o <<Piece(at, 0)>>)[1] \in Pieces
    BY <1>3
<1>5. QED BY <1>4 DEF NextAudio, Backlog, Pieces

-----------------------------------------------------------------------------
(* What the steps do to it, by their kind.                                 *)

\* A step that leaves the clock and what it is compared with.
Quietly ==
    /\ UNCHANGED <<seconds, until, lines, last, ahead, at, Backlog>>
    /\ capture' = capture \/ (capture = "live" /\ capture' = "exited")
    /\ now <= now'
    /\ run'.offset = run.offset /\ run'.origin = run.origin
    /\ run'.until = run.until /\ run'.allowance = run.allowance
    /\ run'.since = run.since /\ run'.skipped = run.skipped
    /\ run'.missed = run.missed /\ run'.seam = run.seam

LEMMA ListedGrows ==
    ASSUME now \in Nat, now' \in Nat, now <= now'
    PROVE  Listed \in Int /\ Listed' \in Int /\ Listed <= Listed'
<1>1. Edge(now) \in Nat /\ Edge(now') \in Nat /\ Edge(now) <= Edge(now')
    BY EdgeIs, EdgeGrows
<1>2. LiveEdge * Seg \in Int
    BY Units
<1>3. QED BY <1>1, <1>2 DEF Listed

LEMMA QuietlyKeeps ==
    ASSUME ClockInv, Quietly, InRange', NothingLeftOver'
    PROVE  ClockInv'
<1>1. NextAudio' = NextAudio /\ Backlog' = Backlog /\ Stamp' = Stamp /\ Capturing' = Capturing
    BY DEF Quietly, NextAudio, Backlog, Stamp, Capturing
<1>2. now \in Nat /\ now' \in Nat /\ Listed \in Int /\ Listed' \in Int /\ Listed <= Listed'
    <2>1. now \in Nat /\ now' \in Nat /\ now <= now'
        BY Units DEF ClockInv, InRange, Quietly
    <2>2. QED BY <2>1, ListedGrows
<1>3. BacklogIsARow'
    <2>1. SUFFICES ASSUME Capturing
          PROVE /\ Row(Backlog, NextAudio, at)
                /\ capture = "live" => Full(Backlog, NextAudio, at)
                /\ Len(Backlog) # 0 => at <= Listed'
        BY <1>1 DEF BacklogIsARow, Quietly
    <2>2. at \in Int
        BY DEF ClockInv, InRange
    <2>3. QED BY <1>2, <2>1, <2>2 DEF ClockInv, BacklogIsARow
<1>4. ClockIsThere'
    BY <1>1 DEF ClockInv, ClockIsThere, Quietly
<1>5. AllowanceIsEnough'
    BY <1>1 DEF ClockInv, AllowanceIsEnough, Quietly
<1>6. LinesAreTrue'
    BY DEF ClockInv, LinesAreTrue, Quietly
<1>7. ClocksAgree'
    BY DEF ClockInv, ClocksAgree, Quietly
<1>8. QED BY <1>3, <1>4, <1>5, <1>6, <1>7 DEF ClockInv

\* A step that accounts for the oldest n of the backlog.
Accounts(n) ==
    LET from == Backlog[1].from
        to == Backlog[n].to
    IN  /\ Capturing
        /\ UNCHANGED <<now, ahead, at, capture>>
        /\ Backlog' \in Seq(Pieces) /\ Len(Backlog') = Len(Backlog) - n
        /\ \A i \in 1 .. Len(Backlog') : Backlog'[i] = Backlog[n + i]
        /\ seconds' = seconds + (to - from)
        /\ until' = run.origin + run.offset + (to - from)
        /\ last' = [from |-> from, to |-> to]
        /\ run'.offset = run.offset + (to - from) /\ run'.origin = run.origin
        /\ run'.until = run.origin + run.offset + (to - from)
        /\ run'.since = run.since
        /\ ~run'.seam
        /\ \/ run'.allowance = run.allowance
           \/ n = 1 /\ run'.allowance >= run.allowance - 1
        /\ DOMAIN lines' \subseteq Nat \ {0} /\ IsFiniteSet(DOMAIN lines')
        /\ \A q \in DOMAIN lines' :
              \/ q \in DOMAIN lines /\ lines'[q] = lines[q]
              \/ lines'[q] = [said |-> from, at |-> run.origin + run.offset]

LEMMA AccountsIs ==
    ASSUME ClockInv, NEW n \in 1 .. Len(Backlog), Accounts(n)
    PROVE  /\ Backlog[1].from = NextAudio /\ NextAudio \in Int
           /\ Backlog[n].to \in Int /\ Backlog[n].to > NextAudio
           /\ Backlog[n].to <= NextAudio + n * Chunk
           /\ Len(Backlog') # 0 => Backlog[n].to = NextAudio + n * Chunk
           /\ capture = "live" => Backlog[n].to = NextAudio + n * Chunk
           /\ Row(Backlog', Backlog[n].to, at)
           /\ Full(Backlog, NextAudio, at) => Full(Backlog', Backlog[n].to, at)
           /\ NextAudio' = Backlog[n].to
<1>1. NextAudio \in Int
    BY NextAudioIsNumber DEF ClockInv, Accounts
<1>2. PICK b \in Int : b = NextAudio
    BY <1>1
<1>3. PICK s \in Seq(Pieces) : s = Backlog
    <2>1. held \in Seq(Pieces) /\ ready \in Seq(Pieces)
        BY DEF ClockInv, InRange
    <2>2. Backlog \in Seq(Pieces)
        BY <2>1 DEF Backlog
    <2>3. QED BY <2>2
<1>4. PICK t \in Seq(Pieces) : t = Backlog'
    BY DEF Accounts
<1>5. PICK a \in Int : a = at
    BY DEF ClockInv, InRange
<1>6. Row(s, b, a) /\ n \in 1 .. Len(s) /\ (capture = "live" => Full(s, b, a))
    BY <1>2, <1>3, <1>5 DEF ClockInv, BacklogIsARow, Accounts
<1>7. Len(t) = Len(s) - n /\ \A i \in 1 .. Len(t) : t[i] = s[n + i]
    BY <1>3, <1>4 DEF Accounts
<1>8. /\ s[1].from = b
      /\ s[n].to \in Int /\ s[n].to > b
      /\ s[n].to <= b + n * Chunk
      /\ Len(t) # 0 => s[n].to = b + n * Chunk
      /\ Row(t, s[n].to, a)
      /\ Full(s, b, a) => Full(t, s[n].to, a)
    BY <1>6, <1>7, RowDrop
<1>9. (t \o <<Piece(a, 0)>>)[1].from = s[n].to
    BY <1>8, RowFirst
<1>10. NextAudio' = s[n].to
    BY <1>4, <1>5, <1>9 DEF NextAudio, Backlog, Accounts
<1>11. capture = "live" => s[n].to = b + n * Chunk
    <2>1. SUFFICES ASSUME Full(s, b, a), Full(t, s[n].to, a), Len(t) = 0
                   PROVE  s[n].to = b + n * Chunk
        <3>1. Len(t) \in Nat
            BY <1>4
        <3>2. QED BY <1>6, <1>8
    <2>2. Len(s) = n
        BY <1>6, <1>7, <2>1
    <2>3. 0 * Chunk = 0
        BY Units
    <2>4. QED BY <1>8, <2>1, <2>2, <2>3 DEF Full
<1>12. QED BY <1>1, <1>2, <1>3, <1>4, <1>5, <1>8, <1>10, <1>11

LEMMA AccountsKeeps ==
    ASSUME ClockInv, InRange', NothingLeftOver', NEW n \in 1 .. Len(Backlog), Accounts(n)
    PROVE  ClockInv'
<1> DEFINE to == Backlog[n].to
           from == Backlog[1].from
<1>1. /\ from = NextAudio /\ NextAudio \in Int
      /\ to \in Int /\ to > NextAudio
      /\ to <= NextAudio + n * Chunk
      /\ Len(Backlog') # 0 => to = NextAudio + n * Chunk
      /\ capture = "live" => to = NextAudio + n * Chunk
      /\ Row(Backlog', to, at)
      /\ Full(Backlog, NextAudio, at) => Full(Backlog', to, at)
      /\ NextAudio' = to
    BY AccountsIs
<1>2. /\ Capturing /\ Capturing' /\ now' = now /\ ahead' = ahead /\ at' = at /\ capture' = capture
      /\ seconds' = seconds + (to - from)
      /\ until' = Stamp + (to - from)
      /\ last' = [from |-> from, to |-> to]
      /\ run'.offset = run.offset + (to - from) /\ run'.origin = run.origin
      /\ run'.until = Stamp + (to - from)
      /\ run'.since = run.since
      /\ ~run'.seam
    BY DEF Accounts, Capturing, Stamp
<1>3. /\ Stamp \in Int /\ Stamp >= 0 /\ Close(Stamp, NextAudio)
      /\ run \in Runs /\ run.offset \in Nat /\ run.origin \in Int
      /\ run.allowance \in Nat /\ run.since \in Nat /\ at \in Int
    <2>1. run \in Runs /\ at \in Int
        BY DEF ClockInv, InRange
    <2>2. run.offset \in Nat /\ run.origin \in Int /\ run.allowance \in Nat /\ run.since \in Nat
        BY <2>1 DEF Runs
    <2>3. QED BY <1>2, <2>1, <2>2 DEF ClockInv, ClockIsThere, Stamp
<1>4. Stamp' = Stamp + (to - from)
    <2>1. PICK u \in Int : u = to - from
        BY <1>1
    <2>2. PICK x \in Int, y \in Int : x = run.origin /\ y = run.offset
        BY <1>3
    <2>3. run'.origin = x /\ run'.offset = y + u
        BY <1>2, <2>1, <2>2
    <2>4. Stamp' = x + (y + u) /\ Stamp = x + y
        BY <2>2, <2>3 DEF Stamp
    <2>5. QED BY SMTT(30), <2>1, <2>2, <2>4
<1>5. until' # Never /\ until' \in Int /\ until' = Stamp'
    <2>1. Never < -1 /\ Never \in Int
        BY Units
    <2>2. Stamp + (to - from) > 0
        BY <1>1, <1>3
    <2>3. QED BY SMTT(30), <1>1, <1>2, <1>3, <1>4, <2>1, <2>2
<1>6. BacklogIsARow'
    <2>1. Row(Backlog', NextAudio', at') /\ (capture' = "live" => Full(Backlog', NextAudio', at'))
        BY <1>1, <1>2 DEF ClockInv, BacklogIsARow
    <2>2. Len(Backlog') # 0 => Len(Backlog) # 0
        <3>1. Len(Backlog') \in Nat /\ Len(Backlog') = Len(Backlog) - n /\ Len(Backlog) \in Nat
            BY DEF Accounts, ClockInv, InRange, Backlog
        <3>2. QED BY <3>1
    <2>3. Listed' = Listed
        BY <1>2 DEF Listed, Edge
    <2>4. QED BY <1>2, <2>1, <2>2, <2>3 DEF BacklogIsARow, ClockInv
<1>7. Close(Stamp', NextAudio')
    <2>1. Stamp' - NextAudio' = Stamp - NextAudio
        BY <1>1, <1>3, <1>4
    <2>2. QED BY <1>3, <2>1 DEF Close
<1>8. ClockIsThere'
    <2>1. last'.to = to /\ last'.to = NextAudio'
        BY <1>1, <1>2
    <2>2. Close(until', last'.to)
        BY <1>5, <1>7, <2>1
    <2>3. Stamp' >= 0
        BY <1>1, <1>3, <1>4
    <2>4. QED BY <1>2, <1>5, <1>7, <2>1, <2>2, <2>3 DEF ClockIsThere
<1>9. AllowanceIsEnough'
    <2>1. SUFFICES ASSUME capture = "live" \/ (capture = "exited" /\ Len(Backlog') # 0)
                   PROVE  to + run'.allowance * Chunk >= Edge(run.since)
        BY <1>1, <1>2 DEF AllowanceIsEnough
    <2>2. to = NextAudio + n * Chunk
        BY <1>1, <2>1
    <2>3. NextAudio + run.allowance * Chunk >= Edge(run.since)
        <3>1. Len(Backlog') \in Nat /\ Len(Backlog') = Len(Backlog) - n /\ Len(Backlog) \in Nat
            BY DEF Accounts, ClockInv, InRange, Backlog
        <3>2. capture = "live" \/ (capture = "exited" /\ Len(Backlog) # 0)
            BY <2>1, <3>1
        <3>3. QED BY <3>2 DEF ClockInv, AllowanceIsEnough
    <2>4. run' \in Runs /\ run'.allowance \in Nat
        <3>1. run' \in Runs
            BY DEF InRange
        <3>2. QED BY <3>1 DEF Runs
    <2>5. Chunk \in Nat \ {0} /\ n \in Nat \ {0}
        BY Units
    <2>6. Edge(run.since) \in Nat
        BY <1>3, EdgeIs
    <2>7. PICK x \in Nat : x = run.allowance
        BY <1>3
    <2>8. PICK y \in Nat : y = run'.allowance
        BY <2>4
    <2>9. y = x \/ (n = 1 /\ y >= x - 1)
        BY <2>7, <2>8 DEF Accounts
    <2>10. n * Chunk \in Nat /\ x * Chunk \in Nat /\ y * Chunk \in Nat
        BY <2>5, Products
    <2>11. n * Chunk + y * Chunk >= x * Chunk
        <3>1. CASE y = x
            BY <2>10, <3>1
        <3>2. CASE n = 1 /\ y >= x - 1
            <4>1. (x - 1) * Chunk <= y * Chunk /\ (x - 1) * Chunk \in Int
                BY <2>5, <3>2, Multiples
            <4>2. (x - 1) * Chunk = x * Chunk - Chunk /\ n * Chunk = Chunk
                BY <2>5, <3>2
            <4>3. QED BY <2>5, <2>10, <4>1, <4>2
        <3>3. QED BY <2>9, <3>1, <3>2
    <2>12. QED BY <1>1, <2>2, <2>3, <2>6, <2>7, <2>8, <2>10, <2>11
<1>10. ahead \/ until = Never \/ until <= Stamp
    <2>1. CASE run.seam
        <3>1. run.skipped \in Int /\ until \in Int
            BY DEF ClockInv, InRange, Runs
        <3>2. QED BY <1>2, <2>1, <3>1 DEF ClockInv, ClockIsThere
    <2>2. CASE ~run.seam
        <3>1. until \in Int
            BY DEF ClockInv, InRange
        <3>2. QED BY <1>2, <1>3, <2>2, <3>1 DEF ClockInv, ClockIsThere
    <2>3. QED BY <2>1, <2>2
<1>11. LinesAreTrue'
    <2>1. DOMAIN lines' \subseteq Nat \ {0} /\ IsFiniteSet(DOMAIN lines')
        BY DEF Accounts
    <2>2. ASSUME NEW q \in DOMAIN lines'
          PROVE /\ lines'[q].said \in Int /\ lines'[q].at \in Int
                /\ Close(lines'[q].at, lines'[q].said)
                /\ ahead' \/ lines'[q].at < until'
        <3>1. CASE q \in DOMAIN lines /\ lines'[q] = lines[q]
            <4>1. /\ lines[q].said \in Int /\ lines[q].at \in Int
                  /\ Close(lines[q].at, lines[q].said)
                  /\ until # Never
                  /\ ahead \/ lines[q].at < until
                BY <3>1 DEF ClockInv, LinesAreTrue
            <4>2. until \in Int
                BY DEF ClockInv, InRange
            <4>3. ahead \/ lines[q].at < until'
                <5>1. until' > Stamp /\ until' \in Int
                    BY <1>1, <1>2, <1>3, <1>5
                <5>2. QED BY <1>3, <1>10, <4>1, <4>2, <5>1
            <4>4. QED BY <1>2, <3>1, <4>1, <4>3
        <3>2. CASE lines'[q] = [said |-> from, at |-> Stamp]
            <4>1. lines'[q].said = NextAudio /\ lines'[q].at = Stamp
                BY <1>1, <3>2
            <4>2. QED BY <1>1, <1>2, <1>3, <4>1
        <3>3. QED BY <3>1, <3>2 DEF Accounts, Stamp
    <2>3. QED BY <1>5, <2>1, <2>2 DEF LinesAreTrue
<1>12. ClocksAgree'
    <2>1. run.offset = seconds
        BY <1>2 DEF ClockInv, ClocksAgree, Capturing
    <2>2. QED BY <1>2, <2>1 DEF ClocksAgree
<1>13. QED BY <1>6, <1>8, <1>9, <1>11, <1>12 DEF ClockInv

-----------------------------------------------------------------------------
(* The steps.                                                              *)

LEMMA FfmpegCutsKeeps ==
    ASSUME ClockInv, NEW l \in 1 .. Chunk, Capturing, capture = "live", Cut(l),
           UNCHANGED <<now, row, stage, run, next, held, left>>,
           capture' \in {"live", "exited"}, capture' = "live" => l = Chunk,
           faults' \in 0 .. MaxFaults
    PROVE  ClockInv'
<1>1. at \in Int /\ ready \in Seq(Pieces) /\ held \in Seq(Pieces) /\ NextAudio \in Int
    BY NextAudioIsNumber DEF ClockInv, InRange
<1>2. Piece(at, l) \in Pieces /\ at' = at + l /\ ready' = Append(ready, Piece(at, l))
    BY <1>1 DEF Piece, Pieces, Cut
<1>3. PICK s \in Seq(Pieces) : s = Backlog
    <2>1. Backlog \in Seq(Pieces)
        BY <1>1 DEF Backlog
    <2>2. QED BY <2>1
<1>4. Backlog' = Append(s, Piece(at, l))
    <2>1. PICK p \in Pieces : p = Piece(at, l)
        BY <1>2
    <2>2. held \o Append(ready, p) = Append(held \o ready, p)
        BY <1>1
    <2>3. QED BY <1>2, <1>3, <2>1, <2>2 DEF Backlog
<1>5. Row(s, NextAudio, at) /\ Full(s, NextAudio, at)
    BY <1>3 DEF ClockInv, BacklogIsARow
<1>6. Row(Backlog', NextAudio, at') /\ (l = Chunk => Full(Backlog', NextAudio, at'))
    BY <1>1, <1>2, <1>4, <1>5, RowCut
<1>7. NextAudio' = NextAudio
    <2>1. PICK b \in Int : b = NextAudio
        BY <1>1
    <2>2. PICK a \in Int : a = at'
        BY <1>1, <1>2
    <2>3. PICK t \in Seq(Pieces) : t = Backlog'
        BY SMTT(30), <1>2, <1>4
    <2>4. (t \o <<Piece(a, 0)>>)[1].from = b
        BY <1>6, <2>1, <2>2, <2>3, RowFirst
    <2>5. QED BY <2>1, <2>2, <2>3, <2>4 DEF NextAudio, Backlog
<1>8. InRange'
    <2>1. ready' \in Seq(Pieces) /\ at' \in Int
        BY <1>1, <1>2
    <2>2. QED BY <2>1 DEF ClockInv, InRange, row
<1>9. NothingLeftOver' /\ Capturing'
    BY DEF NothingLeftOver, Capturing
<1>10. BacklogIsARow'
    <2>1. at' <= Listed /\ Listed' = Listed
        BY <1>2 DEF Cut, Listed, Edge
    <2>2. QED BY <1>6, <1>7, <2>1 DEF BacklogIsARow
<1>11. ClockIsThere'
    BY <1>7, <1>9 DEF ClockInv, ClockIsThere, Stamp, row, Capturing
<1>12. AllowanceIsEnough'
    BY <1>7 DEF ClockInv, AllowanceIsEnough
<1>13. LinesAreTrue' /\ ClocksAgree'
    BY DEF ClockInv, LinesAreTrue, ClocksAgree, row
<1>14. QED BY <1>8, <1>9, <1>10, <1>11, <1>12, <1>13 DEF ClockInv

\* Whatever the process had is let go of.
LEMMA CrashKeeps ==
    ASSUME ClockInv, Crash
    PROVE  ClockInv'
<1>1. run' \in Runs
    BY Units DEF Crash, FreshRun, Runs
<1>2. faults' \in 0 .. MaxFaults
    BY Units DEF Crash, ClockInv, InRange
<1>3. InRange'
    BY <1>1, <1>2, Units DEF Crash, ClockInv, InRange, row
<1>4. NothingLeftOver' /\ BacklogIsARow' /\ AllowanceIsEnough' /\ ClocksAgree'
    BY DEF Crash, NothingLeftOver, BacklogIsARow, AllowanceIsEnough, ClocksAgree, Capturing
<1>5. ClockIsThere' /\ LinesAreTrue'
    BY DEF Crash, ClockInv, ClockIsThere, LinesAreTrue, Capturing, row
<1>6. QED BY <1>3, <1>4, <1>5 DEF ClockInv

LEMMA NextSeqIs ==
    ASSUME IsFiniteSet(DOMAIN lines), DOMAIN lines \subseteq Nat \ {0}
    PROVE  NextSeq \in Nat \ {0} /\ \A q \in DOMAIN lines : q < NextSeq
<1> DEFINE S == {0} \cup DOMAIN lines
<1>1. IsFiniteSet(S) /\ S # {} /\ S \subseteq Nat
    <2>1. IsFiniteSet({0})
        BY FS_Singleton
    <2>2. IsFiniteSet({0} \cup DOMAIN lines)
        BY <2>1, FS_Union
    <2>3. QED BY <2>2
<1>2. Max(S) \in S /\ \A q \in S : q <= Max(S)
    <2>. HIDE DEF S
    <2>1. QED BY <1>1, LargestOf
<1>3. Max(S) \in Nat
    BY <1>1, <1>2
<1>4. \A q \in DOMAIN lines : q \in Nat /\ q <= Max(S)
    BY <1>2
<1>5. QED BY <1>3, <1>4 DEF NextSeq

\* The seqs of what is heard begin at next and are as many as the lines said.
LEMMA NextMoves ==
    ASSUME NEW hearing \in Hearings, next \in Nat \ {0}, Hear(hearing)
    PROVE  LET spoken == {k \in DOMAIN hearing : hearing[k] = "words"}
               seqs == {next + k - 1 : k \in spoken}
           IN  /\ seqs \subseteq next .. next + Len(hearing) - 1
               /\ Len(hearing) \in Nat
               /\ IsFiniteSet(seqs) /\ Cardinality(spoken) \in Nat
               /\ next' = next + Cardinality(spoken)
               /\ next' \in Nat \ {0}
               /\ (\A k \in DOMAIN hearing : hearing[k] = "words") =>
                     next' = next + Len(hearing)
<1> DEFINE spoken == {k \in DOMAIN hearing : hearing[k] = "words"}
           seqs == {next + k - 1 : k \in spoken}
<1>1. hearing \in Seq({"words", "nul"}) /\ DOMAIN hearing = 1 .. Len(hearing) /\ Len(hearing) \in Nat
    BY UnitsAssumption
<1>2. spoken \subseteq 1 .. Len(hearing) /\ seqs \subseteq next .. next + Len(hearing) - 1
    BY <1>1
<1>3. IsFiniteSet(1 .. Len(hearing)) /\ Cardinality(1 .. Len(hearing)) = Len(hearing)
    BY <1>1, FS_Interval
<1>4. IsFiniteSet(spoken) /\ Cardinality(spoken) \in Nat
    BY <1>2, <1>3, FS_Subset, FS_CardinalityType
<1>5. IsFiniteSet(seqs)
    <2>1. IsFiniteSet(next .. next + Len(hearing) - 1)
        BY <1>1, FS_Interval
    <2>2. QED BY <1>2, <2>1, FS_Subset
<1>6. next' = next + Cardinality(spoken)
    BY DEF Hear
<1>7. (\A k \in DOMAIN hearing : hearing[k] = "words") => spoken = 1 .. Len(hearing)
    BY <1>1
<1>8. QED
    <2>. HIDE DEF spoken, seqs
    <2>1. next' \in Nat \ {0}
        BY <1>4, <1>6
    <2>2. (\A k \in DOMAIN hearing : hearing[k] = "words") => next' = next + Len(hearing)
        BY <1>3, <1>6, <1>7
    <2>3. QED BY <1>1, <1>2, <1>4, <1>5, <1>6, <2>1, <2>2 DEF spoken, seqs

LEMMA BeginKeeps ==
    ASSUME ClockInv, Begin
    PROVE  ClockInv'
<1>1. run' \in Runs /\ run'.offset = seconds /\ run'.until = until
    BY Units DEF Begin, FreshRun, Runs, ClockInv, InRange
<1>2. InRange'
    <2>1. next' \in Nat \ {0}
        BY NextSeqIs DEF Begin, ClockInv, LinesAreTrue
    <2>2. QED BY <1>1, <2>1 DEF Begin, ClockInv, InRange, row, tmpfs
<1>3. NothingLeftOver'
    BY DEF Begin, ClockInv, NothingLeftOver, Capturing, tmpfs
<1>4. BacklogIsARow' /\ AllowanceIsEnough' /\ ClocksAgree'
    BY <1>1 DEF Begin, BacklogIsARow, AllowanceIsEnough, ClocksAgree, Capturing, row
<1>5. ClockIsThere' /\ LinesAreTrue'
    BY DEF Begin, ClockInv, ClockIsThere, LinesAreTrue, Capturing, row
<1>6. QED BY <1>2, <1>3, <1>4, <1>5 DEF ClockInv

\* A connect puts the clock and ffmpeg at the same place, but for the fetch of
\* the playlist that ffmpeg makes for itself.
LEMMA ConnectKeeps ==
    ASSUME ClockInv, NEW size \in Sizes, NEW lag \in 0 .. MaxLag, Connect(size, lag)
    PROVE  ClockInv'
<1> DEFINE found == Found(size)
           window == IF run.noRewind THEN NoWindow ELSE found
           gap == IF until = Never THEN 0 ELSE now - until
           back == IF until = Never THEN 0 ELSE Back(gap, window, Limit)
           skipped == IF until = Never THEN 0 ELSE Skipped(gap, window, Limit)
<1>1. /\ run \in Runs /\ run.offset \in Nat /\ now \in Nat /\ until \in Int
      /\ until = Never \/ until >= 0
      /\ Seg \in Nat \ {0} /\ Never < -1 /\ Never \in Int /\ size \in Nat
    BY Units DEF ClockInv, InRange, Runs
<1>2. capture = "none" /\ run.until = until /\ run.offset = seconds
    BY DEF Connect, ClockInv, ClocksAgree
<1>3. /\ capture' = "live"
      /\ at' = Edge(now + lag) - back * Seg
      /\ run' = [run EXCEPT
               !.origin = (IF until = Never THEN now ELSE until + skipped) - run.offset,
               !.allowance = Allowance(gap - skipped),
               !.rewound = back # 0,
               !.produced = FALSE,
               !.since = now,
               !.skipped = skipped,
               !.missed = until # Never /\ skipped >= Max({found.seg, MinLoss}),
               !.seam = TRUE]
      /\ ahead' = (ahead \/ skipped < 0)
      /\ UNCHANGED <<now, seconds, until, lines, last, stage, next, ready, held,
                     left, faults>>
    BY <1>2, ZenonT(30) DEF Connect, Start, Anchor, Missed, Found
<1>4. /\ back \in Int /\ skipped \in Int /\ gap \in Int
      /\ until # Never => skipped = gap - back * Seg /\ (skipped >= 0 \/ back <= 0)
      /\ until = Never => skipped = 0 /\ back = 0
      /\ gap = IF until = Never THEN 0 ELSE now - until
    <2>1. window \in {NoWindow, Found(size)} /\ gap \in Int
        BY <1>1
    <2>2. Back(gap, window, Limit) \in Int /\ Skipped(gap, window, Limit) \in Int
          /\ Skipped(gap, window, Limit) = gap - Back(gap, window, Limit) * Seg
          /\ (Skipped(gap, window, Limit) >= 0 \/ Back(gap, window, Limit) <= 0)
        <3>. HIDE DEF gap, window
        <3>1. QED BY <1>1, <2>1, ConnectIs
    <2>3. QED BY <2>1, <2>2
<1>5. found.seg = 0 \/ found.seg = Seg
    BY DEF Found, NoWindow
<1> HIDE DEF found, window, gap, back, skipped
<1>6. PICK b \in Int : b = back * Seg
    BY <1>1, <1>4
<1>7. until = Never => b = 0
    BY <1>1, <1>4, <1>6
<1>8. back <= 0 => b <= 0
    <2>1. back <= 0 => back * Seg <= 0 * Seg
        BY <1>1, <1>4, Multiples
    <2>2. 0 * Seg = 0
        BY <1>1
    <2>3. QED BY <1>6, <2>1, <2>2
<1>9. PICK e \in Nat : e = Edge(now + lag) /\ e >= Edge(now) /\ Edge(now) \in Nat
                       /\ now - e \in -MaxLag .. Seg - 1
    <2>0. PICK u \in Nat : u = now + lag
        BY <1>1, Units
    <2>1. now + lag \in Nat /\ now <= u /\ MaxLag \in Nat
        BY <1>1, <2>0, Units
    <2>2. Edge(now + lag) \in Nat /\ Edge(now) \in Nat /\ Edge(now) <= Edge(now + lag)
          /\ now + lag - Edge(now + lag) \in 0 .. Seg - 1
        <3>1. Edge(u) \in Nat /\ u - Edge(u) \in 0 .. Seg - 1 /\ Edge(now) \in Nat
            BY <1>1, EdgeIs
        <3>2. Edge(now) <= Edge(u)
            BY <1>1, <2>1, EdgeGrows
        <3>3. PICK d \in Nat : d = Edge(u)
            BY <3>1
        <3>4. d = Edge(now + lag)
            BY <2>0, <3>3, Zenon
        <3>5. u - d \in 0 .. Seg - 1 /\ Edge(now) <= d
            BY <3>1, <3>2, <3>3
        <3>6. now + lag - d \in 0 .. Seg - 1
            BY <1>1, <2>0, <2>1, <3>3, <3>5, Units
        <3>7. QED BY <3>1, <3>3, <3>4, <3>5, <3>6
    <2>3. now - Edge(now + lag) \in -MaxLag .. Seg - 1
        BY <1>1, <2>1, <2>2
    <2>4. QED BY <2>2, <2>3
<1>10. at' = e - b
    BY <1>3, <1>6, <1>9
<1>11. Allowance(gap - skipped) \in Nat /\ Allowance(gap - skipped) * Chunk >= b
    <2>1. gap - skipped \in Int
        BY <1>4
    <2>2. gap - skipped = b
        BY <1>4, <1>6, <1>7
    <2>3. QED BY <2>1, <2>2, AllowanceCovers
<1>12. /\ run'.offset = run.offset
       /\ run'.origin = (IF until = Never THEN now ELSE until + skipped) - run.offset
       /\ run'.until = until
       /\ run'.allowance = Allowance(gap - skipped)
       /\ run'.since = now
       /\ run'.skipped = skipped
       /\ run'.missed = (until # Never /\ skipped >= Max({found.seg, MinLoss}))
       /\ run'.seam
       /\ run' \in Runs
    <2>1. (IF until = Never THEN now ELSE until + skipped) - run.offset \in Int
        BY <1>1, <1>4
    <2>2. run' \in Runs
        BY ZenonT(30), <1>1, <1>3, <1>4, <1>11, <2>1 DEF Runs
    <2>3. QED BY <1>1, <1>2, <1>3, <2>2 DEF Runs
<1>13. Stamp' = IF until = Never THEN now ELSE until + skipped
    BY <1>1, <1>4, <1>12 DEF Stamp
<1>14. Stamp' = now - b
    <2>1. CASE until = Never
        BY <1>1, <1>7, <1>13, <2>1
    <2>2. CASE until # Never
        BY <1>1, <1>4, <1>6, <1>13, <2>2
    <2>3. QED BY <2>1, <2>2
<1>15. Stamp' >= 0
    <2>1. CASE until = Never
        BY <1>1, <1>13, <2>1
    <2>2. CASE until # Never /\ skipped >= 0
        BY <1>1, <1>4, <1>13, <2>2
    <2>3. CASE until # Never /\ back <= 0
        BY <1>1, <1>8, <1>14, <2>3
    <2>4. QED BY <1>4, <2>1, <2>2, <2>3
<1>16. ready' = <<>> /\ held' = <<>> /\ Backlog' = <<>>
    BY <1>2, <1>3 DEF ClockInv, NothingLeftOver, Capturing, Backlog
<1>17. at' \in Int /\ Row(Backlog', at', at') /\ Full(Backlog', at', at')
    <2>1. at' \in Int
        BY <1>9, <1>10
    <2>2. Len(<<>>) = 0 /\ 0 * Chunk = 0 /\ <<>> \in Seq(Pieces)
        BY Units
    <2>3. QED BY <1>16, <2>1, <2>2 DEF Row, Full
<1>18. NextAudio' = at'
    <2>1. PICK a \in Int : a = at'
        BY <1>17
    <2>2. (Backlog' \o <<Piece(a, 0)>>)[1].from = a
        BY <1>17, <2>1, RowFirst
    <2>3. QED BY <2>1, <2>2 DEF NextAudio, Backlog
<1>19. InRange'
    <2>1. ahead' \in BOOLEAN /\ capture' \in {"down", "none", "live", "exited"}
        BY <1>3
    <2>2. QED BY <1>3, <1>12, <1>17, <2>1 DEF ClockInv, InRange
<1>20. NothingLeftOver' /\ BacklogIsARow'
    <2>1. Len(Backlog') = 0
        BY <1>16
    <2>2. QED BY <1>3, <1>17, <1>18, <2>1 DEF NothingLeftOver, BacklogIsARow, Capturing
<1>21. ClockIsThere'
    <2>1. Close(Stamp', NextAudio')
        <3>1. Stamp' - NextAudio' = now - e
            BY <1>1, <1>9, <1>10, <1>14, <1>18
        <3>2. QED BY <1>9, <3>1 DEF Close
    <2>2. until' # Never =>
             /\ Stamp' = until' + run'.skipped
             /\ ahead' \/ run'.skipped >= 0
        <3>1. ahead' \/ skipped >= 0
            <4>1. skipped < 0 => ahead'
                BY <1>3, Zenon
            <4>2. skipped < 0 \/ skipped >= 0
                BY <1>4
            <4>3. QED BY <4>1, <4>2
        <3>2. run'.skipped = skipped /\ until' = until
            BY <1>3, <1>12
        <3>3. until # Never => Stamp' = until + skipped
            BY <1>13
        <3>4. QED BY <3>1, <3>2, <3>3
    <2>3. until' # Never => run'.missed \/ run'.skipped < Max({Seg, MinLoss})
        <3>1. MinLoss \in Nat
            BY Units
        <3>2. found.seg \in Int
            BY <1>1, <1>5
        <3>3. Max({found.seg, MinLoss}) = IF found.seg >= MinLoss THEN found.seg ELSE MinLoss
            BY <3>1, <3>2, MaxOfTwo
        <3>4. Max({Seg, MinLoss}) = IF Seg >= MinLoss THEN Seg ELSE MinLoss
            BY <1>1, <3>1, MaxOfTwo
        <3>5. PICK x \in Int, y \in Int : x = Max({found.seg, MinLoss}) /\ y = Max({Seg, MinLoss})
            BY <1>1, <3>1, <3>2, <3>3, <3>4
        <3>6. x <= y
            BY <1>1, <1>5, <3>1, <3>3, <3>4, <3>5
        <3>7. skipped >= x \/ skipped < y
            BY <1>4, <3>5, <3>6
        <3>8. QED BY <1>3, <1>12, <3>5, <3>7
    <2>4. until' # Never => Close(until', last'.to)
        BY <1>3 DEF ClockInv, ClockIsThere
    <2>5. QED BY <1>12, <1>15, <2>1, <2>2, <2>3, <2>4 DEF ClockIsThere
<1>22. AllowanceIsEnough'
    <2>1. PICK y \in Int : y = Allowance(gap - skipped) * Chunk /\ y >= b
        <3>1. Allowance(gap - skipped) * Chunk \in Int
            BY <1>11, Units
        <3>2. QED BY <1>11, <3>1
    <2>2. NextAudio' + run'.allowance * Chunk >= Edge(now)
        BY <1>9, <1>10, <1>12, <1>18, <2>1
    <2>3. Edge(run'.since) = Edge(now)
        BY <1>12
    <2>4. Edge(run.since)' = Edge(run'.since)
        BY DEF Edge
    <2>5. QED BY <2>2, <2>3, <2>4 DEF AllowanceIsEnough
<1>23. LinesAreTrue'
    BY <1>3 DEF ClockInv, LinesAreTrue
<1>24. ClocksAgree'
    BY <1>2, <1>3, <1>12 DEF ClocksAgree
<1>25. QED BY <1>19, <1>20, <1>21, <1>22, <1>23, <1>24 DEF ClockInv

\* A Running is one after what Past and Accounted change of it.
LEMMA RunsAfter ==
    ASSUME NEW r \in Runs, NEW x \in Nat, NEW y \in Int, NEW l \in Nat, NEW t \in Int
    PROVE  /\ [r EXCEPT !.offset = x, !.until = y, !.skipped = 0, !.missed = FALSE,
                        !.seam = FALSE] \in Runs
           /\ [r EXCEPT !.offset = x, !.until = y, !.skipped = 0, !.missed = FALSE,
                        !.seam = FALSE, !.allowance = l, !.stalled = t] \in Runs
<1>1. PICK r1 \in Runs : r1 = [r EXCEPT !.offset = x, !.until = y]
    <2>1. [r EXCEPT !.offset = x, !.until = y] \in Runs
        BY DEF Runs
    <2>2. QED BY <2>1
<1>2. PICK r2 \in Runs : r2 = [r1 EXCEPT !.skipped = 0]
    <2>1. [r1 EXCEPT !.skipped = 0] \in Runs
        BY DEF Runs
    <2>2. QED BY <2>1
<1>3. PICK r3 \in Runs : r3 = [r2 EXCEPT !.missed = FALSE]
    <2>1. [r2 EXCEPT !.missed = FALSE] \in Runs
        BY DEF Runs
    <2>2. QED BY <2>1
<1>4. PICK r4 \in Runs : r4 = [r3 EXCEPT !.seam = FALSE]
    <2>1. [r3 EXCEPT !.seam = FALSE] \in Runs
        BY DEF Runs
    <2>2. QED BY <2>1
<1>5. [r4 EXCEPT !.allowance = l, !.stalled = t] \in Runs
    BY DEF Runs
<1>6. QED BY <1>1, <1>2, <1>3, <1>4, <1>5

\* What is taken is put behind what is held, and the oldest past the bound leave.
LEMMA TakeIs ==
    ASSUME ClockInv, Take
    PROVE  \/ \E n \in 1 .. Len(Backlog) :
                  /\ Accounts(n)
                  /\ run'.allowance = run.allowance
                  /\ n = Len(Backlog) - (MaxPending + run.allowance)
                  /\ held' \in Seq(Pieces) /\ run' \in Runs
           \/ Quietly /\ last' = last /\ held' \in Seq(Pieces) /\ run' \in Runs
<1> DEFINE excess == Max({Len(Backlog) - (MaxPending + run.allowance), 0})
           flowing == [run EXCEPT !.produced = @ \/ ready # <<>>]
           shed == SubSeq(Backlog, 1, excess)
           rest == SubSeq(Backlog, excess + 1, Len(Backlog))
<1>1. /\ stage = "idle" /\ Capturing
      /\ ready' = <<>> /\ held' = rest
      /\ IF excess > 0
         THEN CountChunk(shed) /\ run' = Past(flowing, shed)
         ELSE UNCHANGED <<seconds, until, last>> /\ run' = flowing
      /\ UNCHANGED <<now, lines, ahead, capture, next, at, faults>>
    BY DEF Take, Backlog, Capturing
<1>2. /\ Backlog \in Seq(Pieces) /\ Len(Backlog) \in Nat /\ MaxPending \in Nat
      /\ run \in Runs /\ run.allowance \in Nat /\ run.produced \in BOOLEAN
    <2>1. held \in Seq(Pieces) /\ ready \in Seq(Pieces) /\ run \in Runs
        BY DEF ClockInv, InRange
    <2>2. Backlog \in Seq(Pieces) /\ Len(Backlog) \in Nat
        BY <2>1 DEF Backlog
    <2>3. QED BY <2>1, <2>2, Units DEF Runs
<1>3. /\ excess \in 0 .. Len(Backlog)
      /\ excess > 0 => excess = Len(Backlog) - (MaxPending + run.allowance)
    <2>1. Len(Backlog) - (MaxPending + run.allowance) \in Int
        BY <1>2
    <2>2. excess = IF Len(Backlog) - (MaxPending + run.allowance) >= 0
                   THEN Len(Backlog) - (MaxPending + run.allowance) ELSE 0
        BY <2>1, MaxOfTwo
    <2>3. QED BY <1>2, <2>2
<1>4. /\ rest \in Seq(Pieces) /\ Len(rest) = Len(Backlog) - excess
      /\ \A i \in 1 .. Len(rest) : rest[i] = Backlog[excess + i]
    <2>. HIDE DEF excess
    <2>1. QED BY <1>2, <1>3
<1>5. Backlog' = rest
    <2>1. Backlog' = rest \o <<>>
        BY <1>1 DEF Backlog
    <2>2. rest \o <<>> = rest
        <3>. HIDE DEF rest
        <3>1. QED BY <1>4
    <2>3. QED BY <2>1, <2>2
<1>6. /\ flowing \in Runs
      /\ flowing.offset = run.offset /\ flowing.origin = run.origin
      /\ flowing.until = run.until /\ flowing.allowance = run.allowance
      /\ flowing.since = run.since /\ flowing.skipped = run.skipped
      /\ flowing.missed = run.missed /\ flowing.seam = run.seam
    BY <1>2 DEF Runs
<1>7. CASE excess = 0
    <2>1. Backlog' = Backlog
        <3>1. Len(rest) = Len(Backlog) /\ \A i \in 1 .. Len(rest) : rest[i] = Backlog[i]
            <4>. HIDE DEF rest, excess
            <4>1. QED BY <1>2, <1>4, <1>7
        <3>2. rest = Backlog
            <4>. HIDE DEF rest
            <4>1. QED BY <1>2, <1>4, <3>1, SeqEqual
        <3>3. QED BY <1>5, <3>2
    <2>2. UNCHANGED <<seconds, until, last>> /\ run' = flowing
        BY <1>1, <1>7
    <2>3. now <= now'
        BY <1>1 DEF ClockInv, InRange
    <2>4. QED
        <3>. HIDE DEF flowing
        <3>1. held' \in Seq(Pieces) /\ run' \in Runs
            BY <1>1, <1>4, <1>6, <2>2
        <3>2. QED BY <1>1, <1>6, <2>1, <2>2, <2>3, <3>1 DEF Quietly
<1>8. CASE excess > 0
    <2>1. PICK n \in 1 .. Len(Backlog) : n = excess
        BY <1>2, <1>3, <1>8
    <2>2. /\ shed \in Seq(Pieces) /\ Len(shed) = n
          /\ shed[1] = Backlog[1] /\ shed[n] = Backlog[n]
        <3>. HIDE DEF excess
        <3>1. QED BY <1>2, <2>1
    <2>3. CountChunk(shed) /\ run' = Past(flowing, shed)
        BY <1>1, <1>8
    <2> DEFINE from == Backlog[1].from
               to == Backlog[n].to
    <2>4. /\ seconds' = seconds + (to - from)
          /\ until' = run.origin + run.offset + (to - from)
          /\ last' = [from |-> from, to |-> to]
        <3>. HIDE DEF shed
        <3>1. QED BY <2>2, <2>3 DEF CountChunk
    <2>5. run' = [flowing EXCEPT
                    !.offset = @ + (to - from),
                    !.until = flowing.origin + flowing.offset + (to - from),
                    !.skipped = 0, !.missed = FALSE, !.seam = FALSE]
        <3>. HIDE DEF shed, flowing
        <3>1. QED BY <2>2, <2>3 DEF Past
    <2>6. /\ run'.offset = run.offset + (to - from) /\ run'.origin = run.origin
          /\ run'.until = run.origin + run.offset + (to - from)
          /\ run'.since = run.since
          /\ ~run'.seam
          /\ run'.allowance = run.allowance
        <3>. HIDE DEF flowing, from, to
        <3>1. QED BY <1>6, <2>5 DEF Runs
    <2>7. Backlog' \in Seq(Pieces) /\ Len(Backlog') = Len(Backlog) - n
          /\ \A i \in 1 .. Len(Backlog') : Backlog'[i] = Backlog[n + i]
        BY <1>4, <1>5, <2>1
    <2>8. DOMAIN lines' \subseteq Nat \ {0} /\ lines' = lines /\ IsFiniteSet(DOMAIN lines')
        BY <1>1 DEF ClockInv, LinesAreTrue
    <2>9. Accounts(n)
        BY <1>1, <2>4, <2>6, <2>7, <2>8 DEF Accounts
    <2>10. n = Len(Backlog) - (MaxPending + run.allowance)
        BY <1>3, <1>8, <2>1
    <2>11. from \in Int /\ to \in Int /\ to > from
        <3>1. Backlog[1].from = NextAudio /\ NextAudio \in Int
              /\ Backlog[n].to \in Int /\ Backlog[n].to > NextAudio
            BY <2>9, AccountsIs
        <3>2. QED BY <3>1
    <2>12. run' \in Runs
        <3>. HIDE DEF flowing, from, to
        <3>1. run.offset \in Nat /\ run.origin \in Int
            BY <1>2 DEF Runs
        <3>2. PICK x \in Nat : x = flowing.offset + (to - from)
            BY <1>6, <2>11, <3>1
        <3>3. PICK y \in Int : y = flowing.origin + flowing.offset + (to - from)
            BY <1>6, <2>11, <3>1
        <3>4. run' = [flowing EXCEPT !.offset = x, !.until = y, !.skipped = 0,
                                     !.missed = FALSE, !.seam = FALSE]
            BY <2>5, <3>2, <3>3
        <3>5. [flowing EXCEPT !.offset = x, !.until = y, !.skipped = 0,
                              !.missed = FALSE, !.seam = FALSE] \in Runs
            BY <1>6, RunsAfter, Zenon
        <3>6. QED BY <3>4, <3>5
    <2>13. held' \in Seq(Pieces)
        BY <1>1, <1>4
    <2>14. QED BY <2>6, <2>9, <2>10, <2>12, <2>13
<1>9. QED BY <1>3, <1>7, <1>8

\* The next of the backlog is heard, or is not.
LEMMA HearNextIs ==
    ASSUME ClockInv, HearNext,
           NEW stalled \in Int, run' = [Accounted(run) EXCEPT !.stalled = stalled],
           \/ lines' = lines
           \/ \E seqs : seqs \subseteq Nat \ {0} /\ IsFiniteSet(seqs) /\ AppendSegments(seqs)
    PROVE  1 \in 1 .. Len(Backlog) /\ Accounts(1) /\ run' \in Runs /\ held' \in Seq(Pieces)
<1>1. /\ stage = "hearing" /\ held # <<>> /\ held' = Tail(held)
      /\ CountChunk(SubSeq(held, 1, 1))
      /\ UNCHANGED <<now, ahead, capture, stage, at, ready, faults>>
    BY DEF HearNext
<1>2. Capturing
    BY <1>1 DEF ClockInv, NothingLeftOver
<1>3. /\ held \in Seq(Pieces) /\ ready \in Seq(Pieces) /\ run \in Runs
      /\ run.offset \in Nat /\ run.origin \in Int /\ run.allowance \in Nat
    BY DEF ClockInv, InRange, Runs
<1>4. Len(held) \in Nat \ {0} /\ held' \in Seq(Pieces)
    BY <1>1, <1>3
<1>5. /\ Backlog[1] = held[1] /\ Len(Backlog) \in Nat \ {0}
      /\ Backlog' \in Seq(Pieces)
      /\ Len(Backlog') = Len(Backlog) - 1
      /\ \A i \in 1 .. Len(Backlog') : Backlog'[i] = Backlog[1 + i]
    <2>1. Backlog = held \o ready /\ Backlog' = Tail(held) \o ready
        BY <1>1 DEF Backlog
    <2>2. Len(held) # 0
        BY <1>4
    <2>3. QED BY <1>3, <2>1, <2>2, BacklogDrops
<1>6. /\ SubSeq(held, 1, 1) \in Seq(Pieces) /\ Len(SubSeq(held, 1, 1)) = 1
      /\ SubSeq(held, 1, 1)[1] = held[1]
    BY <1>3, <1>4
<1> DEFINE from == Backlog[1].from
           to == Backlog[1].to
           pieces == SubSeq(held, 1, 1)
<1>7. /\ seconds' = seconds + (to - from)
      /\ until' = run.origin + run.offset + (to - from)
      /\ last' = [from |-> from, to |-> to]
    <2>1. pieces[1] = Backlog[1] /\ pieces[Len(pieces)] = Backlog[1]
        BY <1>5, <1>6
    <2>2. CountChunk(pieces)
        BY <1>1
    <2>3. QED
        <3>. HIDE DEF pieces
        <3>1. QED BY <2>1, <2>2 DEF CountChunk
<1>8. from \in Int /\ to \in Int /\ to > from
    <2>1. NextAudio \in Int
        BY <1>2, NextAudioIsNumber DEF ClockInv
    <2>2. PICK b \in Int : b = NextAudio
        BY <2>1
    <2>3. PICK a \in Int : a = at
        BY DEF ClockInv, InRange
    <2>4. Row(Backlog, b, a) /\ 1 \in 1 .. Len(Backlog)
        BY <1>2, <1>5, <2>2, <2>3 DEF ClockInv, BacklogIsARow
    <2>5. Backlog[1].from = b /\ Backlog[1].to \in Int /\ Backlog[1].to > b
        <3>1. PICK s \in Seq(Pieces) : s = Backlog
            BY <2>4 DEF Row
        <3>2. PICK t \in Seq(Pieces) : t = Backlog'
            BY <1>5
        <3>3. Row(s, b, a) /\ 1 \in 1 .. Len(s) /\ Len(t) = Len(s) - 1
              /\ \A i \in 1 .. Len(t) : t[i] = s[1 + i]
            BY <1>5, <2>4, <3>1, <3>2
        <3>4. s[1].from = b /\ s[1].to \in Int /\ s[1].to > b
            <4>1. PICK n \in 1 .. Len(s) : n = 1
                BY <3>3
            <4>2. Len(t) = Len(s) - n /\ \A i \in 1 .. Len(t) : t[i] = s[n + i]
                BY <3>3, <4>1
            <4>3. s[1].from = b /\ s[n].to \in Int /\ s[n].to > b
                BY <3>3, <4>2, RowDrop
            <4>4. QED BY <4>1, <4>3
        <3>5. QED BY <3>1, <3>4
    <2>6. QED BY <2>5
<1> HIDE DEF from, to, pieces
<1>16. /\ Max({run.allowance - 1, 0}) \in Nat
       /\ \/ Max({run.allowance - 1, 0}) = run.allowance
          \/ Max({run.allowance - 1, 0}) >= run.allowance - 1
    <2>1. run.allowance - 1 \in Int
        BY <1>3
    <2>2. Max({run.allowance - 1, 0}) = IF run.allowance - 1 >= 0 THEN run.allowance - 1 ELSE 0
        BY <2>1, MaxOfTwo
    <2>3. QED BY <1>3, <2>2
<1>9. PICK left1 \in Nat : left1 = Max({run.allowance - 1, 0})
    BY <1>16
<1>10. run' = [run EXCEPT
                 !.offset = run.offset + (to - from),
                 !.until = run.origin + run.offset + (to - from),
                 !.skipped = 0, !.missed = FALSE, !.seam = FALSE,
                 !.allowance = left1, !.stalled = stalled]
    <2>1. pieces[1] = Backlog[1] /\ pieces[Len(pieces)] = Backlog[1]
        BY <1>5, <1>6 DEF pieces
    <2>2. Accounted(run) = [Past(run, pieces) EXCEPT
                                  !.allowance = Max({Past(run, pieces).allowance - 1, 0})]
        BY DEF Accounted, pieces
    <2>3. Past(run, pieces) = [run EXCEPT
                 !.offset = run.offset + (to - from),
                 !.until = run.origin + run.offset + (to - from),
                 !.skipped = 0, !.missed = FALSE, !.seam = FALSE]
        BY <1>3, <2>1 DEF Past, from, to, Runs
    <2>4. Past(run, pieces).allowance = run.allowance
        BY <1>3, <2>3 DEF Runs
    <2>5. Accounted(run) = [Past(run, pieces) EXCEPT !.allowance = left1]
        <3>1. PICK p : p = Past(run, pieces)
            OBVIOUS
        <3>2. Accounted(run) = [p EXCEPT !.allowance = Max({run.allowance - 1, 0})]
            BY <2>2, <2>4, <3>1, Zenon
        <3>3. left1 = Max({run.allowance - 1, 0})
            BY <1>9, Zenon
        <3>4. QED BY <3>1, <3>2, <3>3, Zenon
    <2>6. QED BY <1>3, <2>3, <2>5 DEF Runs
<1>11. /\ run'.offset = run.offset + (to - from) /\ run'.origin = run.origin
       /\ run'.until = run.origin + run.offset + (to - from)
       /\ run'.since = run.since
       /\ ~run'.seam
       /\ run'.allowance = left1
    BY <1>3, <1>10 DEF Runs
<1>12. run' \in Runs
    <2>1. run.offset + (to - from) \in Nat /\ run.origin + run.offset + (to - from) \in Int
        BY <1>3, <1>8
    <2>2. PICK x \in Nat : x = run.offset + (to - from)
        BY <2>1
    <2>3. PICK y \in Int : y = run.origin + run.offset + (to - from)
        BY <2>1
    <2>4. run' = [run EXCEPT !.offset = x, !.until = y,
                             !.skipped = 0, !.missed = FALSE, !.seam = FALSE,
                             !.allowance = left1, !.stalled = stalled]
        BY <1>10, <2>2, <2>3
    <2>5. [run EXCEPT !.offset = x, !.until = y, !.skipped = 0, !.missed = FALSE,
                      !.seam = FALSE, !.allowance = left1, !.stalled = stalled] \in Runs
        BY <1>3, RunsAfter, Zenon
    <2>6. QED BY <2>4, <2>5
<1>13. /\ DOMAIN lines' \subseteq Nat \ {0} /\ IsFiniteSet(DOMAIN lines')
       /\ \A q \in DOMAIN lines' :
             \/ q \in DOMAIN lines /\ lines'[q] = lines[q]
             \/ lines'[q] = [said |-> from, at |-> run.origin + run.offset]
    <2>1. DOMAIN lines \subseteq Nat \ {0} /\ IsFiniteSet(DOMAIN lines)
        BY DEF ClockInv, LinesAreTrue
    <2>2. CASE lines' = lines
        BY <2>1, <2>2
    <2>3. CASE \E seqs : seqs \subseteq Nat \ {0} /\ IsFiniteSet(seqs) /\ AppendSegments(seqs)
        <3>1. PICK seqs : seqs \subseteq Nat \ {0} /\ IsFiniteSet(seqs) /\ AppendSegments(seqs)
            BY <2>3
        <3>2. lines' = [q \in seqs \cup DOMAIN lines |->
                          IF q \in DOMAIN lines THEN lines[q]
                          ELSE [said |-> from, at |-> run.origin + run.offset]]
            BY <1>5, <3>1 DEF AppendSegments, from
        <3>3. DOMAIN lines' = seqs \cup DOMAIN lines
            BY <3>2
        <3>4. \A q \in DOMAIN lines' :
                 lines'[q] = IF q \in DOMAIN lines THEN lines[q]
                             ELSE [said |-> from, at |-> run.origin + run.offset]
            BY <3>2, <3>3
        <3>5. IsFiniteSet(DOMAIN lines')
            BY <2>1, <3>1, <3>3, FS_Union
        <3>6. QED BY <2>1, <3>1, <3>3, <3>4, <3>5
    <2>4. QED BY <2>2, <2>3
<1>14. Accounts(1)
    BY <1>1, <1>2, <1>5, <1>7, <1>9, <1>11, <1>13, <1>16 DEF Accounts, from, to
<1>15. QED BY <1>4, <1>5, <1>12, <1>14

\* What an account leaves in range.
LEMMA AccountsInRange ==
    ASSUME ClockInv, NEW n \in 1 .. Len(Backlog), Accounts(n)
    PROVE  /\ now' = now /\ seconds' \in Nat /\ until' \in Int /\ until' >= 0
           /\ last' \in Pieces /\ ahead' = ahead /\ capture' = capture /\ at' = at
<1>1. /\ Backlog[1].from \in Int /\ Backlog[n].to \in Int
      /\ Backlog[n].to - Backlog[1].from > 0
    <2>1. Backlog[1].from = NextAudio /\ NextAudio \in Int
          /\ Backlog[n].to \in Int /\ Backlog[n].to > NextAudio
        BY AccountsIs
    <2>2. QED BY <2>1
<1>2. run.offset \in Nat /\ run.origin \in Int /\ seconds \in Nat
    BY DEF ClockInv, InRange, Runs
<1>3. run.origin + run.offset >= 0
    BY DEF Accounts, ClockInv, ClockIsThere, Stamp
<1>4. /\ now' = now /\ ahead' = ahead /\ capture' = capture /\ at' = at
      /\ seconds' = seconds + (Backlog[n].to - Backlog[1].from)
      /\ until' = run.origin + run.offset + (Backlog[n].to - Backlog[1].from)
      /\ last' = [from |-> Backlog[1].from, to |-> Backlog[n].to]
    BY DEF Accounts
<1>5. seconds' \in Nat /\ until' \in Int /\ until' >= 0
    BY <1>1, <1>2, <1>3, <1>4
<1>6. last' \in Pieces
    BY <1>1, <1>4 DEF Pieces
<1>7. QED BY <1>4, <1>5, <1>6

LEMMA TakeKeeps ==
    ASSUME ClockInv, Take
    PROVE  ClockInv'
<1>1. /\ Capturing /\ Capturing'
      /\ ready' = <<>> /\ stage' = "hearing" /\ left' = PerTick
      /\ UNCHANGED <<now, lines, ahead, capture, next, at, faults>>
    BY DEF Take, Capturing
<1>2. ready' \in Seq(Pieces) /\ left' \in 0 .. PerTick
    BY <1>1, Units
<1>3. NothingLeftOver'
    BY <1>1 DEF NothingLeftOver
<1>4. CASE Quietly /\ last' = last /\ held' \in Seq(Pieces) /\ run' \in Runs
    <2>1. InRange'
        BY <1>1, <1>2, <1>4 DEF ClockInv, InRange, Quietly
    <2>2. QED BY <1>3, <1>4, <2>1, QuietlyKeeps
<1>5. CASE \E n \in 1 .. Len(Backlog) :
              Accounts(n) /\ held' \in Seq(Pieces) /\ run' \in Runs
    <2>1. PICK n \in 1 .. Len(Backlog) :
              Accounts(n) /\ held' \in Seq(Pieces) /\ run' \in Runs
        BY <1>5
    <2>2. InRange'
        BY <1>1, <1>2, <2>1, AccountsInRange DEF ClockInv, InRange
    <2>3. QED BY <1>3, <2>1, <2>2, AccountsKeeps
<1>6. QED BY <1>4, <1>5, TakeIs

LEMMA HearKeeps ==
    ASSUME ClockInv, HearNext,
           NEW stalled \in Int, run' = [Accounted(run) EXCEPT !.stalled = stalled],
           \/ lines' = lines
           \/ \E seqs : seqs \subseteq Nat \ {0} /\ IsFiniteSet(seqs) /\ AppendSegments(seqs),
           next' \in Nat \ {0}
    PROVE  ClockInv'
<1>1. 1 \in 1 .. Len(Backlog) /\ Accounts(1) /\ run' \in Runs /\ held' \in Seq(Pieces)
    BY HearNextIs
<1>2. stage' = stage /\ ready' = ready /\ faults' = faults /\ left' = left - 1 /\ left > 0
    BY DEF HearNext
<1>3. left' \in 0 .. PerTick
    <2>1. left \in 0 .. PerTick
        BY DEF ClockInv, InRange
    <2>2. QED BY <1>2, <2>1, Units
<1>4. NothingLeftOver'
    BY <1>1 DEF NothingLeftOver, Accounts, Capturing
<1>5. InRange'
    <2>1. /\ now' = now /\ seconds' \in Nat /\ until' \in Int /\ until' >= 0
          /\ last' \in Pieces /\ ahead' = ahead /\ capture' = capture /\ at' = at
        BY <1>1, AccountsInRange
    <2>2. QED BY <1>1, <1>2, <1>3, <2>1 DEF ClockInv, InRange
<1>6. QED BY <1>1, <1>4, <1>5, AccountsKeeps

\* ffmpeg is gone, and what it had cut and was not taken goes with it.
LEMMA StopKeeps ==
    ASSUME ClockInv, Check, capture = "exited", held = <<>>
    PROVE  ClockInv'
<1>1. /\ capture' = "none" /\ ready' = <<>> /\ stage' = "idle"
      /\ run' = [run EXCEPT !.noRewind = @ \/ (run.rewound /\ ~run.produced)]
      /\ UNCHANGED <<now, seconds, until, lines, last, ahead, next, at, held, left, faults>>
    BY DEF Check, row
<1>2. run \in Runs
    BY DEF ClockInv, InRange
<1>3. run' \in Runs /\ run'.offset = run.offset /\ run'.until = run.until
    BY <1>1, <1>2 DEF Runs
<1>4. InRange'
    BY <1>1, <1>3 DEF ClockInv, InRange
<1>5. NothingLeftOver' /\ BacklogIsARow' /\ AllowanceIsEnough'
    BY <1>1 DEF NothingLeftOver, BacklogIsARow, AllowanceIsEnough, Capturing
<1>6. ClockIsThere' /\ LinesAreTrue' /\ ClocksAgree'
    BY <1>1, <1>3 DEF ClockInv, ClockIsThere, LinesAreTrue, ClocksAgree, Capturing
<1>7. QED BY <1>4, <1>5, <1>6 DEF ClockInv

\* A step in which the clock, the backlog and the row are left alone.
LEMMA StillKeeps ==
    ASSUME ClockInv, InRange', NothingLeftOver',
           UNCHANGED <<row, at, held, ready>>, now <= now',
           capture' = capture \/ (capture = "live" /\ capture' = "exited"),
           run' = run \/ \E t \in Int : run' = [run EXCEPT !.stalled = t]
    PROVE  ClockInv'
<1>1. run \in Runs
    BY DEF ClockInv, InRange
<1>2. /\ run'.offset = run.offset /\ run'.origin = run.origin
      /\ run'.until = run.until /\ run'.allowance = run.allowance
      /\ run'.since = run.since /\ run'.skipped = run.skipped
      /\ run'.missed = run.missed /\ run'.seam = run.seam
    BY <1>1 DEF Runs
<1>3. Quietly
    BY <1>2 DEF Quietly, Backlog, row
<1>4. QED BY <1>3, QuietlyKeeps

\* What the three ways a chunk leaves the backlog one at a time have in common.
LEMMA Hears ==
    ASSUME ClockInv,
           (\E hearing \in Hearings : Hear(hearing)) \/ HearSliver \/ HearFails
    PROVE  /\ HearNext /\ next' \in Nat \ {0}
           /\ \E stalled \in Int : run' = [Accounted(run) EXCEPT !.stalled = stalled]
           /\ \/ lines' = lines
              \/ \E seqs : seqs \subseteq Nat \ {0} /\ IsFiniteSet(seqs) /\ AppendSegments(seqs)
<1>1. run \in Runs /\ run.stalled \in Int /\ now \in Int /\ next \in Nat \ {0}
    BY Units DEF ClockInv, InRange, Runs
<1>2. CASE \E hearing \in Hearings : Hear(hearing)
    <2>1. PICK hearing \in Hearings : Hear(hearing)
        BY <1>2
    <2> DEFINE spoken == {k \in DOMAIN hearing : hearing[k] = "words"}
               seqs == {next + k - 1 : k \in spoken}
    <2>2. HearNext /\ AppendSegments(seqs) /\ run' = [Accounted(run) EXCEPT !.stalled = Never]
        BY <2>1 DEF Hear
    <2>3. /\ seqs \subseteq next .. next + Len(hearing) - 1 /\ IsFiniteSet(seqs)
          /\ Len(hearing) \in Nat /\ next' \in Nat \ {0}
        BY <1>1, <2>1, NextMoves
    <2>4. QED
        <3>. HIDE DEF seqs
        <3>1. seqs \subseteq Nat \ {0}
            BY <1>1, <2>3
        <3>2. QED BY <2>2, <2>3, <3>1, Units
<1>3. CASE HearSliver
    <2>1. HearNext /\ lines' = lines /\ next' = next /\ run' = Accounted(run)
        BY <1>3 DEF HearSliver
    <2>2. Accounted(run) = [Accounted(run) EXCEPT !.stalled = run.stalled]
        BY ZenonT(30), <1>1 DEF Accounted, Past, Runs
    <2>3. QED BY <1>1, <2>1, <2>2
<1>4. CASE HearFails
    <2>1. Accounted(run).stalled = run.stalled
        BY <1>1 DEF Accounted, Past, Runs
    <2>2. PICK t \in Int : t = IF run.stalled = Never THEN now ELSE run.stalled
        BY <1>1
    <2>3. run' = [Accounted(run) EXCEPT !.stalled = t]
        BY <1>4, <2>1, <2>2 DEF HearFails
    <2>4. HearNext /\ lines' = lines /\ next' = next
        BY <1>4 DEF HearFails
    <2>5. QED BY <1>1, <2>3, <2>4
<1>5. QED BY <1>2, <1>3, <1>4

LEMMA ClockStep == ClockInv /\ [Next]_vars => ClockInv'
<1> SUFFICES ASSUME ClockInv, [Next]_vars PROVE ClockInv'
    OBVIOUS
<1>0. /\ now \in 0 .. Horizon /\ now \in Nat /\ run \in Runs /\ run.stalled \in Int
      /\ InRange /\ NothingLeftOver
    BY Units DEF ClockInv, InRange, Runs
<1>1. CASE TimePasses
    <2>1. now' \in 0 .. Horizon /\ now <= now'
        BY <1>0, <1>1, Units DEF TimePasses
    <2>2. InRange' /\ NothingLeftOver'
        BY <1>0, <1>1, <2>1 DEF TimePasses, InRange, NothingLeftOver, Capturing, row, tmpfs
    <2>3. QED BY <1>1, <2>1, <2>2, StillKeeps DEF TimePasses, tmpfs
<1>2. CASE FfmpegCuts
    <2>1. Chunk \in 1 .. Chunk
        BY Units
    <2>2. PICK l \in 1 .. Chunk : l = Chunk
        BY <2>1
    <2>3. /\ capture = "live" /\ Capturing /\ Cut(l)
          /\ UNCHANGED <<now, row, stage, run, next, held, left>>
          /\ capture' = "live" /\ faults' = faults /\ faults' \in 0 .. MaxFaults
        BY <1>0, <1>2, <2>2 DEF FfmpegCuts, Capturing, InRange
    <2>4. capture' \in {"live", "exited"}
        BY <2>3
    <2>5. QED BY <2>2, <2>3, <2>4, FfmpegCutsKeeps
<1>3. CASE FfmpegExits
    <2>1. faults' \in 0 .. MaxFaults
        BY <1>0, <1>3, Units DEF FfmpegExits, InRange
    <2>2. CASE \E length \in 1 .. Chunk - 1 : Cut(length)
        <3>1. PICK l \in 1 .. Chunk - 1 : Cut(l)
            BY <2>2
        <3>2. l \in 1 .. Chunk
            BY Units
        <3>3. /\ capture = "live" /\ Capturing
              /\ UNCHANGED <<now, row, stage, run, next, held, left>>
              /\ capture' = "exited" /\ capture' \in {"live", "exited"}
            BY <1>3 DEF FfmpegExits, Capturing
        <3>4. capture' = "live" => l = Chunk
            BY <3>3
        <3>5. QED BY <2>1, <3>1, <3>2, <3>3, <3>4, FfmpegCutsKeeps
    <2>3. CASE UNCHANGED <<at, ready>>
        <3>1. /\ capture = "live" /\ capture' = "exited"
              /\ UNCHANGED <<now, row, stage, run, next, held, left>>
            BY <1>3 DEF FfmpegExits
        <3>2. InRange' /\ NothingLeftOver'
            BY <1>0, <2>1, <2>3, <3>1 DEF InRange, NothingLeftOver, Capturing, row
        <3>3. now <= now'
            BY <1>0, <3>1
        <3>4. QED BY <2>3, <3>1, <3>2, <3>3, StillKeeps
    <2>4. QED BY <1>3, <2>2, <2>3 DEF FfmpegExits
<1>4. CASE Begin
    BY <1>4, BeginKeeps
<1>5. CASE \E size \in Sizes, lag \in 0 .. MaxLag : Connect(size, lag)
    BY <1>5, ConnectKeeps
<1>6. CASE Take
    BY <1>6, TakeKeeps
<1>7. CASE (\E hearing \in Hearings : Hear(hearing)) \/ HearSliver \/ HearFails
    <2>1. PICK stalled \in Int : run' = [Accounted(run) EXCEPT !.stalled = stalled]
        BY <1>7, Hears
    <2>2. /\ HearNext /\ next' \in Nat \ {0}
          /\ \/ lines' = lines
             \/ \E seqs : seqs \subseteq Nat \ {0} /\ IsFiniteSet(seqs) /\ AppendSegments(seqs)
        BY <1>7, Hears
    <2>3. QED BY <2>1, <2>2, HearKeeps
<1>10. CASE HearLater
    <2>1. PICK t \in Int : t = IF run.stalled = Never THEN now ELSE run.stalled
        BY <1>0
    <2>2. /\ run' = [run EXCEPT !.stalled = t] /\ stage' = "check" /\ stage = "hearing"
          /\ UNCHANGED <<now, row, capture, next, tmpfs, left, faults>>
        BY <1>10, <2>1 DEF HearLater
    <2>3. run' \in Runs
        BY <1>0, <2>2 DEF Runs
    <2>4. InRange' /\ NothingLeftOver'
        BY <1>0, <2>2, <2>3 DEF InRange, NothingLeftOver, Capturing, row, tmpfs
    <2>5. now <= now'
        BY <1>0, <2>2
    <2>6. QED BY <2>2, <2>4, <2>5, StillKeeps DEF tmpfs
<1>11. CASE Drained
    <2>1. InRange' /\ NothingLeftOver'
        BY <1>0, <1>11 DEF Drained, InRange, NothingLeftOver, Capturing, row, tmpfs
    <2>2. now <= now'
        BY <1>0, <1>11 DEF Drained
    <2>3. QED BY <1>11, <2>1, <2>2, StillKeeps DEF Drained, tmpfs
<1>12. CASE Check
    <2>1. CASE capture = "exited" /\ held = <<>>
        BY <1>12, <2>1, StopKeeps
    <2>2. CASE ~(capture = "exited" /\ held = <<>>)
        <3>1. UNCHANGED <<capture, ready, run, now, row, next, at, held, left, faults>>
              /\ stage' = "idle"
            BY <1>12, <2>2 DEF Check
        <3>2. InRange' /\ NothingLeftOver'
            BY <1>0, <3>1 DEF InRange, NothingLeftOver, Capturing, row
        <3>3. now <= now'
            BY <1>0, <3>1
        <3>4. QED BY <3>1, <3>2, <3>3, StillKeeps
    <2>3. QED BY <2>1, <2>2
<1>13. CASE Crash
    BY <1>13, CrashKeeps
<1>14. CASE UNCHANGED vars
    <2>1. InRange' /\ NothingLeftOver'
        BY <1>0, <1>14 DEF vars, InRange, NothingLeftOver, Capturing, row, tmpfs
    <2>2. now <= now'
        BY <1>0, <1>14 DEF vars
    <2>3. QED BY <1>14, <2>1, <2>2, StillKeeps DEF vars, tmpfs
<1>15. QED
    BY <1>1, <1>2, <1>3, <1>4, <1>5, <1>6, <1>7, <1>10, <1>11, <1>12,
       <1>13, <1>14 DEF Next

LEMMA ClockInvHolds == Spec => []ClockInv
<1>1. Init => ClockInv
    BY ClockStarts
<1>2. ClockInv /\ [Next]_vars => ClockInv'
    BY ClockStep
<1>3. QED BY <1>1, <1>2, PTL DEF Spec

-----------------------------------------------------------------------------
(* What follows.                                                           *)

\* Whatever is shed, failed, lost or begun again, every line is stamped within a
\* segment of when it was said, and so is what is accounted for next.
THEOREM LinesAreStampedTrue == Spec => []StampsHold
<1>1. ClockInv => StampsHold
    BY DEF ClockInv, LinesAreTrue, ClockIsThere, StampsHold, Capturing, Stamp
<1>2. QED BY <1>1, ClockInvHolds, PTL

\* The clock in memory is the clock on the row, between any two statements.
THEOREM OneClock == Spec => []ClocksAgree
<1>1. ClockInv => ClocksAgree
    BY DEF ClockInv
<1>2. QED BY <1>1, ClockInvHolds, PTL

\* The row's clock is past every line, so the next process rewinds to none.
THEOREM ClockIsPastTheLines == Spec => []ClockCoversLines
<1>1. ClockInv => ClockCoversLines
    BY DEF ClockInv, LinesAreTrue, ClockCoversLines
<1>2. QED BY <1>1, ClockInvHolds, PTL

\* Which steps account for audio.
LEMMA AccountingSteps ==
    ASSUME ClockInv, [Next]_vars, last' # last
    PROVE  /\ \E n \in 1 .. Len(Backlog) :
                 /\ Accounts(n)
                 /\ stage = "idle" => n = Len(Backlog) - (MaxPending + run.allowance)
           /\ last'.from = NextAudio /\ NextAudio \in Int /\ Capturing
<1>1. ASSUME NEW n \in 1 .. Len(Backlog), Accounts(n)
      PROVE last'.from = NextAudio /\ NextAudio \in Int /\ Capturing
    <2>1. Backlog[1].from = NextAudio /\ NextAudio \in Int
        BY <1>1, AccountsIs
    <2>2. QED BY <1>1, <2>1 DEF Accounts
<1>2. CASE Take
    <2>1. \E n \in 1 .. Len(Backlog) :
             Accounts(n) /\ n = Len(Backlog) - (MaxPending + run.allowance)
        BY <1>2, TakeIs
    <2>2. QED BY <1>1, <2>1
<1>3. CASE HearNext /\ \E n \in 1 .. Len(Backlog) : Accounts(n)
    <2>1. stage # "idle"
        BY <1>3 DEF HearNext
    <2>2. QED BY <1>1, <1>3, <2>1
<1>4. CASE (\E hearing \in Hearings : Hear(hearing)) \/ HearSliver \/ HearFails
    <2>1. PICK stalled \in Int : run' = [Accounted(run) EXCEPT !.stalled = stalled]
        BY <1>4, Hears
    <2>2. /\ HearNext
          /\ \/ lines' = lines
             \/ \E seqs : seqs \subseteq Nat \ {0} /\ IsFiniteSet(seqs) /\ AppendSegments(seqs)
        BY <1>4, Hears
    <2>3. 1 \in 1 .. Len(Backlog) /\ Accounts(1)
        BY <2>1, <2>2, HearNextIs
    <2>4. QED BY <1>3, <2>2, <2>3
<1>5. Take \/ (\E hearing \in Hearings : Hear(hearing)) \/ HearSliver \/ HearFails
    BY DEF Next, vars, row, TimePasses, FfmpegCuts, FfmpegExits, Begin, Connect, HearLater,
           Drained, Check, Crash
<1>6. QED BY <1>2, <1>4, <1>5

\* Within a connection what is accounted for begins where the last began to end;
\* across a reconnect the plan says what is skipped, to within a seam.
THEOREM SeamsAreAsPlanned == Spec => SeamsAsPlanned
<1> DEFINE A == (last' # last /\ until # Never) =>
          IF run.seam
          THEN (last'.from - last.to) - run.skipped
                   \in -(Seg - 1 + MaxLag) .. Seg - 1 + MaxLag
          ELSE last'.from = last.to
<1>1. ClockInv /\ [Next]_vars => [A]_vars
    <2>1. SUFFICES ASSUME ClockInv, [Next]_vars, last' # last, until # Never
                   PROVE  IF run.seam
                          THEN (last'.from - last.to) - run.skipped
                                   \in -(Seg - 1 + MaxLag) .. Seg - 1 + MaxLag
                          ELSE last'.from = last.to
        OBVIOUS
    <2>2. last'.from = NextAudio /\ NextAudio \in Int /\ Capturing
        BY <2>1, AccountingSteps
    <2>3. /\ Close(until, last.to) /\ Close(Stamp, NextAudio)
          /\ run.seam => Stamp = until + run.skipped
          /\ ~run.seam => last.to = NextAudio
        BY <2>1, <2>2 DEF ClockInv, ClockIsThere
    <2>4. /\ until \in Int /\ last.to \in Int /\ run.skipped \in Int /\ Stamp \in Int
          /\ Seg \in Nat \ {0} /\ MaxLag \in Nat
        <3>1. run \in Runs /\ last \in Pieces /\ until \in Int
            BY <2>1 DEF ClockInv, InRange
        <3>2. run.origin \in Int /\ run.offset \in Nat /\ run.skipped \in Int /\ last.to \in Int
            BY <3>1 DEF Runs, Pieces
        <3>3. QED BY <3>1, <3>2, Units DEF Stamp
    <2>5. CASE run.seam
        <3>1. Stamp = until + run.skipped
            BY <2>3, <2>5
        <3>2. until - last.to \in -MaxLag .. Seg - 1 /\ Stamp - NextAudio \in -MaxLag .. Seg - 1
            BY <2>3 DEF Close
        <3>3. (NextAudio - last.to) - run.skipped = (until - last.to) - (Stamp - NextAudio)
            BY <2>2, <2>4, <3>1
        <3>4. (NextAudio - last.to) - run.skipped \in -(Seg - 1 + MaxLag) .. Seg - 1 + MaxLag
            BY <2>2, <2>4, <3>2, <3>3
        <3>5. QED BY <2>2, <2>5, <3>4
    <2>6. CASE ~run.seam
        BY <2>2, <2>3, <2>6
    <2>7. QED BY <2>5, <2>6
<1>2. QED BY <1>1, ClockInvHolds, PTL DEF Spec, SeamsAsPlanned

\* A hole that is longer than a seam's precision was said on the row.
THEOREM HolesAreSaid == Spec => NoSilentHole
<1> DEFINE A == (last' # last /\ until # Never) =>
          \/ run.missed
          \/ last'.from - last.to < Max({Seg, MinLoss}) + Seg - 1 + MaxLag
<1>1. ClockInv /\ [Next]_vars => [A]_vars
    <2>1. SUFFICES ASSUME ClockInv, [Next]_vars, last' # last, until # Never, ~run.missed
                   PROVE  last'.from - last.to < Max({Seg, MinLoss}) + Seg - 1 + MaxLag
        OBVIOUS
    <2>2. last'.from = NextAudio /\ NextAudio \in Int /\ Capturing
        BY <2>1, AccountingSteps
    <2>3. /\ Close(until, last.to) /\ Close(Stamp, NextAudio)
          /\ run.seam => Stamp = until + run.skipped /\ run.skipped < Max({Seg, MinLoss})
          /\ ~run.seam => last.to = NextAudio
        BY <2>1, <2>2 DEF ClockInv, ClockIsThere
    <2>4. /\ until \in Int /\ last.to \in Int /\ run.skipped \in Int /\ Stamp \in Int
          /\ Seg \in Nat \ {0} /\ MaxLag \in Nat /\ MinLoss \in Nat
        <3>1. run \in Runs /\ last \in Pieces /\ until \in Int
            BY <2>1 DEF ClockInv, InRange
        <3>2. run.origin \in Int /\ run.offset \in Nat /\ run.skipped \in Int /\ last.to \in Int
            BY <3>1 DEF Runs, Pieces
        <3>3. QED BY <3>1, <3>2, Units DEF Stamp
    <2>5. PICK m \in Nat : m = Max({Seg, MinLoss}) /\ m > 0
        <3>1. Max({Seg, MinLoss}) = IF Seg >= MinLoss THEN Seg ELSE MinLoss
            BY <2>4, MaxOfTwo
        <3>2. QED BY <2>4, <3>1
    <2>6. CASE run.seam
        <3>1. Stamp = until + run.skipped /\ run.skipped < m
            BY <2>3, <2>5, <2>6
        <3>2. until - last.to \in -MaxLag .. Seg - 1 /\ Stamp - NextAudio \in -MaxLag .. Seg - 1
            BY <2>3 DEF Close
        <3>3. NextAudio - last.to < m + Seg - 1 + MaxLag
            BY <2>2, <2>4, <2>5, <3>1, <3>2
        <3>4. QED BY <2>2, <2>5, <3>3
    <2>7. CASE ~run.seam
        <3>1. NextAudio - last.to = 0
            BY <2>2, <2>3, <2>4, <2>7
        <3>2. QED BY <2>2, <2>4, <2>5, <3>1
    <2>8. QED BY <2>6, <2>7
<1>2. QED BY <1>1, ClockInvHolds, PTL DEF Spec, NoSilentHole

\* What a rewind brings is heard: nothing is shed for being old until MaxPending
\* chunks of what came after the connect are there.
THEOREM RewoundIsHeard == Spec => BacklogIsHeard
<1> DEFINE A == (stage = "idle" /\ stage' = "hearing" /\ last' # last) =>
                    Listed - Edge(run.since) >= MaxPending * Chunk
<1>1. ClockInv /\ [Next]_vars => [A]_vars
    <2>1. SUFFICES ASSUME ClockInv, [Next]_vars, stage = "idle", last' # last
                   PROVE  Listed - Edge(run.since) >= MaxPending * Chunk
        OBVIOUS
    <2>2. PICK n \in 1 .. Len(Backlog) : n = Len(Backlog) - (MaxPending + run.allowance)
        BY <2>1, AccountingSteps
    <2>3. Capturing /\ NextAudio \in Int
        BY <2>1, AccountingSteps
    <2>4. /\ run.allowance \in Nat /\ run.since \in Nat /\ at \in Int /\ now \in Nat
          /\ Chunk \in Nat \ {0} /\ MaxPending \in Nat
        BY <2>1, Units DEF ClockInv, InRange, Runs
    <2>5. PICK l \in Nat : l = Len(Backlog)
        <3>1. held \in Seq(Pieces) /\ ready \in Seq(Pieces)
            BY <2>1 DEF ClockInv, InRange
        <3>2. Len(held \o ready) \in Nat
            BY <3>1
        <3>3. QED BY <3>2 DEF Backlog
    <2>6. PICK x \in Nat : x = run.allowance
        BY <2>4
    <2>7. l # 0 /\ l - 1 >= MaxPending + x /\ l - 1 \in Nat
        BY <2>2, <2>4, <2>5, <2>6
    <2>8. PICK e \in Nat : e = Edge(run.since)
        BY <2>4, EdgeIs
    <2>9. Listed \in Int
        BY <2>4, ListedGrows, EdgeIs, Units DEF Listed
    <2>10. at > NextAudio + (l - 1) * Chunk /\ at <= Listed
        BY <2>1, <2>3, <2>5, <2>7 DEF ClockInv, BacklogIsARow, Row
    <2>11. NextAudio + x * Chunk >= e
        BY <2>1, <2>3, <2>5, <2>6, <2>7, <2>8 DEF ClockInv, AllowanceIsEnough, Capturing
    <2>12. (MaxPending + x) * Chunk <= (l - 1) * Chunk /\ (l - 1) * Chunk \in Int
        <3>1. PICK i \in Nat : i = l - 1
            BY <2>7
        <3>2. PICK j \in Nat : j = MaxPending + x
            BY <2>4
        <3>3. j <= i
            BY <2>7, <3>1, <3>2
        <3>4. j * Chunk <= i * Chunk /\ i * Chunk \in Int
            BY <2>4, <3>3, Multiples
        <3>5. QED BY <3>1, <3>2, <3>4
    <2>13. (MaxPending + x) * Chunk = MaxPending * Chunk + x * Chunk
           /\ MaxPending * Chunk \in Nat /\ x * Chunk \in Nat
        BY <2>4, Products
    <2>14. QED BY <2>3, <2>4, <2>8, <2>9, <2>10, <2>11, <2>12, <2>13
<1>2. QED BY <1>1, ClockInvHolds, PTL DEF Spec, BacklogIsHeard

-----------------------------------------------------------------------------
(* The numbering.                                                          *)

\* Every line of every chunk says something once its NULs are gone.
AllSaySomething ==
    \A hearing \in Hearings : \A k \in DOMAIN hearing : hearing[k] = "words"

LEMMA NextStep ==
    ASSUME AllSaySomething, ClockInv, [Next]_vars, NextIsFree
    PROVE  NextIsFree'
<1>1. DOMAIN lines \subseteq Nat \ {0} /\ IsFiniteSet(DOMAIN lines) /\ next \in Nat \ {0}
    BY DEF ClockInv, LinesAreTrue, InRange
<1>2. CASE Begin
    <2>1. \A q \in DOMAIN lines : q < NextSeq
        BY <1>1, NextSeqIs
    <2>2. next' = NextSeq /\ lines' = lines
        BY <1>2 DEF Begin, row
    <2>3. QED BY <2>1, <2>2 DEF NextIsFree
<1>3. CASE \E hearing \in Hearings : Hear(hearing)
    <2>1. PICK hearing \in Hearings : Hear(hearing)
        BY <1>3
    <2> DEFINE seqs == {next + k - 1 : k \in {j \in DOMAIN hearing : hearing[j] = "words"}}
    <2>2. AppendSegments(seqs)
        BY <2>1 DEF Hear
    <2>3. /\ seqs \subseteq next .. next + Len(hearing) - 1 /\ Len(hearing) \in Nat
          /\ next' = next + Len(hearing)
        BY <1>1, <2>1, NextMoves DEF AllSaySomething
    <2>4. capture # "down"
        BY <2>1 DEF Hear, HearNext, ClockInv, NothingLeftOver, Capturing
    <2> HIDE DEF seqs
    <2>5. DOMAIN lines' = seqs \cup DOMAIN lines
        BY <2>2 DEF AppendSegments
    <2>6. ASSUME NEW q \in DOMAIN lines' PROVE q < next'
        <3>1. CASE q \in seqs
            BY <1>1, <2>3, <3>1
        <3>2. CASE q \in DOMAIN lines
            <4>1. q \in Nat /\ q < next
                BY <1>1, <2>4, <3>2 DEF NextIsFree
            <4>2. QED BY <1>1, <2>3, <4>1
        <3>3. QED BY <2>5, <3>1, <3>2
    <2>7. QED BY <2>6 DEF NextIsFree
<1>4. CASE Crash
    BY <1>4 DEF Crash, NextIsFree
<1>5. CASE lines' = lines /\ next' = next /\ (capture' # "down" => capture # "down")
    BY <1>5 DEF NextIsFree
<1>6. QED
    BY <1>2, <1>3, <1>4, <1>5 DEF Next, vars, row, TimePasses, FfmpegCuts, FfmpegExits, Connect,
       Take, HearSliver, HearFails, HearLater, Drained, Check, HearNext

\* No line takes a seq that another has, before or after a restart, as long as
\* every line says something: see CountsWhatLands for when one does not.
THEOREM SeqsAreFree == ASSUME AllSaySomething PROVE Spec => []NextIsFree
<1>1. Init => NextIsFree
    BY DEF Init, NextIsFree
<1>2. ClockInv /\ NextIsFree /\ [Next]_vars => NextIsFree'
    BY NextStep
<1>3. QED BY <1>1, <1>2, ClockInvHolds, PTL DEF Spec
=============================================================================
