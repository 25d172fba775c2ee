--------------------------- MODULE FileDataProofs ---------------------------
(***************************************************************************)
(* Proofs about FileData: types and ranges, the accounting of a transfer   *)
(* in the data mode, and the positions of the streams.                     *)
(***************************************************************************)
EXTENDS FileData, TLAPS

USE BoundsAssumption, WordAssumption DEF MaxTell

(***************************************************************************)
(* stdio.                                                                  *)
(***************************************************************************)

\* n bytes of a stream go out and k stay: the stream and the file stay in
\* range, the file does not shrink, the end of what was accepted moves by the
\* bytes handled, and a position inside the file stays inside.
LEMMA WrittenFacts ==
    ASSUME NEW x \in Stream, NEW sz \in 0..MaxSize,
           NEW n \in Nat, NEW k \in 0..BufSize,
           Fits(x, sz, n), WriteAt(x, sz) + n + k <= MaxTell
    PROVE  LET r == Written(x, sz, n, k) IN
           /\ r.x \in Stream /\ r.x.name = x.name /\ r.x.mode = x.mode
           /\ r.x.pend = k
           /\ r.sz \in 0..MaxSize /\ r.sz >= sz
           /\ r.out = n
           /\ WriteAt(r.x, r.sz) + k = WriteAt(x, sz) + n + k
           /\ x.pos <= sz => r.x.pos <= r.sz
           /\ x.pos = sz /\ ~Append(x) => r.x.pos = r.sz
           /\ n > 0 => r.x.pos <= r.sz
<1> DEFINE end == WriteAt(x, sz) + n
           pos == IF n = 0 THEN x.pos ELSE end
           r == Written(x, sz, n, k)
           y == [name |-> x.name, mode |-> x.mode, pos |-> pos, pend |-> k]
<1>1. x \in [name : Names, mode : AllModes, pos : 0..MaxTell, pend : 0..BufSize]
  BY DEF Stream
<1>2. x = [name |-> x.name, mode |-> x.mode, pos |-> x.pos, pend |-> x.pend]
  BY <1>1
<1>3. WriteAt(x, sz) \in Nat /\ (Append(x) => WriteAt(x, sz) = sz)
      /\ (~Append(x) => WriteAt(x, sz) = x.pos)
  BY <1>1 DEF WriteAt
<1>4. r.x = y
  BY <1>2 DEF Written
<1>5. r.sz = (IF n = 0 \/ end < sz THEN sz ELSE end) /\ r.out = n
  BY DEF Written
<1>6. Append(y) <=> Append(x)
  BY DEF Append
<1>7. y \in Stream
  <2>1. pos \in 0..MaxTell
    BY <1>1, <1>3 DEF Fits
  <2>2. Append(y) \/ pos + k <= MaxTell
    BY <1>1, <1>3, <1>6
  <2> QED BY <1>1, <2>1, <2>2 DEF Stream
<1>8. r.sz \in 0..MaxSize /\ r.sz >= sz
  BY <1>3, <1>5 DEF Fits
<1>9. WriteAt(y, r.sz) = end
  <2>1. CASE Append(x)
    BY <2>1, <1>3, <1>5, <1>6 DEF WriteAt
  <2>2. CASE ~Append(x)
    BY <2>2, <1>1, <1>3, <1>6 DEF WriteAt
  <2> QED BY <2>1, <2>2
<1>10. /\ x.pos <= sz => pos <= r.sz
       /\ x.pos = sz /\ ~Append(x) => pos = r.sz
       /\ n > 0 => pos <= r.sz
  BY <1>1, <1>3, <1>5
<1> HIDE DEF r, y
<1>11. QED
  BY <1>4, <1>5, <1>7, <1>8, <1>9, <1>10 DEF r, y

LEMMA StreamFacts ==
    ASSUME NEW x \in Stream, NEW sz \in 0..MaxSize
    PROVE  /\ x.name \in Names /\ x.pend \in 0..BufSize /\ x.pos \in 0..MaxTell
           /\ x.mode \in AllModes
           /\ WriteAt(x, sz) \in 0..MaxTell
           /\ WriteAt(x, sz) + x.pend \in 0..MaxTell
           /\ ftell(x, sz) \in 0..MaxTell
<1>1. x \in [name : Names, mode : AllModes, pos : 0..MaxTell, pend : 0..BufSize]
      /\ (Append(x) \/ x.pos + x.pend <= MaxTell)
  BY DEF Stream
<1> QED BY <1>1 DEF WriteAt, ftell

\* What a flush leaves: an empty buffer.  When all went out, the position
\* that ftell returned before is not behind the end, unless it was before.
LEMMA FlushFacts ==
    ASSUME NEW x \in Stream, NEW sz \in 0..MaxSize, NEW r \in fflush(x, sz)
    PROVE  /\ r.x \in Stream /\ r.x.name = x.name /\ r.x.mode = x.mode
           /\ r.x.pend = 0
           /\ r.sz \in 0..MaxSize /\ r.sz >= sz
           /\ r.out \in 0..x.pend
           /\ x.pos <= sz => r.x.pos <= r.sz
           /\ x.pos <= sz /\ r.out = x.pend => ftell(x, sz) <= r.sz
           /\ x.pos = sz /\ ~Append(x) => r.x.pos = r.sz
           /\ r.out = x.pend => WriteAt(r.x, r.sz) = WriteAt(x, sz) + x.pend
<1>1. PICK n \in Achieved(x, sz, x.pend) : r = Written(x, sz, n, 0)
  BY DEF fflush
<1>2. n \in 0..x.pend /\ Fits(x, sz, n)
  BY DEF Achieved
<1>3. /\ x.pend \in 0..BufSize /\ x.pos \in 0..MaxTell
      /\ WriteAt(x, sz) \in 0..MaxTell /\ WriteAt(x, sz) + x.pend \in 0..MaxTell
  BY StreamFacts
<1>4. n \in Nat /\ 0 \in 0..BufSize /\ WriteAt(x, sz) + n + 0 <= MaxTell
  BY <1>2, <1>3
<1>5. /\ r.x \in Stream /\ r.x.name = x.name /\ r.x.mode = x.mode
      /\ r.x.pend = 0
      /\ r.sz \in 0..MaxSize /\ r.sz >= sz
      /\ r.out = n
      /\ WriteAt(r.x, r.sz) + 0 = WriteAt(x, sz) + n + 0
      /\ x.pos <= sz => r.x.pos <= r.sz
      /\ x.pos = sz /\ ~Append(x) => r.x.pos = r.sz
      /\ n > 0 => r.x.pos <= r.sz
  BY <1>1, <1>2, <1>4, WrittenFacts
<1>6. WriteAt(r.x, r.sz) \in 0..MaxTell
  BY <1>5, StreamFacts
<1>7. WriteAt(r.x, r.sz) = WriteAt(x, sz) + n
  BY <1>3, <1>4, <1>5, <1>6
<1>8. ASSUME x.pos <= sz, n = x.pend  PROVE ftell(x, sz) <= r.sz
  <2>1. CASE n = 0
    BY <2>1, <1>8, <1>3, <1>5 DEF ftell
  <2>2. CASE n > 0
    <3>1. ftell(x, sz) = WriteAt(r.x, r.sz)
      BY <2>2, <1>3, <1>7, <1>8 DEF ftell
    <3>2. r.x.pos <= r.sz
      BY <2>2, <1>5
    <3> QED BY <3>1, <3>2, <1>5 DEF WriteAt
  <2> QED BY <2>1, <2>2, <1>2, <1>3
<1> QED BY <1>2, <1>5, <1>7, <1>8

\* What a successful fwrite leaves: the end of the accepted bytes moves by w.
LEMMA WriteFacts ==
    ASSUME NEW x \in Stream, NEW sz \in 0..MaxSize, NEW w \in Nat,
           NEW r \in fwrite(x, sz, w)
    PROVE  /\ r.x \in Stream /\ r.x.name = x.name /\ r.x.mode = x.mode
           /\ r.sz \in 0..MaxSize /\ r.sz >= sz
           /\ WriteAt(r.x, r.sz) + r.x.pend = WriteAt(x, sz) + x.pend + w
           /\ WriteAt(x, sz) + x.pend + w <= MaxTell
           /\ x.pos <= sz => r.x.pos <= r.sz
           /\ x.pos = sz /\ ~Append(x) => r.x.pos = r.sz
<1>1. PICK k \in 0..BufSize :
         /\ k <= x.pend + w
         /\ WriteAt(x, sz) + x.pend + w <= MaxTell
         /\ Fits(x, sz, x.pend + w - k)
         /\ r = Written(x, sz, x.pend + w - k, k)
  BY DEF fwrite
<1>2. x.pend \in 0..BufSize /\ WriteAt(x, sz) \in 0..MaxTell
  BY StreamFacts
<1> DEFINE n == x.pend + w - k
<1>3. n \in Nat /\ WriteAt(x, sz) + n + k <= MaxTell /\ n + k = x.pend + w
  BY <1>1, <1>2
<1>4. Fits(x, sz, n) /\ r = Written(x, sz, n, k)
  BY <1>1
<1> HIDE DEF n
<1>5. /\ r.x \in Stream /\ r.x.name = x.name /\ r.x.mode = x.mode
      /\ r.x.pend = k
      /\ r.sz \in 0..MaxSize /\ r.sz >= sz
      /\ WriteAt(r.x, r.sz) + k = WriteAt(x, sz) + n + k
      /\ x.pos <= sz => r.x.pos <= r.sz
      /\ x.pos = sz /\ ~Append(x) => r.x.pos = r.sz
  BY <1>3, <1>4, WrittenFacts
<1>6. WriteAt(x, sz) + n + k = WriteAt(x, sz) + x.pend + w
  BY <1>2, <1>3
<1> QED BY <1>1, <1>5, <1>6

LEMMA FailFacts ==
    ASSUME NEW x \in Stream, NEW sz \in 0..MaxSize, NEW w \in Nat,
           NEW r \in fwrite_fails(x, sz, w)
    PROVE  /\ r.x \in Stream /\ r.x.name = x.name /\ r.x.mode = x.mode
           /\ r.sz \in 0..MaxSize /\ r.sz >= sz
           /\ x.pos <= sz => r.x.pos <= r.sz
<1>1. PICK n \in Achieved(x, sz, x.pend + w) : r = Written(x, sz, n, 0)
  BY DEF fwrite_fails
<1>2. x.pend \in 0..BufSize /\ WriteAt(x, sz) \in 0..MaxTell
  BY StreamFacts
<1>3. n \in Nat /\ Fits(x, sz, n)
  BY <1>2 DEF Achieved
<1>4. 0 \in 0..BufSize /\ WriteAt(x, sz) + n + 0 <= MaxTell
  BY <1>2, <1>3 DEF Fits
<1> QED BY <1>1, <1>3, <1>4, WrittenFacts

(***************************************************************************)
(* One step.                                                               *)
(***************************************************************************)

\* The step of PositionsStayInside.
PositionsStep ==
    \A s \in Streams :
        Inside(s) /\ Open(s)' /\ ~reply'.lost
        /\ size'[stream[s].name] >= size[stream[s].name] => Inside(s)'

\* What a command other than the beginning of a transfer does.
Plain ==
    /\ TypeOK' /\ PositionsStep
    /\ stream'[Put] = stream[Put]
    /\ UNCHANGED transferVars

LEMMA OpenStream ==
    ASSUME TypeOK, NEW s \in Streams, Open(s)
    PROVE  /\ stream[s] \in Stream /\ stream[s].name \in Names
           /\ size[stream[s].name] \in 0..MaxSize
<1>1. stream[s] \in Stream
  BY DEF TypeOK, Open
<1>2. stream[s].name \in Names
  BY <1>1 DEF Stream
<1> QED BY <1>1, <1>2 DEF TypeOK

LEMMA StreamOpen ==
    ASSUME NEW x \in Stream PROVE x \notin {NULL, Closed}
BY NullAssumption

LEMMA BecomesFacts ==
    ASSUME TypeOK, NEW s \in Streams, NEW r, r.x \in Stream, r.sz \in 0..MaxSize,
           Becomes(s, r)
    PROVE  /\ size' \in [Names -> 0..MaxSize]
           /\ stream' \in [Streams -> Stream \cup {NULL, Closed}]
           /\ stream'[s] = r.x
           /\ \A t \in Streams \ {s} : stream'[t] = stream[t]
           /\ size'[r.x.name] = r.sz
<1>1. r.x.name \in Names
  BY DEF Stream
<1> QED BY <1>1 DEF TypeOK, Becomes

\* Only one stream moves: the others keep their position, and are inside the
\* file if they were and it did not shrink.
LEMMA PositionsFrame ==
    ASSUME TypeOK, NEW s \in Streams,
           size' \in [Names -> 0..MaxSize],
           \A t \in Streams \ {s} : stream'[t] = stream[t],
           Inside(s) /\ Open(s)' /\ ~reply'.lost
           /\ size'[stream[s].name] >= size[stream[s].name] => Inside(s)'
    PROVE  PositionsStep
<1> SUFFICES ASSUME NEW t \in Streams, t # s, Inside(t),
                    size'[stream[t].name] >= size[stream[t].name]
             PROVE  Inside(t)'
  BY DEF PositionsStep
<1>1. Open(t) /\ stream'[t] = stream[t]
  BY DEF Inside
<1>2. stream[t] \in Stream /\ stream[t].name \in Names
  BY <1>1, OpenStream
<1>3. stream[t].pos \in Nat /\ size[stream[t].name] \in Nat
      /\ size'[stream[t].name] \in Nat
  BY <1>2 DEF TypeOK, Stream
<1>4. stream[t].pos <= size'[stream[t].name]
  BY <1>3 DEF Inside
<1> QED BY <1>1, <1>4 DEF Inside, Open

LEMMA SizeFrame ==
    ASSUME TypeOK, size' \in [Names -> 0..MaxSize], UNCHANGED stream
    PROVE  PositionsStep
<1> SUFFICES ASSUME NEW t \in Streams, Inside(t),
                    size'[stream[t].name] >= size[stream[t].name]
             PROVE  Inside(t)'
  BY DEF PositionsStep
<1>1. Open(t) /\ stream'[t] = stream[t]
  BY DEF Inside
<1>2. stream[t] \in Stream /\ stream[t].name \in Names
  BY <1>1, OpenStream
<1>3. stream[t].pos \in Nat /\ size[stream[t].name] \in Nat
      /\ size'[stream[t].name] \in Nat
  BY <1>2 DEF TypeOK, Stream
<1>4. stream[t].pos <= size'[stream[t].name]
  BY <1>3 DEF Inside
<1> QED BY <1>1, <1>4 DEF Inside, Open

\* A command on handle h whose result is r.
LEMMA HandleStep ==
    ASSUME TypeOK, NEW h \in Handles, NEW r, r.x \in Stream, r.sz \in 0..MaxSize,
           Becomes(h, r),
           UNCHANGED <<inputfmt, transferVars, crashed>>,
           reply' \in [len : 0..(Word - 1) \cup {NULL}, lost : BOOLEAN],
           Inside(h) /\ ~reply'.lost /\ r.x.name = stream[h].name
           /\ r.sz >= size[stream[h].name] => r.x.pos <= r.sz,
           Open(h) => r.x.name = stream[h].name
    PROVE  Plain
<1>1. h \in Streams /\ Put \in Streams /\ Put # h
  BY HandlesAssumption DEF Streams
<1>2. /\ size' \in [Names -> 0..MaxSize]
      /\ stream' \in [Streams -> Stream \cup {NULL, Closed}]
      /\ stream'[h] = r.x
      /\ \A t \in Streams \ {h} : stream'[t] = stream[t]
      /\ size'[r.x.name] = r.sz
  BY <1>1, BecomesFacts
<1>3. TypeOK'
  BY <1>2 DEF TypeOK, transferVars
<1>4. ASSUME Inside(h), ~reply'.lost,
             size'[stream[h].name] >= size[stream[h].name]
      PROVE  Inside(h)'
  <2>1. r.x.name = stream[h].name
    BY <1>4 DEF Inside
  <2>2. r.x.pos <= r.sz
    BY <2>1, <1>2, <1>4
  <2>3. r.x \notin {NULL, Closed}
    BY StreamOpen
  <2> QED BY <2>2, <2>3, <1>2 DEF Inside, Open
<1>5. PositionsStep
  BY <1>1, <1>2, <1>4, PositionsFrame
<1>6. stream'[Put] = stream[Put]
  BY <1>1, <1>2
<1> QED BY <1>3, <1>5, <1>6 DEF Plain

LEMMA UintFacts ==
    ASSUME NEW a \in 0..(Word - 1), NEW b \in 0..(Word - 1)
    PROVE  /\ Plus(a, b) \in 0..(Word - 1) /\ Minus(a, b) \in 0..(Word - 1)
           /\ a + b < Word => Plus(a, b) = a + b
           /\ b <= a => Minus(a, b) = a - b
BY DEF Plus, Minus

LEMMA RefuseStep == ASSUME TypeOK, Refuse PROVE Plain
<1>1. size' \in [Names -> 0..MaxSize] /\ UNCHANGED stream
  BY DEF TypeOK, Refuse
<1>2. TypeOK'
  BY DEF TypeOK, Refuse, transferVars, NoReply
<1>3. PositionsStep
  BY <1>1, SizeFrame
<1> QED BY <1>2, <1>3 DEF Plain, Refuse, NoReply

LEMMA MfcfgStep == ASSUME TypeOK, NEW fmt \in Formats, MFCFG(fmt) PROVE Plain
<1>1. size' \in [Names -> 0..MaxSize] /\ UNCHANGED stream
  BY DEF TypeOK, MFCFG
<1>2. TypeOK'
  BY DEF TypeOK, MFCFG, transferVars, NoReply
<1>3. PositionsStep
  BY <1>1, SizeFrame
<1> QED BY <1>2, <1>3 DEF Plain, MFCFG, NoReply

LEMMA MfopenStep ==
    ASSUME TypeOK, NEW h \in Handles, NEW n \in Names, NEW m \in Modes,
           MFOPEN(h, n, m)
    PROVE  Plain
<1> DEFINE sz == IF m \in {"w", "w+"} THEN 0 ELSE size[n]
<1>1. sz \in 0..MaxSize
  BY DEF TypeOK
<1>2. PICK pos \in {0} \cup {sz} :
         Becomes(h, [x |-> [name |-> n, mode |-> m, pos |-> pos, pend |-> 0],
                     sz |-> sz])
  BY DEF MFOPEN
<1> DEFINE x == [name |-> n, mode |-> m, pos |-> pos, pend |-> 0]
           r == [x |-> x, sz |-> sz]
<1>3. x \in Stream
  BY <1>1, ModesAssumption DEF Stream, Append
<1>4. r.x \in Stream /\ r.sz \in 0..MaxSize /\ Becomes(h, r)
      /\ r.x.pos <= r.sz
  BY <1>1, <1>2, <1>3
<1>5. reply' = NoReply /\ UNCHANGED <<inputfmt, transferVars, crashed>>
      /\ ~Open(h)
  BY DEF MFOPEN, Open
<1>6. reply' \in [len : 0..(Word - 1) \cup {NULL}, lost : BOOLEAN]
      /\ reply'.len = NULL
  BY <1>5 DEF NoReply
<1> HIDE DEF r
<1> QED BY <1>4, <1>5, <1>6, HandleStep

LEMMA MfcloseStep == ASSUME TypeOK, NEW h \in Handles, MFCLOSE(h) PROVE Plain
<1> DEFINE x == stream[h]
           sz == size[x.name]
<1>1. h \in Streams /\ Put \in Streams /\ Put # h
  BY HandlesAssumption DEF Streams
<1>2. x \in Stream /\ x.name \in Names /\ sz \in 0..MaxSize
  BY <1>1, OpenStream DEF MFCLOSE
<1>3. PICK r \in fflush(x, sz) :
         /\ size' = [size EXCEPT ![x.name] = r.sz]
         /\ stream' = [stream EXCEPT ![h] = IF r.out = x.pend THEN NULL ELSE Closed]
  BY DEF MFCLOSE
<1>4. r.sz \in 0..MaxSize
  BY <1>2, FlushFacts
<1>5. size' \in [Names -> 0..MaxSize]
  BY <1>3, <1>4 DEF TypeOK
<1>6. /\ stream' \in [Streams -> Stream \cup {NULL, Closed}]
      /\ \A t \in Streams \ {h} : stream'[t] = stream[t]
      /\ stream'[h] \in {NULL, Closed}
  BY <1>1, <1>3 DEF TypeOK
<1>7. reply' = NoReply /\ UNCHANGED <<inputfmt, transferVars, crashed>>
  BY DEF MFCLOSE
<1>8. TypeOK'
  BY <1>5, <1>6, <1>7 DEF TypeOK, NoReply, transferVars
<1>9. PositionsStep
  BY <1>1, <1>5, <1>6, PositionsFrame DEF Open
<1> QED BY <1>1, <1>6, <1>7, <1>8, <1>9 DEF Plain, NoReply

\* The result r of a flush with the position set to pos.
LEMMA SeekFacts ==
    ASSUME NEW x \in Stream, NEW sz \in 0..MaxSize, NEW r \in fflush(x, sz),
           NEW pos \in 0..MaxTell
    PROVE  /\ SeekTo(r, pos).x \in Stream
           /\ SeekTo(r, pos).x.name = x.name
           /\ SeekTo(r, pos).x.pos = pos
           /\ SeekTo(r, pos).sz = r.sz
<1>1. PICK n \in Achieved(x, sz, x.pend) : r = Written(x, sz, n, 0)
  BY DEF fflush
<1>2. r.x \in Stream /\ r.x.name = x.name /\ r.x.pend = 0
  BY FlushFacts
<1>3. r = [x |-> r.x, sz |-> r.sz, out |-> r.out]
  BY <1>1 DEF Written
<1> DEFINE y == [r.x EXCEPT !.pos = pos]
<1>4. SeekTo(r, pos).x = y /\ SeekTo(r, pos).sz = r.sz
  BY <1>3 DEF SeekTo
<1>5. r.x \in [name : Names, mode : AllModes, pos : 0..MaxTell, pend : 0..BufSize]
  BY <1>2 DEF Stream
<1>6. /\ y \in [name : Names, mode : AllModes, pos : 0..MaxTell, pend : 0..BufSize]
      /\ y.pos = pos /\ y.pend = 0 /\ y.name = x.name
  BY <1>2, <1>5
<1>7. y \in Stream
  BY <1>6 DEF Stream
<1> QED BY <1>4, <1>6, <1>7

LEMMA SizeByPoint ==
    ASSUME NEW x \in Stream, NEW sz \in 0..MaxSize, NEW r \in fflush(x, sz)
    PROVE  /\ cm_file_get_size_by_file_point(r, x, sz) \in 0..MaxTell
           /\ ~(r.out < x.pend) => cm_file_get_size_by_file_point(r, x, sz) = r.sz
<1>1. r.sz \in 0..MaxSize /\ r.x \in Stream /\ r.out \in 0..x.pend
  BY FlushFacts
<1>2. r.x.pos \in 0..MaxTell /\ x.pend \in 0..BufSize
  BY <1>1, StreamFacts
<1> QED BY <1>1, <1>2 DEF cm_file_get_size_by_file_point

LEMMA ReadLenFacts ==
    ASSUME NEW want \in Lengths \cup {NULL}, NEW left \in 0..(Word - 1)
    PROVE  ReadLen(want, left) \in 0..left
BY LengthsAssumption DEF ReadLen, Least

LEMMA ReadableFacts ==
    ASSUME NEW x, NEW pos \in 0..MaxTell, NEW sz \in 0..MaxSize,
           NEW n \in Readable(x, pos, sz)
    PROVE  /\ n \in Nat /\ pos + n <= MaxTell
           /\ pos <= sz => n = sz - pos
BY DEF Readable

\* What MFREAD does: after a flush with the result r it answers with readLen,
\* or not at all, at the position pos.  When nothing was lost and the stream
\* was inside its file, all of readLen is in the file.
LEMMA MfreadFacts ==
    ASSUME TypeOK, NEW h \in Handles, NEW want \in Lengths \cup {NULL},
           MFREAD(h, want)
    PROVE  LET x == stream[h]
               sz == size[x.name]
               curPos == ftell(x, sz)
           IN  /\ x \in Stream /\ sz \in 0..MaxSize /\ Open(h)
               /\ \E r \in fflush(x, sz), pos \in 0..MaxTell,
                     len \in 0..(Word - 1) \cup {NULL} :
                     /\ Becomes(h, SeekTo(r, pos))
                     /\ Reply(len, r.out < x.pend)
                     /\ x.pos <= sz /\ ~(r.out < x.pend) =>
                           /\ pos <= r.sz
                           /\ len # NULL => pos = curPos + len
<1> DEFINE x == stream[h]
           sz == size[x.name]
           curPos == ftell(x, sz)
<1>1. h \in Streams /\ Open(h)
  BY DEF Streams, MFREAD
<1>2. x \in Stream /\ x.name \in Names /\ sz \in 0..MaxSize
  BY <1>1, OpenStream
<1>3. curPos \in 0..MaxTell /\ x.pos \in 0..MaxTell /\ x.pend \in 0..BufSize
  BY <1>2, StreamFacts
<1>4. PICK r \in fflush(x, sz) :
         LET fsize   == cm_file_get_size_by_file_point(r, x, sz)
             readLen == ReadLen(want, Minus(fsize, curPos))
             lost    == r.out < x.pend
         IN  \/ /\ readLen = 0 \/ want # NULL \/ "malloc" \in Failures
                /\ Becomes(h, SeekTo(r, curPos))
                /\ Reply(NULL, lost)
             \/ /\ readLen > 0
                /\ \E n \in Readable(x, curPos, r.sz), frag \in Fragments :
                      /\ Becomes(h, SeekTo(r, curPos + Least(readLen, n)))
                      /\ Reply(IF Least(readLen, frag) <= n THEN readLen
                               ELSE NULL, lost)
  BY DEF MFREAD
<1> DEFINE fsize   == cm_file_get_size_by_file_point(r, x, sz)
           left    == Minus(fsize, curPos)
           readLen == ReadLen(want, left)
           lost    == r.out < x.pend
<1>5. fsize \in 0..MaxTell /\ (~lost => fsize = r.sz)
  BY <1>2, SizeByPoint
<1>6. /\ r.sz \in 0..MaxSize /\ r.out \in 0..x.pend
      /\ x.pos <= sz /\ r.out = x.pend => curPos <= r.sz
  BY <1>2, FlushFacts
<1> HIDE DEF fsize, curPos
<1>7. left \in 0..(Word - 1)
  BY <1>3, <1>5 DEF Minus
<1>8. x.pos <= sz /\ ~lost => left = r.sz - curPos /\ curPos <= r.sz
  BY <1>3, <1>5, <1>6 DEF Minus
<1> HIDE DEF left
<1>9. readLen \in 0..left
  BY <1>7, ReadLenFacts
<1> HIDE DEF readLen, lost
<1>10. \E pos \in 0..MaxTell, len \in 0..(Word - 1) \cup {NULL} :
          /\ Becomes(h, SeekTo(r, pos))
          /\ Reply(len, lost)
          /\ x.pos <= sz /\ ~lost => /\ pos <= r.sz
                                     /\ len # NULL => pos = curPos + len
  <2>1. CASE Becomes(h, SeekTo(r, curPos)) /\ Reply(NULL, lost)
    <3>1. x.pos <= sz /\ ~lost => curPos <= r.sz
      BY <1>8
    <3> QED BY ONLY <2>1, <3>1, <1>3
  <2>2. ASSUME NEW n \in Readable(x, curPos, r.sz), NEW frag \in Fragments,
               Becomes(h, SeekTo(r, curPos + Least(readLen, n))),
               Reply(IF Least(readLen, frag) <= n THEN readLen ELSE NULL, lost)
        PROVE  \E pos \in 0..MaxTell, len \in 0..(Word - 1) \cup {NULL} :
                  /\ Becomes(h, SeekTo(r, pos))
                  /\ Reply(len, lost)
                  /\ x.pos <= sz /\ ~lost => /\ pos <= r.sz
                                             /\ len # NULL => pos = curPos + len
    <3> DEFINE pos == curPos + Least(readLen, n)
               len == IF Least(readLen, frag) <= n THEN readLen ELSE NULL
    <3>1. n \in Nat /\ curPos + n <= MaxTell /\ (curPos <= r.sz => n = r.sz - curPos)
      BY <1>3, <1>6, ReadableFacts
    <3>2. pos \in 0..MaxTell
      BY <1>3, <1>7, <1>9, <3>1 DEF Least
    <3>3. len \in 0..(Word - 1) \cup {NULL}
      BY <1>7, <1>9
    <3>4. ASSUME x.pos <= sz, ~lost
          PROVE  pos = curPos + readLen /\ pos <= r.sz
      <4>1. readLen <= n
        BY <1>7, <1>8, <1>9, <3>1, <3>4
      <4> QED BY <1>3, <1>6, <1>7, <1>8, <1>9, <3>1, <3>4, <4>1 DEF Least
    <3>5. len # NULL => len = readLen
      OBVIOUS
    <3>6. Becomes(h, SeekTo(r, pos)) /\ Reply(len, lost)
      BY <2>2
    <3> HIDE DEF pos, len
    <3> QED BY <3>2, <3>3, <3>4, <3>5, <3>6
  <2> QED BY <1>4, <2>1, <2>2 DEF readLen, left, fsize, lost, curPos
<1> QED BY <1>1, <1>2, <1>10 DEF lost, curPos

LEMMA MfreadStep ==
    ASSUME TypeOK, NEW h \in Handles, NEW want \in Lengths \cup {NULL},
           MFREAD(h, want)
    PROVE  Plain
<1> DEFINE x == stream[h]
           sz == size[x.name]
<1>1. x \in Stream /\ sz \in 0..MaxSize
  BY MfreadFacts
<1>2. PICK r \in fflush(x, sz), pos \in 0..MaxTell, len \in 0..(Word - 1) \cup {NULL} :
         /\ Becomes(h, SeekTo(r, pos))
         /\ Reply(len, r.out < x.pend)
         /\ x.pos <= sz /\ ~(r.out < x.pend) => pos <= r.sz
  BY MfreadFacts
<1> DEFINE q == SeekTo(r, pos)
           lost == r.out < x.pend
<1>3. /\ q.x \in Stream /\ q.x.name = x.name /\ q.x.pos = pos /\ q.sz = r.sz
      /\ r.sz \in 0..MaxSize
  BY <1>1, <1>2, SeekFacts, FlushFacts
<1>4. reply' = [len |-> len, lost |-> lost] /\ lost \in BOOLEAN
  BY <1>2 DEF Reply
<1>5. UNCHANGED <<inputfmt, transferVars, crashed>>
  BY DEF MFREAD
<1>6. Becomes(h, q)
  BY <1>2
<1> HIDE DEF q
<1>7. Inside(h) /\ ~reply'.lost => q.x.pos <= q.sz
  BY <1>2, <1>3, <1>4 DEF Inside
<1> HIDE DEF lost
<1>8. reply' \in [len : 0..(Word - 1) \cup {NULL}, lost : BOOLEAN]
  BY <1>4
<1> QED BY <1>3, <1>5, <1>6, <1>7, <1>8, HandleStep

\* A target that is_fs_OverFlow admits is not behind the size it was given.
LEMMA SeekTarget ==
    ASSUME NEW fsize \in 0..MaxTell, NEW curPos \in 0..MaxTell,
           NEW sz \in 0..MaxSize, NEW offset \in Offsets, NEW dir \in 0..2,
           ~is_fs_OverFlow(fsize, curPos, offset, dir)
    PROVE  LET target == offset + (CASE dir = 0 -> 0
                                     [] dir = 1 -> curPos
                                     [] dir = 2 -> sz)
           IN  target >= 0 => target \in Nat /\ (target <= fsize \/ target <= sz)
<1>0. offset \in Int /\ -(MaxSize + 1) <= offset /\ offset <= MaxSize + 1
  BY DEF Offsets
<1>1. CASE dir = 0
  BY <1>0, <1>1 DEF is_fs_OverFlow
<1>2. CASE dir = 1
  <2>1. CASE offset < 0
    BY <1>0, <1>2, <2>1 DEF is_fs_OverFlow, Minus
  <2>2. CASE offset >= 0
    BY <1>0, <1>2, <2>2 DEF is_fs_OverFlow, Plus
  <2> QED BY <1>0, <2>1, <2>2
<1>3. CASE dir = 2
  BY <1>0, <1>3 DEF is_fs_OverFlow
<1> QED BY <1>1, <1>2, <1>3

LEMMA MfseekStep ==
    ASSUME TypeOK, NEW h \in Handles, NEW offset \in Offsets, NEW dir \in 0..2,
           MFSEEK(h, offset, dir)
    PROVE  Plain
<1> DEFINE x == stream[h]
           sz == size[x.name]
           curPos == ftell(x, sz)
<1>1. h \in Streams /\ Open(h)
  BY DEF Streams, MFSEEK
<1>2. x \in Stream /\ x.name \in Names /\ sz \in 0..MaxSize
  BY <1>1, OpenStream
<1>3. curPos \in 0..MaxTell /\ x.pos \in 0..MaxTell /\ x.pend \in 0..BufSize
  BY <1>2, StreamFacts
<1>4. PICK r \in fflush(x, sz) :
         LET fsize  == cm_file_get_size_by_file_point(r, x, sz)
             target == offset + (CASE dir = 0 -> 0
                                   [] dir = 1 -> curPos
                                   [] dir = 2 -> r.sz)
             moves  == ~is_fs_OverFlow(fsize, curPos, offset, dir) /\ target >= 0
         IN  /\ Becomes(h, SeekTo(r, IF moves THEN target ELSE curPos))
             /\ Reply(NULL, r.out < x.pend)
  BY DEF MFSEEK
<1> DEFINE fsize  == cm_file_get_size_by_file_point(r, x, sz)
           target == offset + (CASE dir = 0 -> 0
                                 [] dir = 1 -> curPos
                                 [] dir = 2 -> r.sz)
           moves  == ~is_fs_OverFlow(fsize, curPos, offset, dir) /\ target >= 0
           lost   == r.out < x.pend
           pos    == IF moves THEN target ELSE curPos
<1>5. fsize \in 0..MaxTell /\ (~lost => fsize = r.sz)
  BY <1>2, SizeByPoint
<1>6. /\ r.sz \in 0..MaxSize /\ r.sz >= sz /\ r.out \in 0..x.pend
      /\ x.pos <= sz /\ r.out = x.pend => curPos <= r.sz
  BY <1>2, FlushFacts
<1>7. Becomes(h, SeekTo(r, pos)) /\ Reply(NULL, lost)
  BY <1>4
<1> HIDE DEF fsize, curPos
<1>8. moves => target \in Nat /\ (target <= fsize \/ target <= r.sz)
  BY <1>3, <1>5, <1>6, SeekTarget
<1> HIDE DEF target, moves
<1>9. pos \in 0..MaxTell
  BY <1>3, <1>5, <1>6, <1>8
<1>10. x.pos <= sz /\ ~lost => pos <= r.sz
  BY <1>3, <1>5, <1>6, <1>8
<1> HIDE DEF pos
<1> DEFINE q == SeekTo(r, pos)
<1>11. /\ q.x \in Stream /\ q.x.name = x.name /\ q.x.pos = pos /\ q.sz = r.sz
  BY <1>2, <1>9, SeekFacts
<1>12. reply' = [len |-> NULL, lost |-> lost]
  BY <1>7 DEF Reply
<1>13. UNCHANGED <<inputfmt, transferVars, crashed>>
  BY DEF MFSEEK
<1>14. Becomes(h, q)
  BY <1>7
<1> HIDE DEF q
<1>15. Inside(h) /\ ~reply'.lost => q.x.pos <= q.sz
  BY <1>10, <1>11, <1>12 DEF Inside
<1>16. reply' \in [len : 0..(Word - 1) \cup {NULL}, lost : BOOLEAN]
       /\ reply'.len = NULL
  BY <1>12
<1> QED BY <1>6, <1>11, <1>13, <1>14, <1>15, <1>16, HandleStep

\* MFTRUNC and the cancelled MFWRITE: the file may shrink.
LEMMA TruncateFacts ==
    ASSUME TypeOK, NEW h \in Handles, Open(h), NEW length \in 0..(Word - 1),
           Truncate(h, length)
    PROVE  \E r : /\ r.x \in Stream /\ r.sz \in 0..MaxSize /\ Becomes(h, r)
                  /\ r.x.name = stream[h].name
                  /\ reply' \in [len : {NULL}, lost : BOOLEAN]
                  /\ Inside(h) /\ ~reply'.lost => r.x.pos <= r.sz
<1> DEFINE x == stream[h]
           sz == size[x.name]
<1>1. h \in Streams
  BY DEF Streams
<1>2. x \in Stream /\ x.name \in Names /\ sz \in 0..MaxSize
  BY <1>1, OpenStream
<1>3. PICK r \in fflush(x, sz) :
        /\ Becomes(h, [x  |-> IF r.out = x.pend THEN [r.x EXCEPT !.pos = 0]
                              ELSE r.x,
                       sz |-> IF x.mode = "r" \/ length > MaxSize THEN r.sz
                              ELSE length])
        /\ Reply(NULL, r.out < x.pend)
  BY DEF Truncate
<1> DEFINE y == IF r.out = x.pend THEN [r.x EXCEPT !.pos = 0] ELSE r.x
           z == IF x.mode = "r" \/ length > MaxSize THEN r.sz ELSE length
           q == [x |-> y, sz |-> z]
<1>4. /\ r.x \in Stream /\ r.x.name = x.name /\ r.x.pend = 0
      /\ r.sz \in 0..MaxSize /\ r.out \in 0..x.pend
  BY <1>2, FlushFacts
<1>5. r.x \in [name : Names, mode : AllModes, pos : 0..MaxTell, pend : 0..BufSize]
  BY <1>4 DEF Stream
<1>6. y \in Stream /\ y.name = x.name /\ (r.out = x.pend => y.pos = 0)
  <2>1. CASE r.out = x.pend
    <3>1. /\ y \in [name : Names, mode : AllModes, pos : 0..MaxTell, pend : 0..BufSize]
          /\ y.pos = 0 /\ y.pend = 0 /\ y.name = x.name
      BY <2>1, <1>4, <1>5
    <3> QED BY <3>1 DEF Stream
  <2>2. CASE r.out # x.pend
    BY <2>2, <1>4
  <2> QED BY <2>1, <2>2
<1>7. z \in 0..MaxSize
  BY <1>4
<1>8. Becomes(h, q)
  BY <1>3
<1>9. reply' = [len |-> NULL, lost |-> r.out < x.pend]
  BY <1>3 DEF Reply
<1>10. x.pend \in 0..BufSize
  BY <1>2, StreamFacts
<1> HIDE DEF y, z
<1>11. ~reply'.lost => y.pos = 0
  <2>1. r.out < x.pend \/ r.out = x.pend
    BY ONLY <1>4, <1>10, BoundsAssumption
  <2>2. r.out < x.pend => reply'.lost
    BY ONLY <1>9, Zenon
  <2> QED BY ONLY <2>1, <2>2, <1>6
<1>12. q.x = y /\ q.sz = z
  OBVIOUS
<1> HIDE DEF q
<1>13. ~reply'.lost => q.x.pos <= q.sz
  BY <1>7, <1>11, <1>12
<1>14. reply' \in [len : {NULL}, lost : BOOLEAN]
  BY <1>9
<1> QED BY <1>6, <1>7, <1>8, <1>12, <1>13, <1>14

LEMMA MftruncStep ==
    ASSUME TypeOK, NEW h \in Handles, NEW length \in Lengths, MFTRUNC(h, length)
    PROVE  Plain
<1>1. Open(h) /\ length \in 0..(Word - 1) /\ Truncate(h, length)
      /\ UNCHANGED <<inputfmt, transferVars, crashed>>
  BY LengthsAssumption DEF MFTRUNC
<1>2. PICK r : /\ r.x \in Stream /\ r.sz \in 0..MaxSize /\ Becomes(h, r)
               /\ r.x.name = stream[h].name
               /\ reply' \in [len : {NULL}, lost : BOOLEAN]
               /\ Inside(h) /\ ~reply'.lost => r.x.pos <= r.sz
  BY <1>1, TruncateFacts
<1>3. reply' \in [len : 0..(Word - 1) \cup {NULL}, lost : BOOLEAN]
      /\ reply'.len = NULL
  BY <1>2
<1> QED BY <1>1, <1>2, <1>3, HandleStep

LEMMA WriteSizeFacts ==
    ASSUME NEW a \in Lengths, NEW d \in 0..MaxBlock
    PROVE  WriteSize(a, d) \in Nat \cup {NULL}
<1>1. d \in Nat /\ d \div 2 \in Nat
  OBVIOUS
<1> QED BY <1>1 DEF WriteSize

LEMMA MfwriteSizeFacts ==
    ASSUME NEW a \in Lengths, NEW d \in 0..MaxBlock
    PROVE  MfwriteSize(a, d) \in Nat \cup {NULL}
BY WriteSizeFacts, LengthsAssumption DEF MfwriteSize

LEMMA NewPutFacts ==
    ASSUME NEW n \in Names
    PROVE  /\ NewPut(n) \in Stream /\ NewPut(n).name = n /\ NewPut(n).pos = 0
           /\ NewPut(n).pend = 0 /\ NewPut(n).mode = "w+" /\ ~Append(NewPut(n))
           /\ WriteAt(NewPut(n), 0) = 0
<1>1. NewPut(n) \in [name : Names, mode : AllModes, pos : 0..MaxTell, pend : 0..BufSize]
  BY DEF NewPut, AllModes
<1>2. /\ NewPut(n).name = n /\ NewPut(n).pos = 0 /\ NewPut(n).pend = 0
      /\ NewPut(n).mode = "w+" /\ ~Append(NewPut(n))
  BY DEF NewPut, Append
<1> QED BY <1>1, <1>2 DEF Stream, WriteAt

\* MFPUT with its data: no stream of the list moves.
LEMMA MfputStep ==
    ASSUME TypeOK, NEW n \in Names, NEW a \in Lengths, NEW d \in 0..MaxBlock,
           MFPUT(n, a, d)
    PROVE  Plain
<1> DEFINE w == WriteSize(a, d)
<1>1. UNCHANGED <<stream, inputfmt, transferVars, crashed>>
  BY DEF MFPUT
<1>2. \E z \in 0..MaxSize :
        /\ size' = [size EXCEPT ![n] = z]
        /\ reply' \in [len : 0..MaxTell \cup {NULL}, lost : BOOLEAN]
  <2>1. CASE size' = [size EXCEPT ![n] = 0] /\ reply' = NoReply
    <3>1. 0 \in 0..MaxSize /\ reply' \in [len : 0..MaxTell \cup {NULL}, lost : BOOLEAN]
      BY <2>1 DEF NoReply
    <3> QED BY <2>1, <3>1
  <2>2. CASE /\ w # NULL
             /\ \E o \in fwrite(NewPut(n), 0, w) : \E r \in fflush(o.x, o.sz) :
                  /\ size' = [size EXCEPT ![n] = r.sz]
                  /\ Reply(w, r.out < o.x.pend)
    <3>1. PICK o \in fwrite(NewPut(n), 0, w) : \E r \in fflush(o.x, o.sz) :
             /\ size' = [size EXCEPT ![n] = r.sz]
             /\ Reply(w, r.out < o.x.pend)
      BY <2>2
    <3>2. PICK r \in fflush(o.x, o.sz) :
             /\ size' = [size EXCEPT ![n] = r.sz]
             /\ Reply(w, r.out < o.x.pend)
      BY <3>1
    <3>3. w \in Nat
      BY <2>2, WriteSizeFacts
    <3> HIDE DEF w
    <3>4. NewPut(n) \in Stream /\ WriteAt(NewPut(n), 0) = 0 /\ NewPut(n).pend = 0
      BY NewPutFacts
    <3>5. 0 \in 0..MaxSize
      OBVIOUS
    <3>6. o.x \in Stream /\ o.sz \in 0..MaxSize
          /\ WriteAt(NewPut(n), 0) + NewPut(n).pend + w <= MaxTell
      BY <3>3, <3>4, <3>5, WriteFacts
    <3>7. w \in 0..MaxTell
      BY <3>3, <3>4, <3>6
    <3>8. r.sz \in 0..MaxSize
      BY <3>6, FlushFacts
    <3>9. reply' \in [len : 0..MaxTell \cup {NULL}, lost : BOOLEAN]
      BY <3>2, <3>7 DEF Reply
    <3> QED BY <3>2, <3>8, <3>9
  <2>3. CASE /\ w # NULL
             /\ \E r \in fwrite_fails(NewPut(n), 0, w) :
                   size' = [size EXCEPT ![n] = r.sz]
             /\ reply' = NoReply
    <3>1. PICK r \in fwrite_fails(NewPut(n), 0, w) : size' = [size EXCEPT ![n] = r.sz]
      BY <2>3
    <3>2. w \in Nat
      BY <2>3, WriteSizeFacts
    <3> HIDE DEF w
    <3>3. NewPut(n) \in Stream
      BY NewPutFacts
    <3>4. 0 \in 0..MaxSize
      OBVIOUS
    <3>5. r.sz \in 0..MaxSize
      BY <3>2, <3>3, <3>4, FailFacts
    <3> QED BY <3>1, <3>5, <2>3 DEF NoReply
  <2> QED BY <2>1, <2>2, <2>3 DEF MFPUT
<1>3. size' \in [Names -> 0..MaxSize]
      /\ reply' \in [len : 0..(Word - 1) \cup {NULL}, lost : BOOLEAN]
  BY <1>2 DEF TypeOK
<1>4. TypeOK'
  BY <1>1, <1>3 DEF TypeOK, transferVars
<1>5. PositionsStep
  BY <1>1, <1>3, SizeFrame
<1> QED BY <1>1, <1>3, <1>4, <1>5 DEF Plain

LEMMA MfwriteStep ==
    ASSUME TypeOK, NEW h \in Handles, NEW a \in Lengths, NEW d \in 0..MaxBlock,
           MFWRITE(h, a, d)
    PROVE  Plain
<1> DEFINE x == stream[h]
           sz == size[x.name]
           w == MfwriteSize(a, d)
<1>1. /\ Open(h) /\ w # NULL
      /\ UNCHANGED <<inputfmt, transferVars>>
      /\ \/ /\ \/ (\E r \in fwrite(x, sz, w) : Becomes(h, r)) /\ Reply(w, FALSE)
               \/ (\E r \in fwrite_fails(x, sz, w) : Becomes(h, r)) /\ reply' = NoReply
            /\ UNCHANGED crashed
         \/ crashed' = TRUE /\ UNCHANGED <<size, stream, reply>>
  BY DEF MFWRITE
<1>2. h \in Streams
  BY DEF Streams
<1>3. x \in Stream /\ sz \in 0..MaxSize
  BY <1>1, <1>2, OpenStream
<1>4. w \in Nat
  BY <1>1, MfwriteSizeFacts
<1> HIDE DEF w
<1>5. WriteAt(x, sz) \in 0..MaxTell /\ x.pend \in 0..BufSize
  BY <1>3, StreamFacts
<1>6. CASE crashed' = TRUE /\ UNCHANGED <<size, stream, reply>>
  <2>1. TypeOK'
    BY <1>1, <1>6 DEF TypeOK, transferVars
  <2>2. PositionsStep
    BY <1>6, SizeFrame DEF TypeOK
  <2> QED BY <1>1, <1>6, <2>1, <2>2 DEF Plain
<1> SUFFICES ASSUME ~(crashed' = TRUE /\ UNCHANGED <<size, stream, reply>>)
             PROVE  Plain
  BY <1>6
<1>7. PICK r : /\ r.x \in Stream /\ r.x.name = x.name /\ r.sz \in 0..MaxSize
               /\ x.pos <= sz => r.x.pos <= r.sz
               /\ Becomes(h, r)
               /\ reply' \in [len : 0..MaxTell \cup {NULL}, lost : BOOLEAN]
  <2>1. CASE (\E r \in fwrite(x, sz, w) : Becomes(h, r)) /\ Reply(w, FALSE)
    <3>1. PICK r \in fwrite(x, sz, w) : Becomes(h, r)
      BY <2>1
    <3>2. /\ r.x \in Stream /\ r.x.name = x.name /\ r.sz \in 0..MaxSize
          /\ x.pos <= sz => r.x.pos <= r.sz
          /\ WriteAt(x, sz) + x.pend + w <= MaxTell
      BY <1>3, <1>4, WriteFacts
    <3>3. w \in 0..MaxTell
      BY <3>2, <1>4, <1>5
    <3>4. reply' \in [len : 0..MaxTell \cup {NULL}, lost : BOOLEAN]
      BY <2>1, <3>3 DEF Reply
    <3> QED BY <3>1, <3>2, <3>4
  <2>2. CASE (\E r \in fwrite_fails(x, sz, w) : Becomes(h, r)) /\ reply' = NoReply
    <3>1. PICK r \in fwrite_fails(x, sz, w) : Becomes(h, r)
      BY <2>2
    <3>2. /\ r.x \in Stream /\ r.x.name = x.name /\ r.sz \in 0..MaxSize
          /\ x.pos <= sz => r.x.pos <= r.sz
      BY <1>3, <1>4, FailFacts
    <3>3. reply' \in [len : 0..MaxTell \cup {NULL}, lost : BOOLEAN]
      BY <2>2 DEF NoReply
    <3> QED BY <3>1, <3>2, <3>3
  <2> QED BY <1>1, <2>1, <2>2
<1>8. reply' \in [len : 0..(Word - 1) \cup {NULL}, lost : BOOLEAN]
  BY <1>7
<1>9. Inside(h) => x.pos <= sz
  BY DEF Inside
<1> QED BY <1>1, <1>6, <1>7, <1>8, <1>9, HandleStep

(***************************************************************************)
(* The data mode.  The stream of a transfer is open, and recv_length is    *)
(* how far the accepted bytes reach behind the beginning of the transfer.  *)
(* A transfer of MFPUT writes a file of its own from the beginning.        *)
(***************************************************************************)
TransferInv ==
    /\ datamode # Put => stream[Put] = NULL
    /\ datamode # NULL => Open(datamode)
    /\ datamode = Put => /\ stream[Put].mode = "w+" /\ from = 0
                         /\ stream[Put].pos = size[stream[Put].name]
    /\ datamode = NULL /\ ~stale => recv_length = 0
    /\ datamode # NULL /\ ~stale => EndOfWritten(datamode) = from + recv_length
    /\ datamode # NULL /\ ~stale /\ data_length > 0 => recv_length <= data_length

ReportedStep ==
    datamode # NULL /\ datamode' = NULL /\ ~stale /\ reply'.len # NULL =>
        /\ datamode = Put /\ ~reply'.lost =>
              size'[stream[Put].name] = reply'.len
        /\ \A h \in Handles : datamode = h =>
              EndOfWritten(h)' = from + reply'.len

Good == TypeOK' /\ TransferInv' /\ PositionsStep /\ ReportedStep

LEMMA PlainGood ==
    ASSUME TypeOK, TransferInv, datamode = NULL, Plain
    PROVE  Good
<1>1. NULL # Put
  BY HandlesAssumption DEF Streams
<1>2. TransferInv'
  BY <1>1 DEF TransferInv, Plain, transferVars
<1> QED BY <1>2 DEF Plain, Good, ReportedStep

LEMMA BeginMfputStep ==
    ASSUME TypeOK, TransferInv, NEW n \in Names, NEW length \in Lengths,
           BeginMFPUT(n, length)
    PROVE  Good
<1>1. /\ datamode = NULL /\ stream[Put] = NULL /\ NULL # Put /\ Put \in Streams
      /\ size' = [size EXCEPT ![n] = 0]
      /\ stream' = [stream EXCEPT ![Put] = IF datamode' = Put THEN NewPut(n)
                                           ELSE NULL]
      /\ data_length' = length /\ reply' = NoReply
      /\ UNCHANGED <<inputfmt, recv_length, stale, crashed>>
      /\ \/ datamode' = Put /\ from' = WriteAt(NewPut(n), 0) + NewPut(n).pend
         \/ datamode' = NULL /\ from' = from
  BY HandlesAssumption DEF BeginMFPUT, Begin, AtMode, TransferInv, Streams
<1>2. /\ NewPut(n) \in Stream /\ NewPut(n).name = n /\ NewPut(n).pos = 0
      /\ NewPut(n).pend = 0 /\ NewPut(n).mode = "w+" /\ WriteAt(NewPut(n), 0) = 0
  BY NewPutFacts
<1>3. from' \in Nat /\ (datamode' = Put => from' = 0)
  BY <1>1, <1>2 DEF TypeOK
<1>4. /\ size' \in [Names -> 0..MaxSize] /\ size'[n] = 0
      /\ stream' \in [Streams -> Stream \cup {NULL, Closed}]
      /\ stream'[Put] = (IF datamode' = Put THEN NewPut(n) ELSE NULL)
      /\ \A t \in Streams \ {Put} : stream'[t] = stream[t]
  BY <1>1, <1>2 DEF TypeOK
<1>5. length \in 0..(Word - 1)
  BY LengthsAssumption
<1>6. TypeOK'
  BY <1>1, <1>3, <1>4, <1>5 DEF TypeOK, NoReply
<1>7. PositionsStep
  <2>1. ~Inside(Put)
    BY <1>1 DEF Inside, Open
  <2> QED BY <1>1, <1>4, <2>1, PositionsFrame
<1>8. TransferInv'
  <2>1. CASE datamode' = Put
    <3>1. stream'[Put] = NewPut(n) /\ from' = 0
      BY <2>1, <1>3, <1>4
    <3>2. Open(Put)'
      BY <3>1, <1>2, StreamOpen DEF Open
    <3>3. EndOfWritten(Put)' = 0
      BY <3>1, <1>2, <1>4 DEF EndOfWritten
    <3>4. ~stale => recv_length' = 0
      BY <1>1 DEF TransferInv
    <3>5. data_length' \in Nat
      BY <1>1, <1>5
    <3> QED BY <1>1, <1>2, <1>4, <2>1, <3>1, <3>2, <3>3, <3>4, <3>5 DEF TransferInv
  <2>2. CASE datamode' = NULL
    BY <1>1, <1>4, <2>2 DEF TransferInv
  <2> QED BY <1>1, <2>1, <2>2
<1> QED BY <1>1, <1>6, <1>7, <1>8 DEF Good, ReportedStep, NoReply

LEMMA BeginMfwriteStep ==
    ASSUME TypeOK, TransferInv, NEW h \in Handles, NEW length \in Lengths,
           BeginMFWRITE(h, length)
    PROVE  Good
<1> DEFINE x == stream[h]
           sz == size[x.name]
<1>1. /\ datamode = NULL /\ Open(h) /\ h # Put /\ h # NULL /\ h \in Streams
      /\ NULL # Put
      /\ data_length' = length /\ reply' = NoReply
      /\ UNCHANGED <<size, stream, inputfmt, recv_length, stale, crashed>>
      /\ \/ datamode' = h /\ from' = WriteAt(x, sz) + x.pend
         \/ datamode' = NULL /\ from' = from
  BY HandlesAssumption DEF BeginMFWRITE, Begin, AtMode, Streams
<1>2. x \in Stream /\ sz \in 0..MaxSize
  BY <1>1, OpenStream
<1>3. WriteAt(x, sz) + x.pend \in Nat
  BY <1>2, StreamFacts
<1>4. length \in 0..(Word - 1)
  BY LengthsAssumption
<1>5. TypeOK'
  BY <1>1, <1>3, <1>4 DEF TypeOK, NoReply
<1>6. PositionsStep
  BY <1>1, SizeFrame DEF TypeOK
<1>7. TransferInv'
  <2>1. CASE datamode' = h
    <3>1. Open(h)' /\ EndOfWritten(h)' = from'
      BY <1>1, <2>1 DEF EndOfWritten, Open
    <3>2. ~stale => recv_length' = 0
      BY <1>1 DEF TransferInv
    <3>3. data_length' \in Nat /\ from' \in Nat
      BY <1>1, <1>3, <1>4, <2>1
    <3> QED BY <1>1, <2>1, <3>1, <3>2, <3>3 DEF TransferInv
  <2>2. CASE datamode' = NULL
    BY <1>1, <2>2 DEF TransferInv
  <2> QED BY <1>1, <2>1, <2>2
<1> QED BY <1>1, <1>5, <1>6, <1>7 DEF Good, ReportedStep, NoReply

\* What the end of a transfer to stream s does, when r is what the last
\* operation on the stream yields.
LEMMA LeaveFacts ==
    ASSUME TypeOK, TransferInv, NEW s \in Streams, datamode = s,
           NEW r, r.x \in Stream, r.sz \in 0..MaxSize,
           r.x.name = stream[s].name, r.x.mode = stream[s].mode,
           stream[s].pos <= size[stream[s].name] => r.x.pos <= r.sz,
           NEW length \in 0..(Word - 1) \cup {NULL},
           Leave(s, r, length)
    PROVE  /\ datamode' = NULL /\ from' = 0 /\ data_length' = data_length
           /\ size' \in [Names -> 0..MaxSize]
           /\ stream' \in [Streams -> Stream \cup {NULL, Closed}]
           /\ stream'[Put] = NULL
           /\ reply' \in [len : {length}, lost : BOOLEAN]
           /\ PositionsStep
           /\ s # Put => EndOfWritten(s)' = WriteAt(r.x, r.sz) + r.x.pend
           /\ s = Put /\ ~reply'.lost /\ r.x.pos = r.sz =>
                 size'[stream[Put].name] = WriteAt(r.x, r.sz) + r.x.pend
<1>1. datamode' = NULL /\ from' = 0 /\ data_length' = data_length
  BY DEF Leave
<1>2. Put \in Streams
  BY DEF Streams
<1>3. CASE s # Put
  <2>1. Becomes(s, r) /\ reply' = [len |-> length, lost |-> FALSE]
    BY <1>3 DEF Leave, Reply
  <2>2. /\ size' \in [Names -> 0..MaxSize]
        /\ stream' \in [Streams -> Stream \cup {NULL, Closed}]
        /\ stream'[s] = r.x
        /\ \A t \in Streams \ {s} : stream'[t] = stream[t]
        /\ size'[r.x.name] = r.sz
    BY <2>1, BecomesFacts
  <2>3. stream'[Put] = NULL
    BY <1>2, <1>3, <2>2 DEF TransferInv
  <2>4. Inside(s) => Inside(s)'
    BY <2>2, StreamOpen DEF Inside, Open
  <2>5. PositionsStep
    BY <2>2, <2>4, PositionsFrame
  <2>6. EndOfWritten(s)' = WriteAt(r.x, r.sz) + r.x.pend
    BY <2>2 DEF EndOfWritten
  <2> QED BY <1>1, <1>3, <2>1, <2>2, <2>3, <2>5, <2>6
<1>4. CASE s = Put
  <2>1. stream' = [stream EXCEPT ![Put] = NULL]
    BY <1>4 DEF Leave
  <2>2. PICK c \in fflush(r.x, r.sz) :
            /\ size' = [size EXCEPT ![r.x.name] = c.sz]
            /\ Reply(length, c.out < r.x.pend)
    BY <1>4 DEF Leave
  <2>3. /\ c.sz \in 0..MaxSize /\ c.out \in 0..r.x.pend /\ c.x \in Stream
        /\ c.x.mode = r.x.mode
        /\ r.x.pos = r.sz /\ ~Append(r.x) => c.x.pos = c.sz
        /\ c.out = r.x.pend => WriteAt(c.x, c.sz) = WriteAt(r.x, r.sz) + r.x.pend
    BY FlushFacts
  <2>4. r.x.name \in Names /\ r.x.pend \in 0..BufSize
    BY StreamFacts
  <2>5. size' \in [Names -> 0..MaxSize] /\ size'[stream[Put].name] = c.sz
    BY <1>4, <2>2, <2>3, <2>4 DEF TypeOK
  <2>6. /\ stream' \in [Streams -> Stream \cup {NULL, Closed}]
        /\ stream'[Put] = NULL
        /\ \A t \in Streams \ {Put} : stream'[t] = stream[t]
    BY <1>2, <2>1 DEF TypeOK
  <2>7. reply' = [len |-> length, lost |-> c.out < r.x.pend]
    BY <2>2 DEF Reply
  <2>8. PositionsStep
    <3>1. ~Open(Put)'
      BY <2>6 DEF Open
    <3> QED BY <1>2, <2>5, <2>6, <3>1, PositionsFrame
  <2>9. ASSUME ~reply'.lost, r.x.pos = r.sz
        PROVE  c.sz = WriteAt(r.x, r.sz) + r.x.pend
    <3>1. c.out = r.x.pend
      <4>1. c.out < r.x.pend \/ c.out = r.x.pend
        BY ONLY <2>3, <2>4, BoundsAssumption
      <4>2. c.out < r.x.pend => reply'.lost
        BY ONLY <2>7, Zenon
      <4> QED BY ONLY <4>1, <4>2, <2>9
    <3>2. ~Append(r.x) /\ ~Append(c.x)
      BY <1>4, <2>3 DEF TransferInv, Append
    <3> QED BY <2>3, <2>9, <3>1, <3>2 DEF WriteAt
  <2>10. reply' \in [len : {length}, lost : BOOLEAN]
    BY <2>7
  <2> QED BY <1>1, <1>4, <2>5, <2>6, <2>8, <2>9, <2>10
<1> QED BY <1>3, <1>4

\* A transfer that ends with the report of what was received.
LEMMA ReportStep ==
    ASSUME TypeOK, TransferInv, NEW s \in Streams, datamode = s,
           NEW r, r.x \in Stream, r.sz \in 0..MaxSize,
           r.x.name = stream[s].name, r.x.mode = stream[s].mode,
           stream[s].pos <= size[stream[s].name] => r.x.pos <= r.sz,
           s = Put => r.x.pos = r.sz,
           NEW received \in 0..(Word - 1),
           ~stale => WriteAt(r.x, r.sz) + r.x.pend = from + received,
           Report(s, r, received), UNCHANGED <<inputfmt, crashed>>
    PROVE  Good
<1>1. /\ recv_length' = 0 /\ stale' = FALSE /\ Leave(s, r, received)
      /\ s # NULL /\ Put # NULL
  BY HandlesAssumption DEF Report, Streams
<1>2. /\ datamode' = NULL /\ from' = 0 /\ data_length' = data_length
      /\ size' \in [Names -> 0..MaxSize]
      /\ stream' \in [Streams -> Stream \cup {NULL, Closed}]
      /\ stream'[Put] = NULL
      /\ reply' \in [len : {received}, lost : BOOLEAN]
      /\ PositionsStep
      /\ s # Put => EndOfWritten(s)' = WriteAt(r.x, r.sz) + r.x.pend
      /\ s = Put /\ ~reply'.lost /\ r.x.pos = r.sz =>
            size'[stream[Put].name] = WriteAt(r.x, r.sz) + r.x.pend
  BY <1>1, LeaveFacts
<1>3. TypeOK'
  <2>1. reply' \in [len : 0..(Word - 1) \cup {NULL}, lost : BOOLEAN]
    BY <1>2
  <2>2. recv_length' \in 0..(Word - 1) /\ from' \in Nat
    BY <1>1, <1>2
  <2> QED BY <1>1, <1>2, <2>1, <2>2 DEF TypeOK
<1>4. TransferInv'
  BY <1>1, <1>2 DEF TransferInv
<1>5. ReportedStep
  <2> SUFFICES ASSUME ~stale
               PROVE  /\ datamode = Put /\ ~reply'.lost =>
                            size'[stream[Put].name] = reply'.len
                      /\ \A h \in Handles : datamode = h =>
                            EndOfWritten(h)' = from + reply'.len
    BY DEF ReportedStep
  <2>1. reply'.len = received
    BY <1>2
  <2>2. CASE s = Put
    <3>1. from = 0
      BY <2>2 DEF TransferInv
    <3> QED BY <1>2, <2>1, <2>2, <3>1, HandlesAssumption
  <2>3. CASE s # Put
    BY <1>2, <2>1, <2>3
  <2> QED BY <2>2, <2>3
<1> QED BY <1>2, <1>3, <1>4, <1>5 DEF Good

LEMMA TimeoutStep ==
    ASSUME TypeOK, TransferInv, NEW s \in Streams, Timeout(s)
    PROVE  Good
<1> DEFINE r == Current(s)
<1>1. /\ datamode = s /\ Report(s, r, recv_length) /\ UNCHANGED <<inputfmt, crashed>>
      /\ r.x = stream[s] /\ r.sz = size[stream[s].name] /\ s # NULL
  BY HandlesAssumption DEF Timeout, Current, Streams
<1> HIDE DEF r
<1>2. Open(s)
  BY <1>1 DEF TransferInv
<1>3. r.x \in Stream /\ r.sz \in 0..MaxSize
  BY <1>1, <1>2, OpenStream
<1>4. recv_length \in 0..(Word - 1)
  BY DEF TypeOK
<1>5. ~stale => WriteAt(r.x, r.sz) + r.x.pend = from + recv_length
  BY <1>1 DEF TransferInv, EndOfWritten
<1>6. s = Put => r.x.pos = r.sz
  BY <1>1 DEF TransferInv
<1> QED BY <1>1, <1>3, <1>4, <1>5, <1>6, ReportStep

\* The part of a block that a transfer takes is a number of bytes, and without
\* a stale counter it is within the block and the announced length.
LEMMA PartFacts ==
    ASSUME TypeOK, TransferInv, NEW s \in Streams, datamode = s,
           NEW m \in 1..MaxBlock, NEW p \in Part(m)
    PROVE  /\ p.len \in 0..(Word - 1)
           /\ ~stale => /\ recv_length + p.len < Word
                        /\ data_length > 0 => recv_length + p.len <= data_length
<1>1. s # NULL /\ Open(s)
  BY HandlesAssumption DEF TransferInv, Streams
<1>2. /\ data_length \in 0..(Word - 1) /\ recv_length \in 0..(Word - 1)
      /\ m \in 0..(Word - 1) /\ from \in Nat
  BY DEF TypeOK
<1>3. ~stale => recv_length <= MaxTell
  <2>1. stream[s] \in Stream /\ size[stream[s].name] \in 0..MaxSize
    BY <1>1, OpenStream
  <2>2. EndOfWritten(s) \in 0..MaxTell
    BY <2>1, StreamFacts DEF EndOfWritten
  <2>3. ~stale => EndOfWritten(s) = from + recv_length
    BY <1>1 DEF TransferInv
  <2> QED BY <1>2, <2>2, <2>3
<1>4. CASE data_length > 0
  <2>1. p.len = IF Plus(recv_length, m) > data_length
                THEN Minus(data_length, recv_length) ELSE m
    BY <1>4 DEF Part
  <2>2. p.len \in 0..(Word - 1)
    BY <1>2, <2>1, UintFacts
  <2>3. ASSUME ~stale PROVE recv_length + p.len <= data_length
    <3>1. recv_length <= data_length
      BY <1>1, <1>4, <2>3 DEF TransferInv
    <3>2. Plus(recv_length, m) = recv_length + m
      BY <1>2, <1>3, <2>3, UintFacts
    <3>3. Minus(data_length, recv_length) = data_length - recv_length
      BY <1>2, <3>1, UintFacts
    <3> QED BY <1>2, <2>1, <3>1, <3>2, <3>3
  <2> QED BY <1>2, <2>2, <2>3
<1>5. CASE ~(data_length > 0)
  <2>1. p.len \in 0..m
    BY <1>2, <1>5 DEF Part
  <2> QED BY <1>2, <1>3, <1>5, <2>1
<1> QED BY <1>4, <1>5

\* Bytes accepted in the data mode.
LEMMA ReceivedStep ==
    ASSUME TypeOK, TransferInv, NEW s \in Streams, datamode = s,
           NEW m \in 1..MaxBlock, NEW p \in Part(m),
           NEW r, r.x \in Stream, r.sz \in 0..MaxSize,
           r.x.name = stream[s].name, r.x.mode = stream[s].mode,
           stream[s].pos <= size[stream[s].name] => r.x.pos <= r.sz,
           s = Put => r.x.pos = r.sz,
           WriteAt(r.x, r.sz) + r.x.pend = EndOfWritten(s) + p.len,
           Received(s, r, p, m), UNCHANGED <<inputfmt, crashed>>
    PROVE  Good
<1> DEFINE received == Plus(recv_length, p.len)
<1>1. /\ p.len \in 0..(Word - 1)
      /\ ~stale => /\ recv_length + p.len < Word
                   /\ data_length > 0 => recv_length + p.len <= data_length
  BY PartFacts
<1>2. recv_length \in 0..(Word - 1) /\ from \in Nat /\ data_length \in 0..(Word - 1)
  BY DEF TypeOK
<1>3. received \in 0..(Word - 1) /\ (~stale => received = recv_length + p.len)
  BY <1>1, <1>2, UintFacts
<1>4. s # NULL /\ Put # NULL /\ (Put \in Streams)
  BY HandlesAssumption DEF Streams
<1>5. ~stale => WriteAt(r.x, r.sz) + r.x.pend = from + received
  <2>1. ~stale => EndOfWritten(s) = from + recv_length
    BY <1>4 DEF TransferInv
  <2> HIDE DEF received
  <2> QED BY <1>1, <1>2, <1>3, <2>1
<1>6. \/ Report(s, r, received)
      \/ /\ Becomes(s, r)
         /\ recv_length' = received
         /\ reply' = NoReply
         /\ UNCHANGED <<datamode, data_length, from, stale>>
  BY DEF Received
<1> HIDE DEF received
<1>7. CASE Report(s, r, received)
  BY <1>3, <1>5, <1>7, ReportStep
<1>8. CASE /\ Becomes(s, r)
           /\ recv_length' = received
           /\ reply' = NoReply
           /\ UNCHANGED <<datamode, data_length, from, stale>>
  <2>1. /\ size' \in [Names -> 0..MaxSize]
        /\ stream' \in [Streams -> Stream \cup {NULL, Closed}]
        /\ stream'[s] = r.x
        /\ \A t \in Streams \ {s} : stream'[t] = stream[t]
        /\ size'[r.x.name] = r.sz
    BY <1>8, BecomesFacts
  <2>2. TypeOK'
    BY <1>3, <1>8, <2>1 DEF TypeOK, NoReply
  <2>3. Open(s)' /\ (Inside(s) => Inside(s)')
    BY <2>1, StreamOpen DEF Inside, Open
  <2>4. PositionsStep
    BY <2>1, <2>3, PositionsFrame
  <2>5. EndOfWritten(s)' = WriteAt(r.x, r.sz) + r.x.pend
    BY <2>1 DEF EndOfWritten
  <2>6. datamode' # Put => stream'[Put] = NULL
    BY <1>4, <1>8, <2>1 DEF TransferInv
  <2>7. datamode' = Put => /\ stream'[Put].mode = "w+" /\ from' = 0
                           /\ stream'[Put].pos = size'[stream'[Put].name]
    BY <1>8, <2>1 DEF TransferInv
  <2>8. ~stale' => /\ EndOfWritten(s)' = from' + recv_length'
                   /\ data_length' > 0 => recv_length' <= data_length'
    BY <1>1, <1>3, <1>5, <1>8, <2>5
  <2>9. TransferInv'
    BY <1>4, <1>8, <2>3, <2>6, <2>7, <2>8 DEF TransferInv
  <2> QED BY <1>4, <1>8, <2>2, <2>4, <2>9 DEF Good, ReportedStep, NoReply
<1> QED BY <1>6, <1>7, <1>8

LEMMA WriteFailsStep ==
    ASSUME TypeOK, TransferInv, NEW s \in Streams, datamode = s,
           NEW r, r.x \in Stream, r.sz \in 0..MaxSize,
           r.x.name = stream[s].name, r.x.mode = stream[s].mode,
           stream[s].pos <= size[stream[s].name] => r.x.pos <= r.sz,
           WriteFails(s, r), UNCHANGED <<inputfmt, crashed>>
    PROVE  Good
<1>1. /\ recv_length' = recv_length /\ stale' = (recv_length # 0)
      /\ Leave(s, r, NULL) /\ s # NULL /\ Put # NULL
      /\ NULL \in 0..(Word - 1) \cup {NULL}
  BY HandlesAssumption DEF WriteFails, Streams
<1>2. /\ datamode' = NULL /\ from' = 0 /\ data_length' = data_length
      /\ size' \in [Names -> 0..MaxSize]
      /\ stream' \in [Streams -> Stream \cup {NULL, Closed}]
      /\ stream'[Put] = NULL
      /\ reply' \in [len : {NULL}, lost : BOOLEAN]
      /\ PositionsStep
  BY <1>1, LeaveFacts
<1>3. TypeOK'
  <2>1. reply' \in [len : 0..(Word - 1) \cup {NULL}, lost : BOOLEAN]
    BY <1>2
  <2>2. from' \in Nat /\ stale' \in BOOLEAN
    BY <1>1, <1>2
  <2> QED BY <1>1, <1>2, <2>1, <2>2 DEF TypeOK
<1>4. TransferInv'
  BY <1>1, <1>2 DEF TransferInv
<1>5. ReportedStep
  BY <1>2 DEF ReportedStep
<1> QED BY <1>2, <1>3, <1>4, <1>5 DEF Good

LEMMA BlockStep ==
    ASSUME TypeOK, TransferInv, NEW s \in Streams, NEW m \in 1..MaxBlock, Block(s, m)
    PROVE  Good
<1> DEFINE c == Current(s)
<1>1. /\ datamode = s /\ s # NULL /\ UNCHANGED inputfmt
      /\ c.x = stream[s] /\ c.sz = size[stream[s].name]
  BY HandlesAssumption DEF Block, Current, Streams
<1>2. Open(s)
  BY <1>1 DEF TransferInv
<1>3. c.x \in Stream /\ c.sz \in 0..MaxSize
  BY <1>1, <1>2, OpenStream
<1>4. s = Put => c.x.pos = c.sz /\ ~Append(c.x)
  BY <1>1 DEF TransferInv, Append
<1>5. EndOfWritten(s) = WriteAt(c.x, c.sz) + c.x.pend /\ EndOfWritten(s) \in Nat
  BY <1>1, <1>3, StreamFacts DEF EndOfWritten
<1>6. PICK p \in Part(m) :
        \/ /\ crashed' = TRUE
           /\ UNCHANGED <<size, stream, transferVars, reply>>
        \/ /\ p.len = 0
           /\ Received(s, c, p, m)
           /\ UNCHANGED crashed
        \/ /\ \E r \in fwrite(c.x, c.sz, p.len) : Received(s, r, p, m)
           /\ UNCHANGED crashed
        \/ /\ \E r \in fwrite_fails(c.x, c.sz, p.len) : WriteFails(s, r)
           /\ UNCHANGED crashed
  BY DEF Block
<1> HIDE DEF c
<1>7. p.len \in Nat
  BY <1>1, PartFacts
<1>8. CASE /\ crashed' = TRUE
           /\ UNCHANGED <<size, stream, transferVars, reply>>
  <2>1. TypeOK'
    BY <1>1, <1>8 DEF TypeOK, transferVars
  <2>2. TransferInv'
    BY <1>8 DEF TransferInv, transferVars, Open, EndOfWritten
  <2>3. PositionsStep
    BY <1>8, SizeFrame DEF TypeOK
  <2> QED BY <1>1, <1>8, <2>1, <2>2, <2>3
          DEF Good, ReportedStep, transferVars
<1>9. CASE p.len = 0 /\ Received(s, c, p, m) /\ UNCHANGED crashed
  <2>1. WriteAt(c.x, c.sz) + c.x.pend = EndOfWritten(s) + p.len
    BY <1>5, <1>9
  <2> QED BY <1>1, <1>3, <1>4, <1>9, <2>1, ReceivedStep
<1>10. CASE (\E r \in fwrite(c.x, c.sz, p.len) : Received(s, r, p, m))
            /\ UNCHANGED crashed
  <2>1. PICK r \in fwrite(c.x, c.sz, p.len) : Received(s, r, p, m)
    BY <1>10
  <2>2. /\ r.x \in Stream /\ r.x.name = c.x.name /\ r.x.mode = c.x.mode
        /\ r.sz \in 0..MaxSize
        /\ WriteAt(r.x, r.sz) + r.x.pend = WriteAt(c.x, c.sz) + c.x.pend + p.len
        /\ c.x.pos <= c.sz => r.x.pos <= r.sz
        /\ c.x.pos = c.sz /\ ~Append(c.x) => r.x.pos = r.sz
    BY <1>3, <1>7, WriteFacts
  <2>3. WriteAt(r.x, r.sz) + r.x.pend = EndOfWritten(s) + p.len
    BY <1>5, <2>2
  <2> QED BY <1>1, <1>4, <1>10, <2>1, <2>2, <2>3, ReceivedStep
<1>11. CASE (\E r \in fwrite_fails(c.x, c.sz, p.len) : WriteFails(s, r))
            /\ UNCHANGED crashed
  <2>1. PICK r \in fwrite_fails(c.x, c.sz, p.len) : WriteFails(s, r)
    BY <1>11
  <2>2. /\ r.x \in Stream /\ r.x.name = c.x.name /\ r.x.mode = c.x.mode
        /\ r.sz \in 0..MaxSize
        /\ c.x.pos <= c.sz => r.x.pos <= r.sz
    BY <1>3, <1>7, FailFacts
  <2> QED BY <1>1, <1>11, <2>1, <2>2, WriteFailsStep
<1> QED BY <1>6, <1>8, <1>9, <1>10, <1>11

LEMMA CancelStep ==
    ASSUME TypeOK, TransferInv, NEW s \in Streams, Cancel(s)
    PROVE  Good
<1> DEFINE x == stream[s]
           sz == size[x.name]
<1>1. /\ datamode = s /\ s # NULL /\ Put # NULL /\ Put \in Streams
      /\ datamode' = NULL /\ recv_length' = 0 /\ from' = 0 /\ stale' = FALSE
      /\ UNCHANGED <<inputfmt, data_length, crashed>>
  BY HandlesAssumption DEF Cancel, Streams
<1>2. Open(s)
  BY <1>1 DEF TransferInv
<1>3. x \in Stream /\ x.name \in Names /\ sz \in 0..MaxSize
  BY <1>2, OpenStream
<1>4. /\ size' \in [Names -> 0..MaxSize]
      /\ stream' \in [Streams -> Stream \cup {NULL, Closed}]
      /\ stream'[Put] = NULL
      /\ reply' \in [len : {NULL}, lost : BOOLEAN]
      /\ PositionsStep
  <2>1. CASE s = Put
    <3>1. /\ stream' = [stream EXCEPT ![Put] = NULL]
          /\ size' = [size EXCEPT ![x.name] = 0]
          /\ reply' = NoReply
      BY <2>1 DEF Cancel
    <3>2. /\ size' \in [Names -> 0..MaxSize]
          /\ stream' \in [Streams -> Stream \cup {NULL, Closed}]
          /\ stream'[Put] = NULL
          /\ \A t \in Streams \ {Put} : stream'[t] = stream[t]
      BY <1>1, <1>3, <3>1 DEF TypeOK
    <3>3. PositionsStep
      <4>1. ~Open(Put)'
        BY <3>2 DEF Open
      <4> QED BY <1>1, <3>2, <4>1, PositionsFrame
    <3> QED BY <3>1, <3>2, <3>3 DEF NoReply
  <2>2. CASE s # Put
    <3>1. s \in Handles
      BY <2>2 DEF Streams
    <3> DEFINE l == Minus(ftell(x, sz), recv_length)
    <3>2. l \in 0..(Word - 1)
      <4>1. ftell(x, sz) \in 0..MaxTell
        BY <1>3, StreamFacts
      <4>2. ftell(x, sz) \in 0..(Word - 1) /\ recv_length \in 0..(Word - 1)
        BY <4>1 DEF TypeOK
      <4> QED BY <4>2, UintFacts
    <3>3. Truncate(s, l)
      BY <2>2 DEF Cancel
    <3> HIDE DEF l
    <3>4. PICK r : /\ r.x \in Stream /\ r.sz \in 0..MaxSize /\ Becomes(s, r)
                   /\ r.x.name = stream[s].name
                   /\ reply' \in [len : {NULL}, lost : BOOLEAN]
                   /\ Inside(s) /\ ~reply'.lost => r.x.pos <= r.sz
      BY <1>2, <3>1, <3>2, <3>3, TruncateFacts
    <3>5. /\ size' \in [Names -> 0..MaxSize]
          /\ stream' \in [Streams -> Stream \cup {NULL, Closed}]
          /\ stream'[s] = r.x
          /\ \A t \in Streams \ {s} : stream'[t] = stream[t]
          /\ size'[r.x.name] = r.sz
      BY <3>4, BecomesFacts
    <3>6. stream'[Put] = NULL
      BY <1>1, <2>2, <3>5 DEF TransferInv
    <3>7. Inside(s) /\ ~reply'.lost => Inside(s)'
      BY <3>4, <3>5, StreamOpen DEF Inside, Open
    <3>8. PositionsStep
      BY <3>5, <3>7, PositionsFrame
    <3> QED BY <3>4, <3>5, <3>6, <3>8
  <2> QED BY <2>1, <2>2
<1>5. TypeOK'
  <2>1. reply' \in [len : 0..(Word - 1) \cup {NULL}, lost : BOOLEAN]
    BY <1>4
  <2>2. recv_length' \in 0..(Word - 1) /\ from' \in Nat
    BY <1>1
  <2> QED BY <1>1, <1>4, <2>1, <2>2 DEF TypeOK
<1>6. TransferInv'
  BY <1>1, <1>4 DEF TransferInv
<1> QED BY <1>4, <1>5, <1>6 DEF Good, ReportedStep

(***************************************************************************)
(* Theorems.                                                               *)
(***************************************************************************)
LEMMA InitFacts == Init => TypeOK /\ TransferInv
<1> SUFFICES ASSUME Init PROVE TypeOK /\ TransferInv
  OBVIOUS
<1>1. Put \in Streams /\ Put # NULL
  BY HandlesAssumption DEF Streams
<1>2. TypeOK
  <2>1. stream \in [Streams -> Stream \cup {NULL, Closed}]
    BY DEF Init
  <2>2. reply \in [len : 0..(Word - 1) \cup {NULL}, lost : BOOLEAN]
    BY DEF Init, NoReply
  <2>3. data_length \in 0..(Word - 1) /\ recv_length \in 0..(Word - 1) /\ from \in Nat
    BY DEF Init
  <2> QED BY <2>1, <2>2, <2>3 DEF Init, TypeOK, Formats
<1>3. TransferInv
  BY <1>1 DEF Init, TransferInv
<1> QED BY <1>2, <1>3

LEMMA NextStep == TypeOK /\ TransferInv /\ Next => Good
<1> SUFFICES ASSUME TypeOK, TransferInv, Next PROVE Good
  OBVIOUS
<1>1. CASE Refuse
  BY <1>1, RefuseStep, PlainGood DEF Refuse, AtMode
<1>2. ASSUME NEW fmt \in Formats, MFCFG(fmt) PROVE Good
  BY <1>2, MfcfgStep, PlainGood DEF MFCFG, AtMode
<1>3. ASSUME NEW h \in Handles, NEW n \in Names, NEW m \in Modes, MFOPEN(h, n, m)
      PROVE  Good
  BY <1>3, MfopenStep, PlainGood DEF MFOPEN, AtMode
<1>4. ASSUME NEW h \in Handles, MFCLOSE(h) PROVE Good
  BY <1>4, MfcloseStep, PlainGood DEF MFCLOSE, AtMode
<1>5. ASSUME NEW h \in Handles, NEW want \in Lengths \cup {NULL}, MFREAD(h, want)
      PROVE  Good
  BY <1>5, MfreadStep, PlainGood DEF MFREAD, AtMode
<1>6. ASSUME NEW h \in Handles, NEW o \in Offsets, NEW dir \in 0..2,
             MFSEEK(h, o, dir)
      PROVE  Good
  BY <1>6, MfseekStep, PlainGood DEF MFSEEK, AtMode
<1>7. ASSUME NEW h \in Handles, NEW l \in Lengths, MFTRUNC(h, l) PROVE Good
  BY <1>7, MftruncStep, PlainGood DEF MFTRUNC, AtMode
<1>8. ASSUME NEW n \in Names, NEW a \in Lengths, NEW d \in 0..MaxBlock, MFPUT(n, a, d)
      PROVE  Good
  BY <1>8, MfputStep, PlainGood DEF MFPUT, AtMode
<1>9. ASSUME NEW h \in Handles, NEW a \in Lengths, NEW d \in 0..MaxBlock,
             MFWRITE(h, a, d)
      PROVE  Good
  BY <1>9, MfwriteStep, PlainGood DEF MFWRITE, AtMode
<1>10. ASSUME NEW n \in Names, NEW l \in Lengths, BeginMFPUT(n, l) PROVE Good
  BY <1>10, BeginMfputStep
<1>11. ASSUME NEW h \in Handles, NEW l \in Lengths, BeginMFWRITE(h, l) PROVE Good
  BY <1>11, BeginMfwriteStep
<1>12. ASSUME NEW s \in Streams, NEW m \in 1..MaxBlock, Block(s, m) PROVE Good
  BY <1>12, BlockStep
<1>13. ASSUME NEW s \in Streams, Timeout(s) PROVE Good
  BY <1>13, TimeoutStep
<1>14. ASSUME NEW s \in Streams, Cancel(s) PROVE Good
  BY <1>14, CancelStep
<1> QED BY <1>1, <1>2, <1>3, <1>4, <1>5, <1>6, <1>7, <1>8, <1>9, <1>10, <1>11,
           <1>12, <1>13, <1>14 DEF Next, Command, Data, Quiet

LEMMA IdleStep == TypeOK /\ TransferInv /\ UNCHANGED vars => TypeOK' /\ TransferInv'
<1> SUFFICES ASSUME TypeOK, TransferInv, UNCHANGED vars PROVE TypeOK' /\ TransferInv'
  OBVIOUS
<1> QED BY DEF vars, transferVars, TypeOK, TransferInv, Open, EndOfWritten

\* The inductive invariant: types and the accounting of the transfer.
LEMMA TransferInvariant == Spec => [](TypeOK /\ TransferInv)
<1>1. TypeOK /\ TransferInv /\ [Next]_vars => TypeOK' /\ TransferInv'
  BY NextStep, IdleStep DEF Good
<1> QED BY <1>1, InitFacts, PTL DEF Spec

\* Files, positions and the unsigned counters of the data mode stay in range,
\* for every set of files and handles, buffer and block size.
THEOREM FileDataTyped == Spec => []TypeOK
BY TransferInvariant, PTL

\* A transfer with an announced length stores no byte beyond it, however the
\* bytes arrive in blocks.
THEOREM NeverBeyondAnnounced == Spec => []WithinAnnounced
<1>1. TypeOK /\ TransferInv => WithinAnnounced
  <2> SUFFICES ASSUME TypeOK, TransferInv, datamode # NULL, data_length > 0, ~stale
               PROVE  EndOfWritten(datamode) - from <= data_length
    BY DEF WithinAnnounced
  <2>1. /\ EndOfWritten(datamode) = from + recv_length /\ recv_length <= data_length
    BY DEF TransferInv
  <2>2. from \in Nat /\ recv_length \in Nat /\ data_length \in Nat
    BY DEF TypeOK
  <2> QED BY <2>1, <2>2
<1> QED BY <1>1, TransferInvariant, PTL

\* The length reported at the end of a transfer is the number of bytes stored
\* since it began.
THEOREM ReportIsTrue == Spec => ReportedIsStored
<1>1. TypeOK /\ TransferInv /\ [Next]_vars => [ReportedStep]_vars
  BY NextStep DEF Good
<1>2. Spec => [][ReportedStep]_vars
  BY <1>1, TransferInvariant, PTL DEF Spec
<1> QED BY <1>2 DEF ReportedIsStored, ReportedStep

\* No seek, read or write moves a position behind the end of its file.
THEOREM PositionsAreKept == Spec => PositionsStayInside
<1>1. TypeOK /\ TransferInv /\ [Next]_vars => [PositionsStep]_vars
  BY NextStep DEF Good
<1>2. Spec => [][PositionsStep]_vars
  BY <1>1, TransferInvariant, PTL DEF Spec
<1> QED BY <1>2 DEF PositionsStayInside, PositionsStep

AnsweredStep ==
    \A h \in Handles, want \in Lengths \cup {NULL} :
        reply'.len # NULL /\ ~reply'.lost /\ Inside(h) /\ MFREAD(h, want) =>
            stream'[h].pos = ftell(stream[h], size[stream[h].name]) + reply'.len

LEMMA MfreadAnswers == ASSUME TypeOK PROVE AnsweredStep
<1> SUFFICES ASSUME NEW h \in Handles, NEW want \in Lengths \cup {NULL},
                    reply'.len # NULL, ~reply'.lost, Inside(h), MFREAD(h, want)
             PROVE  stream'[h].pos =
                       ftell(stream[h], size[stream[h].name]) + reply'.len
  BY DEF AnsweredStep
<1> DEFINE x == stream[h]
           sz == size[x.name]
<1>1. x \in Stream /\ sz \in 0..MaxSize
  BY MfreadFacts
<1>2. PICK r \in fflush(x, sz), pos \in 0..MaxTell, len \in 0..(Word - 1) \cup {NULL} :
         /\ Becomes(h, SeekTo(r, pos))
         /\ Reply(len, r.out < x.pend)
         /\ x.pos <= sz /\ ~(r.out < x.pend) /\ len # NULL =>
               pos = ftell(x, sz) + len
  BY MfreadFacts
<1>3. /\ SeekTo(r, pos).x \in Stream /\ SeekTo(r, pos).x.pos = pos
      /\ SeekTo(r, pos).sz \in 0..MaxSize
  BY <1>1, <1>2, SeekFacts, FlushFacts
<1>4. stream'[h] = SeekTo(r, pos).x
  BY <1>2, <1>3, BecomesFacts DEF Streams
<1>5. reply'.len = len /\ (reply'.lost <=> r.out < x.pend)
  BY <1>2 DEF Reply
<1>6. x.pos <= sz
  BY DEF Inside
<1> QED BY <1>2, <1>3, <1>4, <1>5, <1>6

\* The length that MFREAD answers with every fragment is the number of bytes
\* it reads, from inside the file and when its flush dropped nothing
\* (AnsweredIsRead), whatever the sizes of file, buffer and fragment.
THEOREM AnswerIsTrue == Spec => AnsweredIsRead
<1>1. TypeOK /\ [Next]_vars => [AnsweredStep]_vars
  BY MfreadAnswers
<1>2. Spec => [][AnsweredStep]_vars
  BY <1>1, TransferInvariant, PTL DEF Spec
<1> QED BY <1>2 DEF AnsweredIsRead, AnsweredStep

(***************************************************************************)
(* One block.                                                              *)
(***************************************************************************)

\* The part of a block that belongs to the transfer is longer than the block
\* only with a stale counter, and shorter only where the transfer ends.
LEMMA PartOfBlock ==
    ASSUME TypeOK, TransferInv, NEW s \in Streams, datamode = s,
           NEW m \in 1..MaxBlock, NEW p \in Part(m)
    PROVE  /\ ~stale => p.len <= m
           /\ ~p.quit /\ Plus(recv_length, p.len) # data_length => p.len = m
<1>1. /\ data_length \in 0..(Word - 1) /\ recv_length \in 0..(Word - 1)
      /\ m \in 0..(Word - 1) /\ s # NULL
  BY HandlesAssumption DEF TypeOK, Streams
<1>2. CASE data_length > 0
  <2>1. p.len = IF Plus(recv_length, m) > data_length
                THEN Minus(data_length, recv_length) ELSE m
    BY <1>2 DEF Part
  <2>2. Plus(recv_length, Minus(data_length, recv_length)) = data_length
    BY <1>1 DEF Plus, Minus
  <2>3. ASSUME ~stale, p.len # m PROVE p.len <= m
    <3>1. recv_length <= data_length
      BY <1>1, <1>2, <2>3 DEF TransferInv
    <3>2. Minus(data_length, recv_length) = data_length - recv_length
      BY <1>1, <3>1 DEF Minus
    <3>3. Plus(recv_length, m) \in 0..(recv_length + m)
      BY <1>1 DEF Plus
    <3>4. Plus(recv_length, m) > data_length /\ p.len = data_length - recv_length
      BY <2>1, <2>3, <3>2
    <3> QED BY <1>1, <3>3, <3>4
  <2> QED BY <1>1, <2>1, <2>2, <2>3
<1>3. CASE ~(data_length > 0)
  <2>1. p \in {[len |-> m, quit |-> FALSE]} \cup
              {[len |-> l, quit |-> TRUE] : l \in 0..(m - 1)}
    BY <1>3 DEF Part
  <2>2. p.len \in 0..m /\ (~p.quit => p.len = m)
    BY <1>1, <2>1
  <2> QED BY <1>1, <2>2
<1> QED BY <1>2, <1>3

WholeBlockStep ==
    \A s \in Streams, m \in 1..MaxBlock :
        Block(s, m) /\ datamode' = s /\ ~crashed' =>
            EndOfWritten(s)' = EndOfWritten(s) + m

\* A transfer that goes on after a block has stored all of it.
LEMMA BlockStored ==
    ASSUME TypeOK, TransferInv
    PROVE  WholeBlockStep
<1> SUFFICES ASSUME NEW s \in Streams, NEW m \in 1..MaxBlock, Block(s, m),
                    datamode' = s, ~crashed'
             PROVE  EndOfWritten(s)' = EndOfWritten(s) + m
  BY DEF WholeBlockStep
<1> DEFINE c == Current(s)
<1>1. /\ datamode = s /\ s # NULL
      /\ c.x = stream[s] /\ c.sz = size[stream[s].name]
  BY HandlesAssumption DEF Block, Current, Streams
<1>2. Open(s)
  BY <1>1 DEF TransferInv
<1>3. c.x \in Stream /\ c.sz \in 0..MaxSize
  BY <1>1, <1>2, OpenStream
<1>4. /\ EndOfWritten(s) = WriteAt(c.x, c.sz) + c.x.pend
      /\ EndOfWritten(s) \in Nat
  BY <1>1, <1>3, StreamFacts DEF EndOfWritten
<1>5. PICK p \in Part(m) :
        \/ p.len = 0 /\ Received(s, c, p, m)
        \/ \E r \in fwrite(c.x, c.sz, p.len) : Received(s, r, p, m)
        \/ \E r \in fwrite_fails(c.x, c.sz, p.len) : WriteFails(s, r)
  BY DEF Block
<1> HIDE DEF c
<1>6. p.len \in Nat
  BY <1>1, PartFacts
<1>7. ASSUME NEW r, r.x \in Stream, r.sz \in 0..MaxSize,
             r.x.name = stream[s].name,
             WriteAt(r.x, r.sz) + r.x.pend = EndOfWritten(s) + p.len,
             Received(s, r, p, m)
      PROVE  EndOfWritten(s)' = EndOfWritten(s) + m
  <2>1. ~Report(s, r, Plus(recv_length, p.len))
    BY <1>1 DEF Report, Leave
  <2>2. /\ ~p.quit /\ Plus(recv_length, p.len) # data_length
        /\ Becomes(s, r)
    BY <1>7, <2>1 DEF Received
  <2>3. p.len = m
    BY <1>1, <2>2, PartOfBlock
  <2>4. stream'[s] = r.x /\ size'[r.x.name] = r.sz
    BY <1>7, <2>2, BecomesFacts
  <2> QED BY <1>7, <2>3, <2>4 DEF EndOfWritten
<1>8. CASE p.len = 0 /\ Received(s, c, p, m)
  <2>1. WriteAt(c.x, c.sz) + c.x.pend = EndOfWritten(s) + p.len
    BY <1>4, <1>8
  <2> QED BY <1>1, <1>3, <1>7, <1>8, <2>1
<1>9. ASSUME NEW r \in fwrite(c.x, c.sz, p.len), Received(s, r, p, m)
      PROVE  EndOfWritten(s)' = EndOfWritten(s) + m
  <2>1. /\ r.x \in Stream /\ r.x.name = c.x.name /\ r.sz \in 0..MaxSize
        /\ WriteAt(r.x, r.sz) + r.x.pend = WriteAt(c.x, c.sz) + c.x.pend + p.len
    BY <1>3, <1>6, WriteFacts
  <2> QED BY <1>1, <1>4, <1>7, <1>9, <2>1
<1>10. ASSUME NEW r, WriteFails(s, r) PROVE FALSE
  BY <1>1, <1>10 DEF WriteFails, Leave
<1> QED BY <1>5, <1>8, <1>9, <1>10

\* A block after which the transfer goes on was stored completely
\* (WholeBlockStored), a counter left behind or not.
THEOREM BlocksAreWhole == Spec => WholeBlockStored
<1>1. TypeOK /\ TransferInv /\ [Next]_vars => [WholeBlockStep]_vars
  BY BlockStored
<1>2. Spec => [][WholeBlockStep]_vars
  BY <1>1, TransferInvariant, PTL DEF Spec
<1> QED BY <1>2 DEF WholeBlockStored, WholeBlockStep

\* A size of MFWRITE that is more than the data has comes from the HEX format.
LEMMA OverreadNeedsHex ==
    ASSUME NEW a \in Lengths, NEW d \in 0..MaxBlock,
           MfwriteSize(a, d) # NULL, MfwriteSize(a, d) > d
    PROVE  inputfmt = "HEX"
<1> SUFFICES ASSUME inputfmt # "HEX" PROVE FALSE
  OBVIOUS
<1>1. MfwriteSize(a, d) = WriteSize(a, d)
  BY DEF MfwriteSize
<1>2. WriteSize(a, d) \in {0, d, NULL}
  BY DEF WriteSize
<1> QED BY <1>1, <1>2

\* The callback reads behind its block only after a failed write has left the
\* counter of the transfer behind, a command behind its data only in the HEX
\* format (OverreadHasCause).
THEOREM OverreadIsExplained == Spec => []OverreadHasCause
<1>1. Init => OverreadHasCause
  BY DEF Init, OverreadHasCause
<1>2. TypeOK /\ TransferInv /\ OverreadHasCause /\ [Next]_vars => OverreadHasCause'
  <2> SUFFICES ASSUME TypeOK, TransferInv, OverreadHasCause, [Next]_vars,
                      crashed'
               PROVE  IF datamode' # NULL THEN stale' ELSE inputfmt' = "HEX"
    BY DEF OverreadHasCause
  <2>1. CASE UNCHANGED vars
    BY <2>1 DEF vars, transferVars, OverreadHasCause
  <2>2. ASSUME NEW s \in Streams, NEW m \in 1..MaxBlock, Block(s, m)
        PROVE  datamode' # NULL /\ stale'
    <3>1. ~crashed /\ datamode = s /\ s # NULL
      BY <2>2, HandlesAssumption DEF Block
    <3>2. PICK p \in Part(m) : p.len > m /\ UNCHANGED transferVars
      BY <2>2, <3>1 DEF Block
    <3>3. p.len \in Nat /\ (~stale => p.len <= m)
      BY <3>1, PartFacts, PartOfBlock
    <3> QED BY <3>1, <3>2, <3>3 DEF transferVars
  <2>3. ASSUME NEW h \in Handles, NEW a \in Lengths, NEW d \in 0..MaxBlock,
               MFWRITE(h, a, d)
        PROVE  datamode' = NULL /\ inputfmt' = "HEX"
    <3>1. /\ ~crashed /\ datamode = NULL /\ UNCHANGED <<inputfmt, transferVars>>
          /\ MfwriteSize(a, d) # NULL
      BY <2>3 DEF MFWRITE, AtMode
    <3>2. MfwriteSize(a, d) > d
      BY <2>3, <3>1 DEF MFWRITE
    <3> QED BY <3>1, <3>2, OverreadNeedsHex DEF transferVars
  <2>4. Command =>
           \/ ~crashed /\ UNCHANGED crashed
           \/ \E h \in Handles, a \in Lengths, d \in 0..MaxBlock : MFWRITE(h, a, d)
    BY DEF Command, Refuse, MFCFG, MFOPEN, MFCLOSE, MFREAD, MFSEEK, MFTRUNC,
       MFPUT, BeginMFPUT, BeginMFWRITE, Begin, AtMode
  <2>5. Quiet \/ (\E s \in Streams : Cancel(s)) => ~crashed /\ UNCHANGED crashed
    BY DEF Quiet, Timeout, Cancel
  <2> QED BY <2>1, <2>2, <2>3, <2>4, <2>5 DEF Next, Data
<1> QED BY <1>1, <1>2, TransferInvariant, PTL DEF Spec

(***************************************************************************)
(* Cancelling.                                                             *)
(***************************************************************************)

\* The stream of an MFWRITE transfer is open for writing, and once an append
\* stream has received bytes and holds none of them back, it is at the end of
\* its file: ftell tells where the accepted bytes end.
CancelInv ==
    \A h \in Handles : datamode = h =>
        /\ stream[h].mode # "r"
        /\ ~stale /\ recv_length > 0 /\ Append(stream[h]) /\ stream[h].pend = 0 =>
              stream[h].pos = size[stream[h].name]

\* An fwrite in append mode that leaves nothing in the buffer ends at the end
\* of the file.
LEMMA WriteDrains ==
    ASSUME NEW x \in Stream, NEW sz \in 0..MaxSize, NEW w \in Nat, w > 0,
           NEW r \in fwrite(x, sz, w), Append(x), r.x.pend = 0
    PROVE  r.x.pos = r.sz
<1>1. PICK k \in 0..BufSize : r = Written(x, sz, x.pend + w - k, k)
  BY DEF fwrite
<1>2. x.pend \in 0..BufSize /\ WriteAt(x, sz) = sz
  BY StreamFacts DEF WriteAt
<1>3. x \in [name : Names, mode : AllModes, pos : 0..MaxTell, pend : 0..BufSize]
  BY DEF Stream
<1>4. x = [name |-> x.name, mode |-> x.mode, pos |-> x.pos, pend |-> x.pend]
  BY <1>3
<1> DEFINE n == x.pend + w - k
           end == WriteAt(x, sz) + n
<1>5. /\ r.x = [name |-> x.name, mode |-> x.mode,
                pos |-> IF n = 0 THEN x.pos ELSE end, pend |-> k]
      /\ r.sz = IF n = 0 \/ end < sz THEN sz ELSE end
  <2>1. Written(x, sz, n, k).x =
           [name |-> x.name, mode |-> x.mode,
            pos |-> IF n = 0 THEN x.pos ELSE end, pend |-> k]
    BY <1>4 DEF Written
  <2>2. Written(x, sz, n, k).sz = IF n = 0 \/ end < sz THEN sz ELSE end
    BY DEF Written
  <2> QED BY <1>1, <2>1, <2>2
<1>6. k = 0 /\ n \in Nat /\ n > 0
  BY <1>2, <1>5
<1>7. end = sz + n
  BY <1>2
<1> HIDE DEF n, end
<1>8. r.x.pos = end /\ r.sz = end
  BY <1>5, <1>6, <1>7
<1> QED BY <1>8

LEMMA CancelInvReceived ==
    ASSUME TypeOK, TransferInv, CancelInv, NEW s \in Handles, datamode = s,
           NEW m \in 1..MaxBlock, NEW p \in Part(m),
           NEW r, r.x \in Stream, r.sz \in 0..MaxSize,
           r.x.mode = stream[s].mode,
           \/ r = Current(s) /\ p.len = 0
           \/ Append(r.x) /\ r.x.pend = 0 => r.x.pos = r.sz,
           Received(s, r, p, m)
    PROVE  CancelInv'
<1>1. s \in Streams /\ s # NULL /\ \A h \in Handles : h # NULL
  BY HandlesAssumption DEF Streams
<1>2. CASE Report(s, r, Plus(recv_length, p.len))
  BY <1>1, <1>2 DEF Report, Leave, CancelInv
<1>3. CASE /\ Becomes(s, r)
           /\ recv_length' = Plus(recv_length, p.len)
           /\ UNCHANGED <<datamode, data_length, from, stale>>
  <2>1. stream'[s] = r.x /\ size'[r.x.name] = r.sz
    BY <1>1, <1>3, BecomesFacts
  <2>2. stream[s].mode # "r" /\ recv_length \in 0..(Word - 1)
    BY DEF CancelInv, TypeOK
  <2>3. ASSUME ~stale, recv_length' > 0, Append(r.x), r.x.pend = 0
        PROVE  r.x.pos = r.sz
    <3>1. CASE r = Current(s) /\ p.len = 0
      <4>1. recv_length' = recv_length
        BY <1>3, <2>2, <3>1 DEF Plus
      <4>2. r.x = stream[s] /\ r.sz = size[stream[s].name]
        BY <3>1 DEF Current
      <4> QED BY <2>3, <4>1, <4>2 DEF CancelInv
    <3> QED BY <2>3, <3>1
  <2> QED BY <1>3, <2>1, <2>2, <2>3 DEF CancelInv
<1> QED BY <1>2, <1>3 DEF Received

LEMMA CancelInvNext ==
    ASSUME TypeOK, TransferInv, CancelInv, [Next]_vars
    PROVE  CancelInv'
<1>1. NULL \notin Handles
  BY HandlesAssumption DEF Streams
<1>2. CASE UNCHANGED vars
  BY <1>2 DEF CancelInv, vars, transferVars
<1>3. ASSUME datamode' = NULL PROVE CancelInv'
  BY <1>1, <1>3 DEF CancelInv
<1>4. ASSUME NEW s \in Streams, NEW m \in 1..MaxBlock, Block(s, m)
      PROVE  CancelInv'
  <2> DEFINE c == Current(s)
  <2>1. datamode = s /\ c.x = stream[s] /\ c.sz = size[stream[s].name] /\ s # NULL
    BY <1>4, HandlesAssumption DEF Block, Current, Streams
  <2>2. Open(s)
    BY <2>1 DEF TransferInv
  <2>3. c.x \in Stream /\ c.sz \in 0..MaxSize
    BY <2>1, <2>2, OpenStream
  <2>4. PICK p \in Part(m) :
          \/ UNCHANGED <<size, stream, transferVars>>
          \/ p.len = 0 /\ Received(s, c, p, m)
          \/ p.len # 0 /\ \E r \in fwrite(c.x, c.sz, p.len) : Received(s, r, p, m)
          \/ \E r \in fwrite_fails(c.x, c.sz, p.len) : WriteFails(s, r)
    BY <1>4 DEF Block
  <2> HIDE DEF c
  <2>5. p.len \in Nat
    BY <2>1, PartFacts
  <2>6. CASE UNCHANGED <<size, stream, transferVars>>
    BY <2>6 DEF CancelInv, transferVars
  <2>7. CASE \E r \in fwrite_fails(c.x, c.sz, p.len) : WriteFails(s, r)
    BY <1>3, <2>7 DEF WriteFails, Leave
  <2>8. CASE s = Put
    <3>1. ASSUME NEW r, Received(s, r, p, m) PROVE datamode' \in {s, NULL}
      BY <2>1, <3>1 DEF Received, Report, Leave
    <3>2. CASE datamode' = s
      BY <2>8, <3>2, HandlesAssumption DEF CancelInv
    <3> QED BY <1>3, <2>4, <2>6, <2>7, <3>1, <3>2
  <2>9. CASE s # Put
    <3>1. s \in Handles
      BY <2>9 DEF Streams
    <3>2. CASE p.len = 0 /\ Received(s, c, p, m)
      <4>1. c = Current(s)
        BY DEF c
      <4> QED BY <2>1, <2>3, <3>1, <3>2, <4>1, CancelInvReceived
    <3>3. ASSUME p.len # 0, NEW r \in fwrite(c.x, c.sz, p.len),
                 Received(s, r, p, m)
          PROVE  CancelInv'
      <4>1. r.x \in Stream /\ r.x.mode = c.x.mode /\ r.sz \in 0..MaxSize
        BY <2>3, <2>5, WriteFacts
      <4>2. Append(r.x) /\ r.x.pend = 0 => r.x.pos = r.sz
        BY <2>3, <2>5, <3>3, <4>1, WriteDrains DEF Append
      <4> QED BY <2>1, <3>1, <3>3, <4>1, <4>2, CancelInvReceived
    <3> QED BY <2>4, <2>6, <2>7, <3>2, <3>3
  <2> QED BY <2>8, <2>9
<1>5. ASSUME NEW h \in Handles, NEW l \in Lengths, BeginMFWRITE(h, l)
      PROVE  CancelInv'
  <2>1. /\ datamode = NULL /\ stream[h].mode # "r" /\ UNCHANGED <<size, stream>>
        /\ UNCHANGED <<recv_length, stale>> /\ datamode' \in {h, NULL}
    BY <1>5 DEF BeginMFWRITE, Begin, AtMode
  <2>2. ~stale => ~(recv_length > 0)
    BY <2>1 DEF TransferInv
  <2> QED BY <1>3, <2>1, <2>2 DEF CancelInv
<1>6. ASSUME NEW n \in Names, NEW l \in Lengths, BeginMFPUT(n, l)
      PROVE  CancelInv'
  <2>1. datamode' \in {Put, NULL}
    BY <1>6 DEF BeginMFPUT, Begin, AtMode
  <2> QED BY <1>3, <2>1, HandlesAssumption DEF CancelInv
<1>7. CASE Quiet \/ \E s \in Streams : Cancel(s)
  BY <1>3, <1>7 DEF Quiet, Timeout, Report, Leave, Cancel
<1>8. CASE Command /\ UNCHANGED transferVars /\ datamode = NULL
  BY <1>3, <1>8 DEF transferVars
<1>9. Command => \/ UNCHANGED transferVars /\ datamode = NULL
                 \/ \E h \in Handles, l \in Lengths : BeginMFWRITE(h, l)
                 \/ \E n \in Names, l \in Lengths : BeginMFPUT(n, l)
  BY DEF Command, Refuse, MFCFG, MFOPEN, MFCLOSE, MFREAD, MFSEEK, MFTRUNC,
         MFPUT, MFWRITE, AtMode
<1> QED BY <1>2, <1>4, <1>5, <1>6, <1>7, <1>8, <1>9 DEF Next, Data

CancelCutsStep ==
    \A h \in Handles :
        /\ Cancel(h) /\ ~stale /\ from <= MaxSize
        /\ Append(stream[h]) => recv_length > 0
        => size'[stream[h].name] = from

LEMMA CancelCuts == ASSUME TypeOK, TransferInv, CancelInv PROVE CancelCutsStep
<1> SUFFICES ASSUME NEW h \in Handles, Cancel(h), ~stale, from <= MaxSize,
                    Append(stream[h]) => recv_length > 0
             PROVE  size'[stream[h].name] = from
  BY DEF CancelCutsStep
<1> DEFINE x == stream[h]
           sz == size[x.name]
<1>1. /\ datamode = h /\ h # NULL /\ h # Put /\ h \in Streams
      /\ Truncate(h, Minus(ftell(x, sz), recv_length))
  BY HandlesAssumption DEF Cancel, Streams
<1>2. Open(h)
  BY <1>1 DEF TransferInv
<1>3. x \in Stream /\ x.name \in Names /\ sz \in 0..MaxSize
  BY <1>1, <1>2, OpenStream
<1>4. recv_length \in 0..(Word - 1) /\ from \in Nat
  BY DEF TypeOK
<1>5. ftell(x, sz) = from + recv_length
  <2>1. WriteAt(x, sz) + x.pend = from + recv_length
    BY <1>1 DEF TransferInv, EndOfWritten
  <2>2. x.pend \in 0..BufSize /\ x.pos \in 0..MaxTell /\ WriteAt(x, sz) \in 0..MaxTell
    BY <1>3, StreamFacts
  <2>3. CASE x.pend # 0
    BY <2>1, <2>3 DEF ftell
  <2>4. CASE x.pend = 0
    <3>1. Append(x) => x.pos = sz
      BY <1>1, <2>4 DEF CancelInv
    <3>2. WriteAt(x, sz) = x.pos
      BY <3>1 DEF WriteAt
    <3> QED BY <2>1, <2>2, <2>4, <3>2 DEF ftell
  <2> QED BY <2>3, <2>4
<1>6. Minus(ftell(x, sz), recv_length) = from
  BY <1>4, <1>5 DEF Minus
<1>7. x.mode # "r"
  BY <1>1 DEF CancelInv
<1>8. PICK r \in fflush(x, sz) :
        Becomes(h, [x  |-> IF r.out = x.pend THEN [r.x EXCEPT !.pos = 0] ELSE r.x,
                    sz |-> IF x.mode = "r" \/ from > MaxSize THEN r.sz ELSE from])
  BY <1>1, <1>6 DEF Truncate
<1> DEFINE y == IF r.out = x.pend THEN [r.x EXCEPT !.pos = 0] ELSE r.x
<1>9. r.x \in Stream /\ r.x.name = x.name
  BY <1>3, FlushFacts
<1>10. y.name = x.name
  BY <1>9 DEF Stream
<1>11. (IF x.mode = "r" \/ from > MaxSize THEN r.sz ELSE from) = from
  BY <1>4, <1>7
<1>12. size' = [size EXCEPT ![y.name] = from]
  BY <1>8, <1>11 DEF Becomes
<1> QED BY <1>3, <1>10, <1>12 DEF TypeOK

\* A cancelled MFWRITE cuts the file where the transfer began
\* (CancelCutsAtStart): the unsigned subtraction of recv_length from the
\* position neither wraps around nor misses, however the bytes were buffered.
THEOREM CancelRestoresStart == Spec => CancelCutsAtStart
<1>1. Init => CancelInv
  BY HandlesAssumption DEF Init, CancelInv, Streams
<1>2. TypeOK /\ TransferInv /\ CancelInv /\ [Next]_vars => CancelInv'
  BY CancelInvNext
<1>3. TypeOK /\ TransferInv /\ CancelInv /\ [Next]_vars => [CancelCutsStep]_vars
  BY CancelCuts
<1>4. Spec => [][CancelCutsStep]_vars
  BY <1>1, <1>2, <1>3, TransferInvariant, PTL DEF Spec
<1> QED BY <1>4 DEF CancelCutsAtStart, CancelCutsStep
=============================================================================
