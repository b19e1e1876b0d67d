--------------------------- MODULE MsgParserProofs ---------------------------
(***************************************************************************)
(* Proofs about MsgParser, for any check sum, any addresses, any sizes of  *)
(* the pieces that recv returns and any buffer with room for a frame less  *)
(* one byte and one more piece.                                            *)
(***************************************************************************)
EXTENDS MsgParser, FiniteSetTheorems, SequenceTheorems, TLAPS

Message == [hdr : [1 .. 8 -> Byte], body : Bodies]

-----------------------------------------------------------------------------
(* The inductive invariant. *)

\* While no send was cut short, the stream is the frames of the requests one
\* behind the other, parser_buf holds what was received behind the last frame
\* that was handed over, and so it starts where a frame starts.
Aligned ==
    /\ overrun = "none"
    /\ Len(stream) = 36 * Len(sent)
    /\ \A j \in 1 .. Len(sent) : CrcMatch(sent[j].hdr)
    /\ \A j \in 1 .. Len(sent), k \in 1 .. 36 :
            stream[36 * (j - 1) + k] = Frame(sent[j])[k]
    /\ got - valid = 36 * Len(told)
    /\ \A i \in 0 .. valid - 1 : buf[i] = stream[36 * Len(told) + i + 1]
    /\ \A j \in 1 .. Len(told) : j <= Len(sent) /\ told[j] = sent[j]
    /\ ~parsing => valid < 36

IInv ==
    /\ TypeOK
    /\ cuts = 0 => Aligned

-----------------------------------------------------------------------------
(* The operators. *)

\* A function on 1 .. n is a sequence of length n.
LEMMA FunctionIsSeq ==
    ASSUME NEW S, NEW n \in Nat, NEW f \in [1 .. n -> S]
    PROVE  f \in Seq(S) /\ Len(f) = n
<1>1. f = [i \in 1 .. n |-> f[i]] /\ \A i \in 1 .. n : f[i] \in S
  OBVIOUS
<1>2. [i \in 1 .. n |-> f[i]] \in Seq(S)
  BY <1>1, IsASeq
<1>3. QED BY <1>1, <1>2, LenProperties

\* Bytes written behind others.
LEMMA Behind ==
    ASSUME NEW s \in Seq(Byte), NEW t \in Seq(Byte)
    PROVE  /\ s \o t \in Seq(Byte)
           /\ Len(s \o t) = Len(s) + Len(t)
           /\ \A k \in 1 .. Len(s) : (s \o t)[k] = s[k]
           /\ \A k \in 1 .. Len(t) : (s \o t)[Len(s) + k] = t[k]
<1>1. Len(s) \in Nat /\ Len(t) \in Nat
  BY LenProperties
<1>2. /\ s \o t \in Seq(Byte)
      /\ Len(s \o t) = Len(s) + Len(t)
      /\ \A i \in 1 .. Len(s) + Len(t) :
            (s \o t)[i] = IF i <= Len(s) THEN s[i] ELSE t[i - Len(s)]
  BY ConcatProperties, Zenon
<1>3. \A k \in 1 .. Len(s) : (s \o t)[k] = s[k]
  BY <1>1, <1>2
<1>4. \A k \in 1 .. Len(t) : (s \o t)[Len(s) + k] = t[k]
  <2>1. SUFFICES ASSUME NEW k \in 1 .. Len(t)
                 PROVE  (s \o t)[Len(s) + k] = t[k]
    OBVIOUS
  <2>2. /\ Len(s) + k \in 1 .. Len(s) + Len(t)
        /\ ~(Len(s) + k <= Len(s))
        /\ (Len(s) + k) - Len(s) = k
    BY <1>1
  <2>3. QED BY <1>2, <2>2
<1>5. QED BY <1>2, <1>3, <1>4

\* msg2buf_calc_crc writes eight bytes that crc_match accepts.
LEMMA HeaderMatches ==
    ASSUME NEW seq \in 0 .. MaxSent - 1, NEW t \in Types
    PROVE  Header(seq, t) \in [1 .. 8 -> Byte] /\ CrcMatch(Header(seq, t))
<1> DEFINE bare == HeaderWith(0, seq, t)
           crc == Crc(bare)
           h == Header(seq, t)
<1>1. crc \in Byte
  BY CrcAssumption
<1>2. seq \div 256 \in Byte /\ seq % 256 \in Byte /\ 1 \in Byte /\ 0 \in Byte
  BY BoundAssumption DEF Byte
<1>3. t[1] \in Byte /\ t[2] \in Byte /\ t[3] \in Byte /\ t[4] \in Byte
  BY TypesAssumption
<1>4. /\ h = <<1, crc, seq \div 256, seq % 256, t[1], t[2], t[3], t[4]>>
      /\ bare = <<1, 0, seq \div 256, seq % 256, t[1], t[2], t[3], t[4]>>
  BY DEF Header, HeaderWith
<1>5. CrcMatch(h) <=> h[2] = Crc([h EXCEPT ![2] = 0])
  BY DEF CrcMatch
<1> HIDE DEF crc, bare, h
<1>6. h \in [1 .. 8 -> Byte] /\ h[2] = crc
  BY <1>1, <1>2, <1>3, <1>4
<1>7. [h EXCEPT ![2] = 0] = bare
  BY <1>4
<1>8. QED BY <1>5, <1>6, <1>7 DEF crc, h

\* A frame is 36 bytes: the mark, the length, the header and the addresses.
LEMMA FrameBytes ==
    ASSUME NEW m \in Message
    PROVE  /\ Frame(m) \in Seq(Byte)
           /\ Len(Frame(m)) = 36
           /\ Frame(m)[1] = 36 /\ Frame(m)[2] = 64
           /\ Frame(m)[3] = 0 /\ Frame(m)[4] = 32
           /\ \A k \in 1 .. 8 : Frame(m)[4 + k] = m.hdr[k]
           /\ \A k \in 1 .. 24 : Frame(m)[12 + k] = m.body[k]
<1> DEFINE mark == <<36, 64, 0, 32>>
           h == m.hdr
           b == m.body
           front == mark \o h
<1>1. /\ h \in Seq(Byte) /\ Len(h) = 8
      /\ b \in Seq(Byte) /\ Len(b) = 24
  <2>1. h \in [1 .. 8 -> Byte] /\ b \in [1 .. 24 -> Byte]
    BY BodiesAssumption DEF Message
  <2>2. QED BY <2>1, FunctionIsSeq
<1>2. /\ mark \in Seq(Byte) /\ Len(mark) = 4
      /\ mark[1] = 36 /\ mark[2] = 64 /\ mark[3] = 0 /\ mark[4] = 32
  BY DEF Byte
<1>3. Frame(m) = front \o b
  BY DEF Frame
<1> HIDE DEF mark, h, b
<1>4. /\ front \in Seq(Byte)
      /\ Len(front) = Len(mark) + Len(h)
      /\ \A k \in 1 .. Len(mark) : front[k] = mark[k]
      /\ \A k \in 1 .. Len(h) : front[Len(mark) + k] = h[k]
  BY <1>1, <1>2, Behind, Zenon
<1> HIDE DEF front
<1>5. /\ front \o b \in Seq(Byte)
      /\ Len(front \o b) = Len(front) + Len(b)
      /\ \A k \in 1 .. Len(front) : (front \o b)[k] = front[k]
      /\ \A k \in 1 .. Len(b) : (front \o b)[Len(front) + k] = b[k]
  BY <1>1, <1>4, Behind, Zenon
<1>6. /\ Len(front) = 12
      /\ front[1] = 36 /\ front[2] = 64 /\ front[3] = 0 /\ front[4] = 32
      /\ \A k \in 1 .. 8 : front[4 + k] = h[k]
  BY <1>1, <1>2, <1>4
<1> DEFINE f == front \o b
<1> HIDE DEF f
<1>7. /\ f \in Seq(Byte) /\ Len(f) = 36
      /\ \A k \in 1 .. 12 : f[k] = front[k]
      /\ \A k \in 1 .. 24 : f[12 + k] = b[k]
  <2>1. /\ f \in Seq(Byte)
        /\ Len(f) = Len(front) + Len(b)
        /\ \A k \in 1 .. Len(front) : f[k] = front[k]
        /\ \A k \in 1 .. Len(b) : f[Len(front) + k] = b[k]
    BY <1>5, Zenon DEF f
  <2>2. QED BY <1>1, <1>6, <2>1
<1>8. /\ f[1] = 36 /\ f[2] = 64 /\ f[3] = 0 /\ f[4] = 32
      /\ \A k \in 1 .. 8 : f[4 + k] = h[k]
  BY <1>6, <1>7
<1>9. Frame(m) = f
  BY <1>3 DEF f
<1>10. QED BY <1>7, <1>8, <1>9, Zenon DEF h, b

-----------------------------------------------------------------------------
(* Types. *)

\* What send_to_vtdu is asked for.
LEMMA RequestType ==
    ASSUME TypeOK, Len(sent) < MaxSent, NEW m \in Requests
    PROVE  m \in Message /\ CrcMatch(m.hdr)
<1>1. PICK t \in Types, b \in Bodies : m = [hdr |-> Header(Len(sent), t), body |-> b]
  BY DEF Requests
<1>2. Len(sent) \in 0 .. MaxSent - 1
  BY BoundAssumption, LenProperties DEF TypeOK
<1>3. QED BY <1>1, <1>2, HeaderMatches DEF Message

\* The copies of memcpy stay bytes: they are made inside of what was received.
LEMMA CopiedType ==
    ASSUME TypeOK, NEW b \in [0 .. BufLen - 1 -> Byte], NEW at \in Nat,
           NEW n \in 1 .. Len(stream) - got
    PROVE  Copied(b, at, n) \in [0 .. BufLen - 1 -> Byte]
<1>1. /\ stream \in [1 .. Len(stream) -> Byte] /\ Len(stream) \in Nat
      /\ got \in 0 .. Len(stream)
  BY LenProperties DEF TypeOK
<1>2. ASSUME NEW i \in 0 .. BufLen - 1, i \in at .. at + n - 1
      PROVE  stream[got + 1 + i - at] \in Byte
  <2>1. got + 1 + i - at \in 1 .. Len(stream)
    BY <1>1, <1>2
  <2>2. QED BY <1>1, <2>1
<1>3. QED BY <1>2 DEF Copied

LEMMA MovedType ==
    ASSUME TypeOK, NEW from \in Nat, NEW n \in Int, from + n <= BufLen
    PROVE  Moved(from, n) \in [0 .. BufLen - 1 -> Byte]
<1>1. BufLen \in Nat /\ buf \in [0 .. BufLen - 1 -> Byte]
  BY RoomAssumption DEF TypeOK
<1>2. ASSUME NEW i \in 0 .. BufLen - 1, i < n
      PROVE  buf[i + from] \in Byte
  <2>1. i + from \in 0 .. BufLen - 1
    BY <1>1, <1>2
  <2>2. QED BY <1>1, <2>1
<1>3. QED BY <1>1, <1>2 DEF Moved

\* The loop drops no more than there is.
LEMMA ConsumeType ==
    ASSUME TypeOK, NEW n \in 0 .. valid, Consume(n)
    PROVE  /\ valid' \in 0 .. BufLen
           /\ buf' \in [0 .. BufLen - 1 -> Byte]
           /\ parsing' \in BOOLEAN
<1>1. /\ BufLen \in Nat /\ valid \in 0 .. BufLen
      /\ buf \in [0 .. BufLen - 1 -> Byte]
  BY RoomAssumption DEF TypeOK
<1>2. Moved(n, valid - n) \in [0 .. BufLen - 1 -> Byte]
  BY <1>1, MovedType
<1>3. QED BY <1>1, <1>2 DEF Consume

\* The length of a message is a number, and what is handed over as a frame is
\* made of received bytes.
LEMMA LengthType ==
    ASSUME TypeOK, NEW i \in 0 .. valid - 3, valid - i >= 12
    PROVE  MsgLen(i) \in Nat
<1>1. /\ BufLen \in Nat /\ valid \in 0 .. BufLen
      /\ buf \in [0 .. BufLen - 1 -> Byte]
  BY RoomAssumption DEF TypeOK
<1>2. i + 2 \in 0 .. BufLen - 1 /\ i + 3 \in 0 .. BufLen - 1
  BY <1>1
<1>3. buf[i + 2] \in Byte /\ buf[i + 3] \in Byte
  BY <1>1, <1>2
<1>4. \A a, b \in Byte : a * 256 + b \in Nat
  BY DEF Byte
<1>5. QED BY <1>3, <1>4 DEF MsgLen

LEMMA HandedType ==
    ASSUME TypeOK, NEW i \in 0 .. valid - 3, IsFrame(i)
    PROVE  /\ HeaderAt(i) \in [1 .. 8 -> Byte]
           /\ BodyAt(i) \in Seq(Byte)
           /\ MsgLen(i) + i + 4 \in 0 .. valid
<1>1. /\ BufLen \in Nat /\ valid \in 0 .. BufLen
      /\ buf \in [0 .. BufLen - 1 -> Byte]
  BY RoomAssumption DEF TypeOK
<1>2. valid - i >= 12 /\ MsgLen(i) >= 8 /\ MsgLen(i) + i + 4 <= valid
  BY DEF IsFrame
<1>3. MsgLen(i) \in Nat
  BY <1>2, LengthType
<1>4. HeaderAt(i) \in [1 .. 8 -> Byte]
  <2>1. ASSUME NEW k \in 1 .. 8
        PROVE  buf[i + 3 + k] \in Byte
    <3>1. i + 3 + k \in 0 .. BufLen - 1
      BY <1>1, <1>2
    <3>2. QED BY <1>1, <3>1
  <2>2. QED BY <2>1 DEF HeaderAt
<1>5. BodyAt(i) \in Seq(Byte)
  <2>1. ASSUME NEW k \in 1 .. MsgLen(i) - 8
        PROVE  buf[i + 11 + k] \in Byte
    <3>1. i + 11 + k \in 0 .. BufLen - 1
      BY <1>1, <1>2, <1>3
    <3>2. QED BY <1>1, <3>1
  <2>2. BodyAt(i) \in [1 .. MsgLen(i) - 8 -> Byte] /\ MsgLen(i) - 8 \in Nat
    BY <1>2, <1>3, <2>1 DEF BodyAt
  <2>3. QED BY <2>2, FunctionIsSeq
<1>6. QED BY <1>1, <1>2, <1>3, <1>4, <1>5

\* Init is well typed.
LEMMA InitTypes == Init => TypeOK
<1>1. SUFFICES ASSUME Init PROVE TypeOK
  OBVIOUS
<1>2. /\ sent \in Seq([hdr : [1 .. 8 -> Byte], body : Bodies])
      /\ stream \in Seq(Byte)
      /\ told \in Seq([hdr : [1 .. 8 -> Byte], body : Seq(Byte)])
      /\ Len(sent) = 0 /\ Len(stream) = 0
  BY <1>1, EmptySeq DEF Init
<1>3. buf \in [0 .. BufLen - 1 -> Byte]
  BY <1>1 DEF Init, Byte
<1>4. /\ valid \in 0 .. BufLen /\ cuts \in 0 .. MaxCuts
      /\ Len(sent) <= MaxSent /\ got \in 0 .. Len(stream)
  BY <1>1, <1>2, RoomAssumption, BoundAssumption DEF Init
<1>5. QED BY <1>1, <1>2, <1>3, <1>4 DEF Init, TypeOK

LEMMA TypeStep == TypeOK /\ [Next]_vars => TypeOK'
<1> SUFFICES ASSUME TypeOK, [Next]_vars PROVE TypeOK'
  OBVIOUS
<1>0. /\ sent \in Seq(Message) /\ stream \in Seq(Byte)
      /\ told \in Seq([hdr : [1 .. 8 -> Byte], body : Seq(Byte)])
      /\ Len(sent) \in Nat /\ Len(stream) \in Nat /\ Len(told) \in Nat
  BY LenProperties DEF TypeOK, Message
<1>1. ASSUME NEW m \in Requests, Send(m)
      PROVE  TypeOK'
  <2>1. m \in Message
    BY <1>1, RequestType DEF Send
  <2>2. /\ stream' \in Seq(Byte) /\ Len(stream') = Len(stream) + 36
    <3>1. Frame(m) \in Seq(Byte) /\ Len(Frame(m)) = 36
      BY <2>1, FrameBytes
    <3>2. stream' = stream \o Frame(m)
      BY <1>1 DEF Send
    <3> DEFINE frame == Frame(m)
    <3> HIDE DEF frame
    <3>3. /\ frame \in Seq(Byte) /\ Len(frame) = 36
          /\ stream' = stream \o frame
      BY <3>1, <3>2 DEF frame
    <3>4. /\ stream \o frame \in Seq(Byte)
          /\ Len(stream \o frame) = Len(stream) + Len(frame)
      BY <1>0, <3>3, Behind, Zenon
    <3>5. QED BY <3>3, <3>4, Zenon
  <2>3. sent' \in Seq(Message) /\ Len(sent') = Len(sent) + 1
    BY <1>0, <1>1, <2>1, AppendProperties DEF Send
  <2>4. Len(sent') <= MaxSent
    <3>1. Len(sent) < MaxSent /\ MaxSent \in Int
      BY <1>1, BoundAssumption DEF Send
    <3>2. QED BY <1>0, <2>3, <3>1
  <2>5. got' \in 0 .. Len(stream')
    BY <1>0, <1>1, <2>2 DEF Send, TypeOK
  <2>6. QED BY <1>1, <2>2, <2>3, <2>4, <2>5 DEF Send, TypeOK, Message
<1>2. ASSUME NEW m \in Requests, NEW k \in CutSizes, SendCut(m, k)
      PROVE  TypeOK'
  <2>1. m \in Message
    BY <1>2, RequestType DEF SendCut
  <2>2. /\ stream' \in Seq(Byte) /\ Len(stream') = Len(stream) + k /\ k \in 1 .. 35
    <3>1. Frame(m) \in Seq(Byte) /\ Len(Frame(m)) = 36 /\ k \in 1 .. 35
      BY <2>1, FrameBytes, CutAssumption
    <3> DEFINE part == SubSeq(Frame(m), 1, k)
    <3>2. part \in Seq(Byte) /\ Len(part) = k
      <4>1. \A i \in 1 .. k : Frame(m)[i] \in Byte
        <5> DEFINE frame == Frame(m)
        <5>1. frame \in Seq(Byte) /\ Len(frame) = 36
          BY <3>1
        <5> HIDE DEF frame
        <5>2. \A i \in 1 .. 36 : frame[i] \in Byte
          BY <5>1, ElementOfSeq
        <5>3. \A i \in 1 .. k : i \in 1 .. 36
          BY <3>1
        <5>4. QED BY <5>2, <5>3 DEF frame
      <4>2. QED BY <3>1, <4>1, SubSeqProperties
    <3>3. stream' = stream \o part
      BY <1>2 DEF SendCut
    <3> HIDE DEF part
    <3>4. QED BY <1>0, <3>1, <3>2, <3>3, Behind
  <2>3. sent' \in Seq(Message) /\ Len(sent') = Len(sent) + 1
    BY <1>0, <1>2, <2>1, AppendProperties DEF SendCut
  <2>4. Len(sent') <= MaxSent
    <3>1. Len(sent) < MaxSent /\ MaxSent \in Int
      BY <1>2, BoundAssumption DEF SendCut
    <3>2. QED BY <1>0, <2>3, <3>1
  <2>5. got' \in 0 .. Len(stream')
    BY <1>0, <1>2, <2>2 DEF SendCut, TypeOK
  <2>6. cuts' \in 0 .. MaxCuts
    <3>1. cuts < MaxCuts /\ cuts' = cuts + 1 /\ MaxCuts \in Nat /\ cuts \in 0 .. MaxCuts
      BY <1>2, BoundAssumption DEF SendCut, TypeOK
    <3>2. QED BY <3>1
  <2>7. QED BY <1>2, <2>2, <2>3, <2>4, <2>5, <2>6 DEF SendCut, TypeOK, Message
<1>3. ASSUME NEW n \in RecvSizes, Receive(n)
      PROVE  TypeOK'
  <2> DEFINE discard == n + valid - BufLen
  <2>1. /\ n \in 1 .. Len(stream) - got /\ n \in 1 .. BufLen - 35
        /\ BufLen \in Nat /\ valid \in 0 .. BufLen /\ got \in 0 .. Len(stream)
        /\ buf \in [0 .. BufLen - 1 -> Byte]
    BY <1>0, <1>3, RoomAssumption DEF Receive, TypeOK
  <2>2. CASE Fits(n)
    <3>1. Copied(buf, valid, n) \in [0 .. BufLen - 1 -> Byte]
      BY <2>1, CopiedType
    <3>2. valid + n \in 0 .. BufLen /\ got + n \in 0 .. Len(stream)
      BY <1>0, <2>1, <2>2 DEF Fits
    <3>3. QED BY <1>3, <2>2, <3>1, <3>2 DEF Receive, TypeOK
  <2>3. CASE ~Fits(n)
    <3>1. discard \in Nat /\ valid - discard \in Int /\ valid <= BufLen
      BY <2>1, <2>3 DEF Fits
    <3>2. Moved(discard, valid - discard) \in [0 .. BufLen - 1 -> Byte]
      BY <2>1, <3>1, MovedType
    <3>3. Copied(Moved(discard, valid - discard), discard, n)
                \in [0 .. BufLen - 1 -> Byte]
      BY <2>1, <3>1, <3>2, CopiedType
    <3>4. BufLen \in 0 .. BufLen /\ got + n \in 0 .. Len(stream)
      BY <1>0, <2>1
    <3>5. QED BY <1>3, <2>3, <3>3, <3>4 DEF Receive, TypeOK
  <2>4. QED BY <2>2, <2>3
<1>4. ASSUME Parse
      PROVE  TypeOK'
  <2>1. /\ valid' \in 0 .. BufLen
        /\ buf' \in [0 .. BufLen - 1 -> Byte]
        /\ parsing' \in BOOLEAN
        /\ told' \in Seq([hdr : [1 .. 8 -> Byte], body : Seq(Byte)])
    <3>1. valid \in Nat
      BY DEF TypeOK
    <3>2. CASE Nothing
      BY <1>0, <3>1, <3>2, ConsumeType DEF Nothing
    <3>3. ASSUME NEW i \in First, Await(i)
          PROVE  <2>1!1 /\ <2>1!2 /\ <2>1!3 /\ <2>1!4
      BY <1>0, <3>1, <3>3, ConsumeType DEF Await, First, Stops
    <3>4. ASSUME NEW i \in First, Hand(i)
          PROVE  <2>1!1 /\ <2>1!2 /\ <2>1!3 /\ <2>1!4
      <4>1. i \in 0 .. valid - 3 /\ IsFrame(i) /\ Consume(MsgLen(i) + i + 4)
        BY <3>4 DEF First, Stops, Hand
      <4>2. /\ HeaderAt(i) \in [1 .. 8 -> Byte]
            /\ BodyAt(i) \in Seq(Byte)
            /\ MsgLen(i) + i + 4 \in 0 .. valid
        BY <4>1, HandedType
      <4>3. told' \in Seq([hdr : [1 .. 8 -> Byte], body : Seq(Byte)])
        BY <1>0, <3>4, <4>2, AppendProperties DEF Hand
      <4>4. QED BY <4>1, <4>2, <4>3, ConsumeType
    <3>5. QED BY <1>4, <3>2, <3>3, <3>4 DEF Parse
  <2>2. QED BY <1>4, <2>1 DEF Parse, TypeOK
<1>5. CASE UNCHANGED vars
  BY <1>5 DEF vars, TypeOK
<1>6. QED BY <1>1, <1>2, <1>3, <1>4, <1>5 DEF Next

-----------------------------------------------------------------------------
(* The stream stays aligned. *)

\* What stands at the start of the buffer while the stream is aligned: the
\* next request that was not handed over yet.
LEMMA FrameAtStart ==
    ASSUME TypeOK, Aligned, valid >= 12
    PROVE  LET m == sent[Len(told) + 1]
           IN  /\ Len(told) + 1 \in 1 .. Len(sent)
               /\ m \in Message
               /\ Magic(0)
               /\ MsgLen(0) = 32
               /\ HeaderAt(0) = m.hdr
               /\ CrcMatch(HeaderAt(0))
               /\ valid >= 36 => BodyAt(0) = m.body
<1> DEFINE n == Len(told) + 1
           m == sent[n]
<1>1. /\ Len(sent) \in Nat /\ Len(told) \in Nat /\ Len(stream) \in Nat
      /\ sent \in [1 .. Len(sent) -> Message]
      /\ valid \in Nat /\ got \in 0 .. Len(stream)
  <2>1. /\ sent \in Seq(Message) /\ stream \in Seq(Byte)
        /\ told \in Seq([hdr : [1 .. 8 -> Byte], body : Seq(Byte)])
        /\ valid \in 0 .. BufLen /\ got \in 0 .. Len(stream)
    BY DEF TypeOK, Message
  <2>2. valid \in Nat
    BY <2>1, RoomAssumption
  <2>3. QED BY <2>1, <2>2, LenProperties
<1>2. /\ Len(stream) = 36 * Len(sent)
      /\ got - valid = 36 * Len(told)
  BY DEF Aligned
<1>3. n \in 1 .. Len(sent)
  BY <1>1, <1>2
<1>4. m \in Message /\ CrcMatch(m.hdr)
  BY <1>1, <1>3 DEF Aligned
<1>5. \A k \in 1 .. 36 : k <= valid => buf[k - 1] = Frame(m)[k]
  <2>1. SUFFICES ASSUME NEW k \in 1 .. 36, k <= valid
                 PROVE  buf[k - 1] = Frame(m)[k]
    OBVIOUS
  <2>2. k - 1 \in 0 .. valid - 1
    BY <1>1, <2>1
  <2>3. buf[k - 1] = stream[36 * Len(told) + (k - 1) + 1]
    BY <2>2 DEF Aligned
  <2>4. stream[36 * (n - 1) + k] = Frame(m)[k]
    BY <1>3 DEF Aligned
  <2>5. 36 * Len(told) + (k - 1) + 1 = 36 * (n - 1) + k
    BY <1>1
  <2>6. QED BY <2>3, <2>4, <2>5
<1> HIDE DEF m
<1>6. /\ Frame(m)[1] = 36 /\ Frame(m)[2] = 64
      /\ Frame(m)[3] = 0 /\ Frame(m)[4] = 32
      /\ \A k \in 1 .. 8 : Frame(m)[4 + k] = m.hdr[k]
      /\ \A k \in 1 .. 24 : Frame(m)[12 + k] = m.body[k]
  BY <1>4, FrameBytes, Zenon
<1>7. buf[0] = 36 /\ buf[1] = 64 /\ buf[2] = 0 /\ buf[3] = 32
  <2>1. /\ 1 \in 1 .. 36 /\ 2 \in 1 .. 36 /\ 3 \in 1 .. 36 /\ 4 \in 1 .. 36
        /\ 1 <= valid /\ 2 <= valid /\ 3 <= valid /\ 4 <= valid
        /\ 1 - 1 = 0 /\ 2 - 1 = 1 /\ 3 - 1 = 2 /\ 4 - 1 = 3
    BY <1>1
  <2>2. QED BY <1>5, <1>6, <2>1
<1>8. Magic(0) /\ MsgLen(0) = 32
  BY <1>7 DEF Magic, MsgLen
<1>9. HeaderAt(0) = m.hdr
  <2>1. \A k \in 1 .. 8 : buf[0 + 3 + k] = m.hdr[k]
    <3>1. SUFFICES ASSUME NEW k \in 1 .. 8 PROVE buf[0 + 3 + k] = m.hdr[k]
      OBVIOUS
    <3>2. 4 + k \in 1 .. 36 /\ 4 + k <= valid /\ (4 + k) - 1 = 0 + 3 + k
      BY <1>1
    <3>3. QED BY <1>5, <1>6, <3>2
  <2>2. m.hdr \in [1 .. 8 -> Byte]
    BY <1>4 DEF Message
  <2>3. QED BY <2>1, <2>2 DEF HeaderAt
<1>10. valid >= 36 => BodyAt(0) = m.body
  <2>1. SUFFICES ASSUME valid >= 36 PROVE BodyAt(0) = m.body
    OBVIOUS
  <2>2. \A k \in 1 .. 24 : buf[0 + 11 + k] = m.body[k]
    <3>1. SUFFICES ASSUME NEW k \in 1 .. 24 PROVE buf[0 + 11 + k] = m.body[k]
      OBVIOUS
    <3>2. 12 + k \in 1 .. 36 /\ 12 + k <= valid /\ (12 + k) - 1 = 0 + 11 + k
      BY <1>1, <2>1
    <3>3. QED BY <1>5, <1>6, <3>2
  <2>3. m.body \in [1 .. 24 -> Byte]
    BY <1>4, BodiesAssumption DEF Message
  <2>4. BodyAt(0) = [k \in 1 .. 24 |-> buf[0 + 11 + k]]
    <3>1. MsgLen(0) - 8 = 24
      BY <1>8
    <3>2. QED BY <3>1 DEF BodyAt
  <2>5. QED BY <2>2, <2>3, <2>4
<1>11. QED BY <1>3, <1>4, <1>8, <1>9, <1>10 DEF m

\* The search stops at the start of the buffer, so nothing inside of the
\* addresses is taken for a frame.
LEMMA StopsAtStart ==
    ASSUME TypeOK, Aligned, valid >= 12
    PROVE  /\ Stops # {}
           /\ \A i \in First : i = 0
           /\ IsFrame(0) <=> valid >= 36
<1>1. valid \in Nat
  BY DEF TypeOK
<1>2. Magic(0) /\ MsgLen(0) = 32 /\ CrcMatch(HeaderAt(0))
  BY FrameAtStart
<1>3. IsFrame(0) <=> valid >= 36
  BY <1>1, <1>2 DEF IsFrame
<1>4. 0 \in Stops
  <2>1. 0 \in 0 .. valid - 3
    BY <1>1
  <2>2. IsFrame(0) \/ MayBecomeFrame(0)
    BY <1>1, <1>2, <1>3 DEF MayBecomeFrame
  <2>3. QED BY <2>1, <2>2 DEF Stops
<1>5. ASSUME NEW i \in First
      PROVE  i = 0
  <2>1. i \in 0 .. valid - 3 /\ i <= 0
    BY <1>4, <1>5 DEF First, Stops
  <2>2. QED BY <1>1, <2>1
<1>6. QED BY <1>3, <1>4, <1>5

\* One more frame on the stream.
LEMMA AlignedSend ==
    ASSUME TypeOK, Aligned, NEW m \in Requests, Send(m)
    PROVE  Aligned'
<1>1. /\ sent \in Seq(Message) /\ stream \in Seq(Byte)
      /\ told \in Seq([hdr : [1 .. 8 -> Byte], body : Seq(Byte)])
      /\ Len(sent) \in Nat /\ Len(stream) \in Nat /\ Len(told) \in Nat
      /\ valid \in 0 .. BufLen /\ got \in 0 .. Len(stream) /\ BufLen \in Nat
  BY LenProperties, RoomAssumption DEF TypeOK, Message
<1>2. m \in Message /\ CrcMatch(m.hdr)
  BY RequestType DEF Send
<1>3. /\ Len(sent') = Len(sent) + 1
      /\ \A j \in 1 .. Len(sent) : sent'[j] = sent[j]
      /\ sent'[Len(sent) + 1] = m
  BY <1>1, <1>2, AppendProperties DEF Send
<1> DEFINE frame == Frame(m)
<1>4. frame \in Seq(Byte) /\ Len(frame) = 36 /\ stream' = stream \o frame
  BY <1>2, FrameBytes DEF Send
<1> HIDE DEF frame
<1>5. /\ Len(stream') = Len(stream) + 36
      /\ \A k \in 1 .. Len(stream) : stream'[k] = stream[k]
      /\ \A k \in 1 .. 36 : stream'[Len(stream) + k] = frame[k]
  <2>1. /\ Len(stream \o frame) = Len(stream) + Len(frame)
        /\ \A k \in 1 .. Len(stream) : (stream \o frame)[k] = stream[k]
        /\ \A k \in 1 .. Len(frame) : (stream \o frame)[Len(stream) + k] = frame[k]
    <3>1. stream \in Seq(Byte) /\ frame \in Seq(Byte)
      BY <1>1, <1>4
    <3>2. QED BY <3>1, Behind, Zenon
  <2>2. QED BY <1>4, <2>1, Zenon
<1>6. /\ UNCHANGED <<overrun, told, got, valid, buf, parsing>>
      /\ Len(stream) = 36 * Len(sent)
      /\ got - valid = 36 * Len(told)
  BY DEF Send, Aligned
<1>7. \A j \in 1 .. Len(sent') : CrcMatch(sent'[j].hdr)
  <2>1. SUFFICES ASSUME NEW j \in 1 .. Len(sent') PROVE CrcMatch(sent'[j].hdr)
    OBVIOUS
  <2>2. CASE j = Len(sent) + 1
    BY <1>2, <1>3, <2>2
  <2>3. CASE j \in 1 .. Len(sent)
    BY <1>3, <2>3 DEF Aligned
  <2>4. QED BY <1>1, <1>3, <2>2, <2>3
<1>8. \A j \in 1 .. Len(sent'), k \in 1 .. 36 :
            stream'[36 * (j - 1) + k] = Frame(sent'[j])[k]
  <2>1. SUFFICES ASSUME NEW j \in 1 .. Len(sent'), NEW k \in 1 .. 36
                 PROVE  stream'[36 * (j - 1) + k] = Frame(sent'[j])[k]
    OBVIOUS
  <2>2. CASE j = Len(sent) + 1
    <3>1. 36 * (j - 1) + k = Len(stream) + k
      BY <1>1, <1>6, <2>2
    <3>2. QED BY <1>3, <1>5, <2>2, <3>1 DEF frame
  <2>3. CASE j \in 1 .. Len(sent)
    <3>1. 36 * (j - 1) + k \in 1 .. Len(stream)
      BY <1>1, <1>6, <2>3
    <3>2. stream[36 * (j - 1) + k] = Frame(sent[j])[k]
      BY <2>3 DEF Aligned
    <3>3. QED BY <1>3, <1>5, <2>3, <3>1, <3>2
  <2>4. QED BY <1>1, <1>3, <2>2, <2>3
<1>9. \A i \in 0 .. valid' - 1 : buf'[i] = stream'[36 * Len(told') + i + 1]
  <2>1. SUFFICES ASSUME NEW i \in 0 .. valid - 1
                 PROVE  buf[i] = stream'[36 * Len(told) + i + 1]
    BY <1>6
  <2>2. 36 * Len(told) + i + 1 \in 1 .. Len(stream)
    BY <1>1, <1>6
  <2>3. buf[i] = stream[36 * Len(told) + i + 1]
    BY DEF Aligned
  <2>4. QED BY <1>5, <2>2, <2>3
<1>10. Len(stream') = 36 * Len(sent')
  BY <1>1, <1>3, <1>5, <1>6
<1>11. \A j \in 1 .. Len(told') : j <= Len(sent') /\ told'[j] = sent'[j]
  <2>1. SUFFICES ASSUME NEW j \in 1 .. Len(told)
                 PROVE  j <= Len(sent') /\ told[j] = sent'[j]
    BY <1>6
  <2>2. j <= Len(sent) /\ told[j] = sent[j]
    BY DEF Aligned
  <2>3. j \in 1 .. Len(sent) /\ j <= Len(sent')
    BY <1>1, <1>3, <2>2
  <2>4. QED BY <1>3, <2>2, <2>3
<1>12. overrun' = "none" /\ (~parsing' => valid' < 36) /\ got' - valid' = 36 * Len(told')
  BY <1>6 DEF Aligned
<1>13. QED BY <1>7, <1>8, <1>9, <1>10, <1>11, <1>12 DEF Aligned

\* What recv returns fits behind the rest of a frame, and goes there.
LEMMA AlignedReceive ==
    ASSUME TypeOK, Aligned, NEW n \in RecvSizes, Receive(n)
    PROVE  Aligned'
<1>1. /\ n \in 1 .. BufLen - 35 /\ BufLen \in Nat
      /\ valid \in 0 .. BufLen /\ valid < 36
      /\ got \in Nat /\ Len(told) \in Nat
      /\ got - valid = 36 * Len(told)
  <2>1. got \in 0 .. Len(stream) /\ Len(stream) \in Nat /\ Len(told) \in Nat
    BY LenProperties DEF TypeOK
  <2>2. QED BY <2>1, RoomAssumption DEF TypeOK, Aligned, Receive
<1>2. Fits(n)
  BY <1>1 DEF Fits
<1>3. /\ buf' = Copied(buf, valid, n) /\ valid' = valid + n /\ got' = got + n
      /\ UNCHANGED <<overrun, sent, stream, told>> /\ parsing' = TRUE
  BY <1>2 DEF Receive
<1> DEFINE copy == Copied(buf, valid, n)
<1>4. \A i \in 0 .. valid + n - 1 : copy[i] = stream[36 * Len(told) + i + 1]
  <2> TAKE i \in 0 .. valid + n - 1
  <2>2. i \in 0 .. BufLen - 1
    BY <1>1
  <2>3. CASE i \in valid .. valid + n - 1
    <3>1. got + 1 + i - valid = 36 * Len(told) + i + 1
      BY <1>1
    <3>2. copy[i] = stream[got + 1 + i - valid]
      BY <2>2, <2>3 DEF Copied
    <3>3. QED BY <3>1, <3>2
  <2>4. CASE i \notin valid .. valid + n - 1
    <3>1. i \in 0 .. valid - 1
      BY <1>1, <2>4
    <3>2. copy[i] = buf[i]
      BY <2>2, <2>4 DEF Copied
    <3>3. QED BY <3>1, <3>2 DEF Aligned
  <2>5. QED BY <2>3, <2>4
<1>5. buf' = copy /\ valid' = valid + n
  BY <1>3
<1> HIDE DEF copy
<1>6. \A i \in 0 .. valid' - 1 : buf'[i] = stream[36 * Len(told) + i + 1]
  BY <1>1, <1>4, <1>5
<1>7. got' - valid' = 36 * Len(told)
  BY <1>1, <1>3
<1>8. QED BY <1>3, <1>6, <1>7 DEF Aligned

\* The loop hands over the frame at the start of the buffer, or waits for the
\* rest of it.
LEMMA AlignedParse ==
    ASSUME TypeOK, Aligned, Parse
    PROVE  Aligned'
<1>1. /\ Len(told) \in Nat /\ valid \in 0 .. BufLen /\ BufLen \in Nat
      /\ got \in Nat /\ got - valid = 36 * Len(told)
  <2>1. got \in 0 .. Len(stream) /\ Len(stream) \in Nat /\ Len(told) \in Nat
    BY LenProperties DEF TypeOK
  <2>2. QED BY <2>1, RoomAssumption DEF TypeOK, Aligned
<1>2. UNCHANGED <<sent, cuts, stream, got, overrun>>
  BY DEF Parse
<1>3. ASSUME told' = told, valid < 36, Consume(0)
      PROVE  Aligned'
  <2>1. valid' = valid /\ buf' = buf
    BY <1>1, <1>3 DEF Consume
  <2>2. QED BY <1>2, <1>3, <2>1 DEF Aligned
<1>4. CASE Nothing
  <2>1. valid < 12
    BY <1>4, StopsAtStart DEF Nothing, TypeOK
  <2>2. QED BY <1>1, <1>3, <1>4, <2>1 DEF Nothing
<1>5. ASSUME NEW i \in First, Await(i)
      PROVE  Aligned'
  <2>1. i = 0 /\ valid < 36
    BY <1>1, <1>5, StopsAtStart DEF Await
  <2>2. QED BY <1>3, <1>5, <2>1 DEF Await
<1>6. ASSUME NEW i \in First, Hand(i)
      PROVE  Aligned'
  <2> DEFINE m == sent[Len(told) + 1]
  <2>1. i = 0 /\ valid >= 36
    BY <1>1, <1>6, StopsAtStart DEF Hand
  <2>2. /\ Len(told) + 1 \in 1 .. Len(sent) /\ m \in Message
        /\ MsgLen(0) = 32 /\ HeaderAt(0) = m.hdr /\ BodyAt(0) = m.body
    BY <1>1, <2>1, FrameAtStart
  <2>3. told' = Append(told, m)
    <3>1. [hdr |-> m.hdr, body |-> m.body] = m
      BY <2>2 DEF Message
    <3>2. told' = Append(told, [hdr |-> HeaderAt(0), body |-> BodyAt(0)])
      BY <1>6, <2>1 DEF Hand
    <3>3. QED BY <2>2, <3>1, <3>2
  <2>4. Consume(36)
    <3>1. MsgLen(0) + 0 + 4 = 36
      BY <2>2
    <3>2. QED BY <1>6, <2>1, <3>1 DEF Hand
  <2> HIDE DEF m
  <2>5. /\ Len(told') = Len(told) + 1
        /\ \A j \in 1 .. Len(told) : told'[j] = told[j]
        /\ told'[Len(told) + 1] = m
    <3>1. told \in Seq(Message \cup {told[j] : j \in 1 .. Len(told)} \cup
                        [hdr : [1 .. 8 -> Byte], body : Seq(Byte)])
      <4>1. told \in Seq([hdr : [1 .. 8 -> Byte], body : Seq(Byte)])
        BY DEF TypeOK
      <4>2. QED BY <4>1, SeqMonotonic
    <3>2. QED BY <2>2, <2>3, <3>1, AppendProperties
  <2>6. /\ valid' = valid - 36
        /\ \A k \in 0 .. valid - 37 : buf'[k] = buf[k + 36]
        /\ ~parsing' => valid' = 0
    <3>1. valid' = valid - 36 /\ (~parsing' => valid' = 0)
      <4>1. valid' = valid - 36 /\ parsing' = (36 > 0 /\ 36 # valid)
        BY <2>4 DEF Consume
      <4>2. 36 > 0 /\ 36 - 36 = 0
        OBVIOUS
      <4>3. QED BY <4>1, <4>2, Zenon
    <3>2. ASSUME NEW k \in 0 .. valid - 37
          PROVE  buf'[k] = buf[k + 36]
      <4>1. k \in 0 .. BufLen - 1 /\ k < valid - 36 /\ 36 # valid
        BY <1>1
      <4>2. buf' = Moved(36, valid - 36)
        BY <2>4, <4>1 DEF Consume
      <4>3. QED BY <4>1, <4>2 DEF Moved
    <3>3. QED BY <3>1, <3>2
  <2>7. \A k \in 0 .. valid' - 1 : buf'[k] = stream'[36 * Len(told') + k + 1]
    <3>1. SUFFICES ASSUME NEW k \in 0 .. valid - 37
                   PROVE  buf'[k] = stream[36 * (Len(told) + 1) + k + 1]
      BY <1>1, <1>2, <2>5, <2>6
    <3>2. k + 36 \in 0 .. valid - 1
      BY <1>1
    <3>3. buf[k + 36] = stream[36 * Len(told) + (k + 36) + 1]
      BY <3>2 DEF Aligned
    <3>4. 36 * Len(told) + (k + 36) + 1 = 36 * (Len(told) + 1) + k + 1
      BY <1>1
    <3>5. QED BY <2>6, <3>3, <3>4
  <2>8. \A j \in 1 .. Len(told') : j <= Len(sent') /\ told'[j] = sent'[j]
    <3>1. SUFFICES ASSUME NEW j \in 1 .. Len(told) + 1
                   PROVE  j <= Len(sent) /\ told'[j] = sent[j]
      BY <1>2, <2>5
    <3>2. CASE j = Len(told) + 1
      BY <2>2, <2>5, <3>2 DEF m
    <3>3. CASE j \in 1 .. Len(told)
      BY <2>5, <3>3 DEF Aligned
    <3>4. QED BY <1>1, <3>2, <3>3
  <2>9. got' - valid' = 36 * Len(told')
    BY <1>1, <1>2, <2>5, <2>6
  <2>10. ~parsing' => valid' < 36
    BY <2>6
  <2>11. QED BY <1>2, <2>7, <2>8, <2>9, <2>10 DEF Aligned
<1>7. QED BY <1>4, <1>5, <1>6 DEF Parse

-----------------------------------------------------------------------------
(* With sends that are cut short: which requests stand whole in the stream,  *)
(* and where in the stream the frames are that were handed over.             *)

\* Request k stands in the stream from position f, to its last byte.
Whole(f, k) ==
    /\ f + 35 <= Len(stream)
    /\ \A i \in 1 .. 36 : stream[f + i - 1] = Frame(sent[k])[i]

\* All but the requests that were cut stand whole in the stream, in order.
Standing(off, cut) ==
    /\ Cardinality(cut) = cuts
    /\ \A k \in (1 .. Len(sent)) \ cut : Whole(off[k], k)
    /\ \A i, k \in (1 .. Len(sent)) \ cut : i < k => off[i] + 36 <= off[k]

Numbered ==
    \A k \in 1 .. Len(sent) : \E t \in Types : sent[k].hdr = Header(k - 1, t)

\* The position in the stream of the first byte that is still in the buffer.
Place == got - valid + 1

Kept ==
    /\ valid <= got
    /\ \A i \in 0 .. valid - 1 : buf[i] = stream[Place + i]

\* Message m was read from position p of the stream.
ReadFrom(p, m) ==
    /\ p \in Starts
    /\ m.hdr = HeaderFrom(p)
    /\ Len(m.body) = LengthFrom(p) - 8
    /\ \A i \in 1 .. Len(m.body) : m.body[i] = stream[p + 11 + i]

End(p) == p + LengthFrom(p) + 4

\* No message starts at position q, whatever is still to come.
NoStart(q) ==
    \/ q + 1 <= Len(stream) /\ ~(stream[q] = 36 /\ stream[q + 1] = 64)
    \/ q + 11 <= Len(stream) /\ q \notin Starts

\* The messages handed over were read one behind the other, and what was
\* passed over between them started none.
Read(pos) ==
    /\ \A j \in 1 .. Len(told) : ReadFrom(pos[j], told[j]) /\ End(pos[j]) <= Place
    /\ \A i, j \in 1 .. Len(told) : i < j => End(pos[i]) <= pos[j]
    /\ \A q \in 1 .. Place - 1 :
          NoStart(q) \/ \E j \in 1 .. Len(told) : pos[j] <= q /\ q < End(pos[j])

\* When the loop ends, no message is complete in the buffer.
Settled == ~parsing => valid < 12 \/ Stops = {} \/ (0 \in First /\ ~IsFrame(0))

Position(n) == [1 .. n -> Nat \ {0}]

CutInv ==
    /\ TypeOK
    /\ Numbered
    /\ \E off \in Position(Len(sent)), cut \in SUBSET (1 .. Len(sent)) : Standing(off, cut)
    /\ overrun = "none" =>
          /\ Kept
          /\ \E pos \in Position(Len(told)) : Read(pos)
          /\ Settled

\* The domains, in the form in which the steps need them.
LEMMA Domains ==
    ASSUME TypeOK
    PROVE  /\ sent \in Seq(Message) /\ Len(sent) \in Nat
           /\ \A k \in 1 .. Len(sent) : sent[k] \in Message
           /\ stream \in Seq(Byte) /\ Len(stream) \in Nat
           /\ \A p \in 1 .. Len(stream) : stream[p] \in Nat
           /\ told \in Seq([hdr : [1 .. 8 -> Byte], body : Seq(Byte)]) /\ Len(told) \in Nat
           /\ \A j \in 1 .. Len(told) : told[j] \in [hdr : [1 .. 8 -> Byte], body : Seq(Byte)]
           /\ got \in 0 .. Len(stream)
           /\ BufLen \in Nat /\ valid \in 0 .. BufLen
           /\ cuts \in Nat
<1>1. /\ sent \in Seq(Message) /\ stream \in Seq(Byte)
      /\ told \in Seq([hdr : [1 .. 8 -> Byte], body : Seq(Byte)])
      /\ got \in 0 .. Len(stream) /\ valid \in 0 .. BufLen /\ cuts \in Nat
  BY DEF TypeOK, Message
<1>2. /\ Len(sent) \in Nat /\ \A k \in 1 .. Len(sent) : sent[k] \in Message
  BY <1>1, LenProperties, ElementOfSeq
<1>3. /\ Len(stream) \in Nat /\ \A p \in 1 .. Len(stream) : stream[p] \in Byte
  BY <1>1, LenProperties, ElementOfSeq
<1>4. /\ Len(told) \in Nat
      /\ \A j \in 1 .. Len(told) : told[j] \in [hdr : [1 .. 8 -> Byte], body : Seq(Byte)]
  BY <1>1, LenProperties, ElementOfSeq
<1>5. \A b \in Byte : b \in Nat
  BY DEF Byte
<1>6. QED BY <1>1, <1>2, <1>3, <1>4, <1>5, RoomAssumption

\* The parser reads in its buffer what stands in the stream.
LEMMA Reads ==
    ASSUME TypeOK, Kept, NEW j \in 0 .. valid - 12
    PROVE  /\ Place + j \in 1 .. Len(stream) - 11
           /\ Magic(j) <=> stream[Place + j] = 36 /\ stream[Place + j + 1] = 64
           /\ MsgLen(j) = LengthFrom(Place + j) /\ MsgLen(j) \in Nat
           /\ HeaderAt(j) = HeaderFrom(Place + j)
<1>1. /\ Len(stream) \in Nat /\ got \in 0 .. Len(stream) /\ valid \in Nat /\ valid <= got
      /\ \A p \in 1 .. Len(stream) : stream[p] \in Nat
  BY Domains DEF Kept
<1>2. \A k \in 0 .. 11 : /\ buf[j + k] = stream[Place + j + k]
                         /\ Place + j + k \in 1 .. Len(stream)
  <2>1. TAKE k \in 0 .. 11
  <2>2. j + k \in 0 .. valid - 1 /\ Place + j + k \in 1 .. Len(stream)
    BY <1>1 DEF Place
  <2>3. buf[j + k] = stream[Place + (j + k)]
    BY <2>2 DEF Kept
  <2>4. Place + (j + k) = Place + j + k
    BY <1>1, <2>2 DEF Place
  <2>5. QED BY <2>2, <2>3, <2>4
<1>3. Place + j \in 1 .. Len(stream) - 11
  BY <1>1 DEF Place
<1>4. Magic(j) <=> stream[Place + j] = 36 /\ stream[Place + j + 1] = 64
  <2>1. buf[j + 0] = stream[Place + j + 0] /\ buf[j + 1] = stream[Place + j + 1]
    BY <1>2
  <2>2. j + 0 = j /\ Place + j + 0 = Place + j
    BY <1>3
  <2>3. QED BY <2>1, <2>2 DEF Magic
<1>5. MsgLen(j) = LengthFrom(Place + j) /\ MsgLen(j) \in Nat
  <2>1. /\ buf[j + 2] = stream[Place + j + 2] /\ buf[j + 3] = stream[Place + j + 3]
        /\ stream[Place + j + 2] \in Nat /\ stream[Place + j + 3] \in Nat
    <3>1. 2 \in 0 .. 11 /\ 3 \in 0 .. 11
      OBVIOUS
    <3>2. QED BY <1>1, <1>2, <3>1
  <2>2. QED BY <2>1 DEF MsgLen, LengthFrom
<1>6. HeaderAt(j) = HeaderFrom(Place + j)
  <2>1. \A k \in 1 .. 8 : buf[j + 3 + k] = stream[Place + j + 3 + k]
    <3>1. TAKE k \in 1 .. 8
    <3>2. 3 + k \in 0 .. 11 /\ j + (3 + k) = j + 3 + k /\ Place + j + (3 + k) = Place + j + 3 + k
      BY <1>3
    <3>3. buf[j + (3 + k)] = stream[Place + j + (3 + k)]
      BY <1>2, <3>2
    <3>4. QED BY <3>2, <3>3
  <2>2. QED BY <2>1 DEF HeaderAt, HeaderFrom
<1>7. QED BY <1>3, <1>4, <1>5, <1>6

\* ... and takes for the start of a frame what reads like one.
LEMMA ReadsStart ==
    ASSUME TypeOK, Kept, NEW j \in 0 .. valid - 12
    PROVE  Place + j \in Starts <=> Magic(j) /\ MsgLen(j) >= 8 /\ CrcMatch(HeaderAt(j))
BY Reads DEF Starts, CrcMatch

\* A position that the search passes over starts no message.
LEMMA SkippedIs ==
    ASSUME TypeOK, Kept, valid >= 12, NEW i \in First, NEW j \in 0 .. i - 1
    PROVE  NoStart(Place + j)
<1>1. /\ valid \in Nat /\ got \in Nat /\ Len(stream) \in Nat /\ got <= Len(stream)
      /\ valid <= got
  BY Domains DEF Kept
<1>2. i \in 0 .. valid - 3 /\ j \in 0 .. valid - 3 /\ ~IsFrame(j) /\ ~MayBecomeFrame(j)
  <2>1. i \in 0 .. valid - 3 /\ \A k \in Stops : i <= k
    BY DEF First, Stops
  <2>2. j \in 0 .. valid - 3 /\ j \notin Stops
    BY <1>1, <2>1
  <2>3. QED BY <2>1, <2>2 DEF Stops
<1>3. CASE valid - j < 12
  <2>1. ~Magic(j)
    BY <1>2, <1>3 DEF MayBecomeFrame
  <2>2. j \in 0 .. valid - 1 /\ j + 1 \in 0 .. valid - 1 /\ Place + (j + 1) = Place + j + 1
    BY <1>1, <1>2 DEF Place
  <2>3. buf[j] = stream[Place + j] /\ buf[j + 1] = stream[Place + j + 1]
    BY <2>2 DEF Kept
  <2>4. Place + j + 1 <= Len(stream)
    BY <1>1, <1>2 DEF Place
  <2>5. QED BY <2>1, <2>3, <2>4 DEF NoStart, Magic
<1>4. CASE ~(valid - j < 12)
  <2>1. j \in 0 .. valid - 12
    BY <1>1, <1>2, <1>4
  <2>2. ~(Magic(j) /\ MsgLen(j) >= 8 /\ CrcMatch(HeaderAt(j)))
    <3>1. SUFFICES ASSUME Magic(j), MsgLen(j) >= 8, CrcMatch(HeaderAt(j)) PROVE FALSE
      OBVIOUS
    <3>2. MsgLen(j) \in Nat
      BY <2>1, Reads
    <3>3. MsgLen(j) + j + 4 <= valid
      BY <1>1, <1>2, <3>1, <3>2 DEF MayBecomeFrame
    <3>4. valid - j >= 12
      BY <1>1, <2>1
    <3>5. QED BY <1>2, <3>1, <3>3, <3>4 DEF IsFrame
  <2>3. Place + j \notin Starts /\ Place + j \in 1 .. Len(stream) - 11
    BY <2>1, <2>2, Reads, ReadsStart
  <2>4. QED BY <1>1, <2>3 DEF NoStart
<1>5. QED BY <1>3, <1>4

LEMMA LengthIs ==
    ASSUME TypeOK, NEW p \in 1 .. Len(stream) - 11
    PROVE  LengthFrom(p) \in Nat
<1>1. p + 2 \in 1 .. Len(stream) /\ p + 3 \in 1 .. Len(stream)
  BY Domains
<1>2. stream[p + 2] \in Nat /\ stream[p + 3] \in Nat
  BY <1>1, Domains
<1>3. \A a, b \in Nat : a * 256 + b \in Nat
  OBVIOUS
<1>4. QED BY <1>2, <1>3 DEF LengthFrom

\* More bytes in the stream change nothing of those that are there.
LEMMA Grown ==
    ASSUME TypeOK, NEW x \in Seq(Byte), stream' = stream \o x
    PROVE  /\ Len(stream') \in Nat /\ Len(stream') = Len(stream) + Len(x)
           /\ \A p \in 1 .. Len(stream) : stream'[p] = stream[p]
           /\ \A k \in 1 .. Len(x) : stream'[Len(stream) + k] = x[k]
           /\ \A p \in 1 .. Len(stream) - 11 :
                 /\ LengthFrom(p)' = LengthFrom(p) /\ HeaderFrom(p)' = HeaderFrom(p)
                 /\ p \in Starts' <=> p \in Starts
           /\ \A q \in Nat \ {0} : NoStart(q) => NoStart(q)'
<1>1. stream \in Seq(Byte) /\ Len(stream) \in Nat /\ Len(x) \in Nat
  BY Domains, LenProperties
<1>2. /\ Len(stream') = Len(stream) + Len(x)
      /\ \A p \in 1 .. Len(stream) : stream'[p] = stream[p]
      /\ \A k \in 1 .. Len(x) : stream'[Len(stream) + k] = x[k]
  <2>1. /\ Len(stream \o x) = Len(stream) + Len(x)
        /\ \A p \in 1 .. Len(stream) : (stream \o x)[p] = stream[p]
        /\ \A k \in 1 .. Len(x) : (stream \o x)[Len(stream) + k] = x[k]
    BY <1>1, Behind, Zenon
  <2>2. QED BY <2>1, Zenon
<1>3. ASSUME NEW p \in 1 .. Len(stream) - 11
      PROVE  /\ LengthFrom(p)' = LengthFrom(p) /\ HeaderFrom(p)' = HeaderFrom(p)
             /\ p \in Starts' <=> p \in Starts
  <2>1. \A k \in 0 .. 11 : stream'[p + k] = stream[p + k]
    BY <1>1, <1>2
  <2>2. /\ stream'[p] = stream[p] /\ stream'[p + 1] = stream[p + 1]
        /\ stream'[p + 2] = stream[p + 2] /\ stream'[p + 3] = stream[p + 3]
    <3>1. 0 \in 0 .. 11 /\ 1 \in 0 .. 11 /\ 2 \in 0 .. 11 /\ 3 \in 0 .. 11 /\ p + 0 = p
      BY <1>1
    <3>2. QED BY <2>1, <3>1
  <2>3. HeaderFrom(p)' = HeaderFrom(p)
    <3>1. \A k \in 1 .. 8 : stream'[p + 3 + k] = stream[p + 3 + k]
      <4>1. TAKE k \in 1 .. 8
      <4>2. 3 + k \in 0 .. 11 /\ p + (3 + k) = p + 3 + k
        BY <1>1
      <4>3. stream'[p + (3 + k)] = stream[p + (3 + k)]
        BY <2>1, <4>2
      <4>4. QED BY <4>2, <4>3
    <3>2. QED BY <3>1 DEF HeaderFrom
  <2>4. LengthFrom(p)' = LengthFrom(p)
    BY <2>2 DEF LengthFrom
  <2>5. p \in 1 .. Len(stream') - 11
    BY <1>1, <1>2
  <2>6. p \in Starts' <=> p \in Starts
    BY <2>2, <2>3, <2>4, <2>5 DEF Starts
  <2>7. QED BY <2>3, <2>4, <2>6
<1>4. ASSUME NEW q \in Nat \ {0}, NoStart(q)
      PROVE  NoStart(q)'
  <2>1. CASE q + 1 <= Len(stream) /\ ~(stream[q] = 36 /\ stream[q + 1] = 64)
    <3>1. stream'[q] = stream[q] /\ stream'[q + 1] = stream[q + 1] /\ q + 1 <= Len(stream')
      BY <1>1, <1>2, <2>1
    <3>2. QED BY <2>1, <3>1 DEF NoStart
  <2>2. CASE q + 11 <= Len(stream) /\ q \notin Starts
    <3>1. q \in 1 .. Len(stream) - 11 /\ q + 11 <= Len(stream')
      BY <1>1, <1>2, <2>2
    <3>2. QED BY <1>3, <2>2, <3>1 DEF NoStart
  <2>3. QED BY <1>4, <2>1, <2>2 DEF NoStart
<1>5. QED BY <1>1, <1>2, <1>3, <1>4

\* ... nor what has been read from it.
LEMMA ReadStays ==
    ASSUME TypeOK, Kept, NEW x \in Seq(Byte), stream' = stream \o x,
           UNCHANGED <<got, buf, valid, parsing, told>>,
           NEW pos \in Position(Len(told)), Read(pos)
    PROVE  Kept' /\ Read(pos)' /\ Place' = Place
<1>1. /\ got \in 0 .. Len(stream) /\ valid \in Nat /\ valid <= got /\ Len(stream) \in Nat
      /\ Len(told) \in Nat
  BY Domains DEF Kept
<1>2. Place' = Place /\ Place \in Nat /\ Place - 1 \in Nat /\ Place + valid - 1 <= Len(stream)
  BY <1>1 DEF Place
<1>3. Kept'
  <2>1. ASSUME NEW i \in 0 .. valid - 1
        PROVE  buf[i] = stream'[Place + i]
    <3>1. Place + i \in 1 .. Len(stream)
      BY <1>1, <1>2
    <3>2. buf[i] = stream[Place + i]
      BY DEF Kept
    <3>3. QED BY <3>1, <3>2, Grown
  <2>2. valid' <= got'
    BY <1>1
  <2>3. QED BY <1>2, <2>1, <2>2 DEF Kept
<1>4. ASSUME NEW p \in Nat \ {0}, NEW m \in [hdr : [1 .. 8 -> Byte], body : Seq(Byte)],
             ReadFrom(p, m), End(p) <= Place
      PROVE  ReadFrom(p, m)' /\ End(p)' = End(p)
  <2>1. /\ p \in Starts /\ p \in 1 .. Len(stream) - 11 /\ m.hdr = HeaderFrom(p)
        /\ Len(m.body) = LengthFrom(p) - 8
        /\ \A i \in 1 .. Len(m.body) : m.body[i] = stream[p + 11 + i]
    BY <1>4 DEF ReadFrom, Starts
  <2>2. /\ LengthFrom(p)' = LengthFrom(p) /\ HeaderFrom(p)' = HeaderFrom(p)
        /\ p \in Starts'
    BY <2>1, Grown
  <2>3. LengthFrom(p) \in Nat
    BY <1>1, <2>1, LengthIs
  <2>4. \A i \in 1 .. Len(m.body) : m.body[i] = stream'[p + 11 + i]
    <3>1. TAKE i \in 1 .. Len(m.body)
    <3>2. p + 11 + i \in 1 .. Len(stream)
      <4>1. p + LengthFrom(p) + 4 <= Place /\ i <= LengthFrom(p) - 8 /\ i \in Nat /\ i >= 1
        BY <1>4, <2>1, <2>3 DEF End
      <4>2. p \in Nat /\ p >= 1 /\ Place \in Nat /\ Place <= Len(stream) + 1
        BY <1>1, <1>2
      <4>3. Len(stream) \in Nat
        BY <1>1
      <4>4. \A l, e, n \in Nat : p + l + 4 <= e /\ i <= l - 8 /\ e <= n + 1
                               => p + 11 + i \in 1 .. n
        BY <4>1, <4>2
      <4>5. QED BY <2>3, <4>1, <4>2, <4>3, <4>4
    <3>3. stream'[p + 11 + i] = stream[p + 11 + i]
      BY <3>2, Grown
    <3>4. QED BY <2>1, <3>3
  <2>5. ReadFrom(p, m)'
    BY <2>1, <2>2, <2>4 DEF ReadFrom
  <2>6. End(p)' = End(p)
    BY <2>2 DEF End
  <2>7. QED BY <2>5, <2>6
<1>5. ASSUME NEW j \in 1 .. Len(told)
      PROVE  /\ ReadFrom(pos[j], told[j])' /\ End(pos[j])' = End(pos[j])
             /\ End(pos[j]) <= Place
  <2>1. pos[j] \in Nat \ {0} /\ told[j] \in [hdr : [1 .. 8 -> Byte], body : Seq(Byte)]
    BY <1>1, Domains DEF Position
  <2>2. ReadFrom(pos[j], told[j]) /\ End(pos[j]) <= Place
    BY DEF Read
  <2>3. told'[j] = told[j]
    OBVIOUS
  <2>4. QED BY <1>4, <2>1, <2>2, <2>3
<1>6. \A q \in 1 .. Place - 1 :
         NoStart(q)' \/ \E j \in 1 .. Len(told) : pos[j] <= q /\ q < End(pos[j])'
  <2>1. TAKE q \in 1 .. Place - 1
  <2>2. NoStart(q) \/ \E j \in 1 .. Len(told) : pos[j] <= q /\ q < End(pos[j])
    BY DEF Read
  <2>3. NoStart(q) => NoStart(q)'
    <3>1. q \in Nat \ {0}
      BY <1>2
    <3>2. QED BY <3>1, Grown
  <2>4. QED BY <1>5, <2>2, <2>3
<1>7. \A i, j \in 1 .. Len(told) : i < j => End(pos[i])' <= pos[j]
  BY <1>5 DEF Read
<1>8. Read(pos)'
  BY <1>2, <1>5, <1>6, <1>7 DEF Read
<1>9. QED BY <1>2, <1>3, <1>8

\* A new request leaves the others where they are.
LEMMA StandingStays ==
    ASSUME TypeOK, Numbered, Len(sent) < MaxSent, NEW m \in Requests, NEW x \in Seq(Byte),
           sent' = Append(sent, m), stream' = stream \o x
    PROVE  /\ Numbered'
           /\ Len(sent') = Len(sent) + 1
           /\ \A f \in Nat \ {0}, k \in 1 .. Len(sent) : Whole(f, k) => Whole(f, k)'
           /\ x = Frame(m) =>
                 \A f, k : f = Len(stream) + 1 /\ k = Len(sent) + 1 => Whole(f, k)'
<1>1. sent \in Seq(Message) /\ Len(sent) \in Nat /\ Len(stream) \in Nat /\ m \in Message
  BY Domains, RequestType
<1>2. /\ Len(sent') = Len(sent) + 1
      /\ \A k \in 1 .. Len(sent) : sent'[k] = sent[k]
      /\ sent'[Len(sent) + 1] = m
  BY <1>1, AppendProperties
<1>3. Numbered'
  <2>1. PICK t \in Types, b \in Bodies : m = [hdr |-> Header(Len(sent), t), body |-> b]
    BY DEF Requests
  <2>2. m.hdr = Header((Len(sent) + 1) - 1, t)
    BY <1>1, <2>1
  <2>3. ASSUME NEW k \in 1 .. Len(sent')
        PROVE  \E u \in Types : sent'[k].hdr = Header(k - 1, u)
    <3>1. CASE k = Len(sent) + 1
      BY <1>2, <2>2, <3>1
    <3>2. CASE k \in 1 .. Len(sent)
      BY <1>2, <3>2 DEF Numbered
    <3>3. QED BY <1>1, <1>2, <3>1, <3>2
  <2>4. QED BY <2>3 DEF Numbered
<1>4. ASSUME NEW f \in Nat \ {0}, NEW k \in 1 .. Len(sent), Whole(f, k)
      PROVE  Whole(f, k)'
  <2>1. f + 35 <= Len(stream) /\ \A i \in 1 .. 36 : stream[f + i - 1] = Frame(sent[k])[i]
    BY <1>4 DEF Whole
  <2>2. f + 35 <= Len(stream')
    BY <1>1, <2>1, Grown, LenProperties
  <2>3. \A i \in 1 .. 36 : stream'[f + i - 1] = stream[f + i - 1]
    <3>1. TAKE i \in 1 .. 36
    <3>2. f + i - 1 \in 1 .. Len(stream)
      <4>1. f \in Nat /\ f >= 1 /\ f + 35 <= Len(stream)
        BY <2>1
      <4>2. QED BY <1>1, <4>1
    <3>3. QED BY <3>2, Grown
  <2>4. QED BY <1>2, <2>1, <2>2, <2>3 DEF Whole
<1>5. ASSUME x = Frame(m), NEW f, NEW k, f = Len(stream) + 1, k = Len(sent) + 1
      PROVE  Whole(f, k)'
  <2>1. Len(x) = 36
    BY <1>1, <1>5, FrameBytes
  <2>2. /\ Len(stream') = Len(stream) + 36
        /\ \A i \in 1 .. 36 : stream'[Len(stream) + i] = x[i]
    BY <2>1, Grown
  <2>3. \A i \in 1 .. 36 : f + i - 1 = Len(stream) + i
    BY <1>1, <1>5
  <2>4. f + 35 <= Len(stream')
    BY <1>1, <1>5, <2>2
  <2>5. \A i \in 1 .. 36 : stream'[f + i - 1] = Frame(sent'[k])[i]
    BY <1>2, <1>5, <2>2, <2>3
  <2>6. QED BY <2>4, <2>5 DEF Whole
<1>6. QED BY <1>2, <1>3, <1>4, <1>5

\* What recv returns goes behind what is in the buffer.
LEMMA KeptReceive ==
    ASSUME TypeOK, Kept, NEW n \in RecvSizes, Receive(n), overrun' = "none"
    PROVE  Kept' /\ Place' = Place
<1>1. /\ n \in Nat /\ n >= 1 /\ BufLen \in Nat
      /\ valid \in Nat /\ got \in Nat /\ valid <= got
  BY Domains, RoomAssumption DEF Kept
<1>2. Fits(n)
  BY DEF Receive
<1>3. /\ buf' = Copied(buf, valid, n) /\ valid' = valid + n /\ got' = got + n
      /\ stream' = stream
  BY <1>2 DEF Receive
<1>4. Place' = Place
  BY <1>1, <1>3 DEF Place
<1> DEFINE copy == Copied(buf, valid, n)
<1>5. ASSUME NEW i \in 0 .. valid + n - 1
      PROVE  copy[i] = stream[Place + i]
  <2>1. i \in 0 .. BufLen - 1
    BY <1>1, <1>2 DEF Fits
  <2>2. CASE i \in valid .. valid + n - 1
    <3>1. got + 1 + i - valid = Place + i
      BY <1>1 DEF Place
    <3>2. copy[i] = stream[got + 1 + i - valid]
      BY <2>1, <2>2 DEF Copied
    <3>3. QED BY <3>1, <3>2
  <2>3. CASE i \notin valid .. valid + n - 1
    <3>1. i \in 0 .. valid - 1
      BY <1>1, <2>3
    <3>2. copy[i] = buf[i]
      BY <2>1, <2>3 DEF Copied
    <3>3. QED BY <3>1, <3>2 DEF Kept
  <2>4. QED BY <2>2, <2>3
<1>6. buf' = copy
  BY <1>3
<1> HIDE DEF copy
<1>7. \A i \in 0 .. valid' - 1 : buf'[i] = stream'[Place' + i]
  <2>1. \A i \in 0 .. valid + n - 1 : buf'[i] = stream[Place + i]
    BY <1>5, <1>6
  <2>2. valid' = valid + n /\ stream' = stream
    BY <1>3
  <2>3. QED BY <1>1, <1>4, <2>1, <2>2
<1>8. valid' <= got'
  BY <1>1, <1>3
<1>9. QED BY <1>4, <1>7, <1>8 DEF Kept

\* Consuming n bytes moves the place by n.
LEMMA KeptConsume ==
    ASSUME TypeOK, Kept, NEW n \in 0 .. valid, Consume(n), UNCHANGED <<got, stream>>
    PROVE  Kept' /\ Place' = Place + n /\ valid' = valid - n
<1>1. /\ BufLen \in Nat /\ valid \in 0 .. BufLen /\ got \in Nat /\ valid <= got
      /\ n \in Nat
  BY Domains DEF Kept
<1>2. valid' = valid - n /\ buf' = IF n > 0 /\ n # valid THEN Moved(n, valid - n) ELSE buf
  BY DEF Consume
<1>3. Place' = Place + n /\ valid' <= got' /\ Place \in Nat
  BY <1>1, <1>2 DEF Place
<1>4. ASSUME NEW i \in 0 .. valid - n - 1
      PROVE  buf'[i] = stream[Place + n + i]
  <2>1. i + n \in 0 .. valid - 1 /\ Place + (i + n) = Place + n + i /\ i \in 0 .. BufLen - 1
    BY <1>1, <1>3
  <2>2. buf[i + n] = stream[Place + (i + n)]
    BY <2>1 DEF Kept
  <2>3. CASE n = 0
    BY <1>1, <1>2, <2>1, <2>2, <2>3
  <2>4. CASE n # 0
    <3>1. n > 0 /\ n # valid /\ i < valid - n
      BY <1>1, <2>4
    <3>2. buf'[i] = buf[i + n]
      BY <1>2, <2>1, <3>1 DEF Moved
    <3>3. QED BY <2>1, <2>2, <3>2
  <2>5. QED BY <2>3, <2>4
<1>5. \A i \in 0 .. valid' - 1 : buf'[i] = stream'[Place' + i]
  BY <1>2, <1>3, <1>4
<1>6. QED BY <1>2, <1>3, <1>5 DEF Kept

\* A search that finds nothing to do leaves everything as it is.
LEMMA SettledAgain ==
    ASSUME TypeOK, Consume(0), valid < 12 \/ Stops = {} \/ (0 \in First /\ ~IsFrame(0))
    PROVE  Settled'
<1>1. valid' = valid /\ buf' = buf
  BY Domains DEF Consume
<1>2. Stops' = Stops /\ First' = First /\ IsFrame(0)' = IsFrame(0)
  BY <1>1 DEF Stops, First, IsFrame, MayBecomeFrame, Magic, MsgLen, HeaderAt, CrcMatch
<1>3. QED BY <1>1, <1>2 DEF Settled

\* The parser hands over what it found, or skips what starts no message.
LEMMA ReadParse ==
    ASSUME TypeOK, Kept, NEW pos \in Position(Len(told)), Read(pos), Parse
    PROVE  Kept' /\ Settled' /\ \E new \in Position(Len(told')) : Read(new)'
<1>1. /\ BufLen \in Nat /\ valid \in Nat /\ got \in Nat /\ valid <= got
      /\ Len(told) \in Nat /\ Len(stream) \in Nat /\ got <= Len(stream)
      /\ Place \in Nat /\ Place >= 1
  BY Domains DEF Kept, Place
<1>2. UNCHANGED <<sent, cuts, stream, got, overrun>>
  BY DEF Parse
<1>3. /\ \A q \in Nat : NoStart(q)' <=> NoStart(q)
      /\ \A p, m : ReadFrom(p, m)' <=> ReadFrom(p, m)
      /\ \A p : End(p)' = End(p)
  BY <1>2 DEF NoStart, ReadFrom, End, Starts, HeaderFrom, LengthFrom
<1>4. ASSUME NEW i \in Nat, told' = told, Place' = Place + i,
             \A j \in 0 .. i - 1 : NoStart(Place + j)
      PROVE  \E new \in Position(Len(told')) : Read(new)'
  <2>1. ASSUME NEW q \in 1 .. Place' - 1
        PROVE  NoStart(q)' \/ \E j \in 1 .. Len(told) : pos[j] <= q /\ q < End(pos[j])
    <3>1. CASE q \in 1 .. Place - 1
      BY <1>3, <3>1 DEF Read
    <3>2. CASE q \notin 1 .. Place - 1
      <4>1. q - Place \in 0 .. i - 1 /\ Place + (q - Place) = q /\ q \in Nat
        BY <1>1, <1>4, <3>2
      <4>2. NoStart(Place + (q - Place))
        BY <1>4, <4>1
      <4>3. QED BY <1>3, <4>1, <4>2
    <3>3. QED BY <3>1, <3>2
  <2>2. ASSUME NEW j \in 1 .. Len(told)
        PROVE  ReadFrom(pos[j], told[j]) /\ End(pos[j]) <= Place'
    <3>1. ReadFrom(pos[j], told[j]) /\ End(pos[j]) <= Place
      BY DEF Read
    <3>2. End(pos[j]) \in Int
      <4>1. pos[j] \in 1 .. Len(stream) - 11
        BY <3>1 DEF ReadFrom, Starts
      <4>2. LengthFrom(pos[j]) \in Nat
        BY <4>1, LengthIs
      <4>3. QED BY <4>1, <4>2 DEF End
    <3>3. QED BY <1>1, <1>4, <3>1, <3>2
  <2>3. \A j, k \in 1 .. Len(told) : j < k => End(pos[j]) <= pos[k]
    BY DEF Read
  <2>4. Read(pos)'
    BY <1>3, <1>4, <2>1, <2>2, <2>3 DEF Read
  <2>5. QED BY <1>4, <2>4
<1>5. CASE Nothing
  <2>1. Consume(0) /\ told' = told /\ (valid < 12 \/ Stops = {})
    BY <1>5 DEF Nothing
  <2>2. Kept' /\ Place' = Place + 0
    BY <1>1, <1>2, <2>1, KeptConsume
  <2>3. \E new \in Position(Len(told')) : Read(new)'
    BY <1>1, <1>4, <2>1, <2>2
  <2>4. Settled'
    BY <2>1, SettledAgain
  <2>5. QED BY <2>2, <2>3, <2>4
<1>6. ASSUME NEW i \in First, Await(i)
      PROVE  Kept' /\ Settled' /\ \E new \in Position(Len(told')) : Read(new)'
  <2>1. Consume(i) /\ told' = told /\ valid >= 12 /\ ~IsFrame(i)
    BY <1>6 DEF Await
  <2>2. i \in 0 .. valid - 3
    BY DEF First, Stops
  <2>3. Kept' /\ Place' = Place + i
    BY <1>1, <1>2, <2>1, <2>2, KeptConsume
  <2>4. \A j \in 0 .. i - 1 : NoStart(Place + j)
    BY <2>1, SkippedIs
  <2>5. \E new \in Position(Len(told')) : Read(new)'
    BY <1>4, <2>1, <2>2, <2>3, <2>4
  <2>6. Settled'
    <3>1. CASE i = 0
      BY <2>1, <3>1, SettledAgain
    <3>2. CASE i # 0
      <4>1. i > 0 /\ i # valid
        BY <1>1, <2>2, <3>2
      <4>2. parsing'
        BY <2>1, <4>1 DEF Consume
      <4>3. QED BY <4>2 DEF Settled
    <3>3. QED BY <3>1, <3>2
  <2>7. QED BY <2>3, <2>5, <2>6
<1>7. ASSUME NEW i \in First, Hand(i)
      PROVE  Kept' /\ Settled' /\ \E new \in Position(Len(told')) : Read(new)'
  <2> DEFINE p == Place + i
             n == MsgLen(i) + i + 4
             m == [hdr |-> HeaderAt(i), body |-> BodyAt(i)]
  <2>1. Consume(n) /\ told' = Append(told, m) /\ valid >= 12 /\ IsFrame(i)
    BY <1>7 DEF Hand
  <2>2. i \in 0 .. valid - 3 /\ valid - i >= 12
    BY <2>1 DEF First, Stops, IsFrame
  <2>3. i \in 0 .. valid - 12
    BY <1>1, <2>2
  <2>4. /\ HeaderAt(i) \in [1 .. 8 -> Byte] /\ BodyAt(i) \in Seq(Byte) /\ n \in 0 .. valid
    BY <2>1, <2>2, HandedType
  <2>5. /\ p \in Starts /\ p \in 1 .. Len(stream) - 11
        /\ MsgLen(i) = LengthFrom(p) /\ MsgLen(i) \in Nat /\ MsgLen(i) >= 8
        /\ HeaderAt(i) = HeaderFrom(p)
    <3>1. Magic(i) /\ MsgLen(i) >= 8 /\ CrcMatch(HeaderAt(i))
      BY <2>1 DEF IsFrame
    <3>2. QED BY <2>3, <3>1, Reads, ReadsStart
  <2>6. Len(BodyAt(i)) = MsgLen(i) - 8 /\ \A k \in 1 .. MsgLen(i) - 8 : BodyAt(i)[k] = stream[p + 11 + k]
    <3>1. Len(BodyAt(i)) = MsgLen(i) - 8
      <4>1. BodyAt(i) \in Seq(Byte) /\ DOMAIN BodyAt(i) = 1 .. MsgLen(i) - 8
        BY <2>4 DEF BodyAt
      <4>2. MsgLen(i) - 8 \in Nat
        BY <2>5
      <4>3. QED BY <4>1, <4>2, LenProperties
    <3>2. ASSUME NEW k \in 1 .. MsgLen(i) - 8
          PROVE  BodyAt(i)[k] = stream[p + 11 + k]
      <4>1. i + 11 + k \in 0 .. valid - 1
        <5>1. i \in Nat /\ MsgLen(i) \in Nat /\ n <= valid /\ k \in Nat /\ k <= MsgLen(i) - 8
          BY <2>2, <2>4, <2>5
        <5>2. \A l \in Nat : l + i + 4 <= valid /\ k <= l - 8 => i + 11 + k \in 0 .. valid - 1
          BY <1>1, <5>1
        <5>3. QED BY <5>1, <5>2
      <4>2. buf[i + 11 + k] = stream[Place + (i + 11 + k)]
        BY <4>1 DEF Kept
      <4>3. Place + (i + 11 + k) = p + 11 + k
        BY <1>1, <2>2, <4>1
      <4>4. QED BY <4>2, <4>3 DEF BodyAt
    <3>3. QED BY <3>1, <3>2
  <2>7. ReadFrom(p, m) /\ End(p) = Place + n
    <3>1. ReadFrom(p, m)
      BY <2>5, <2>6 DEF ReadFrom
    <3>2. End(p) = Place + n
      <4>1. \A a, b, l \in Nat : a + b + l + 4 = a + (l + b + 4)
        OBVIOUS
      <4>2. End(p) = Place + i + MsgLen(i) + 4 /\ i \in Nat /\ MsgLen(i) \in Nat
        BY <2>2, <2>5 DEF End
      <4>3. QED BY <1>1, <4>1, <4>2
    <3>3. QED BY <3>1, <3>2
  <2>8. Kept' /\ Place' = Place + n /\ valid' = valid - n
    BY <1>2, <2>1, <2>4, KeptConsume
  <2>9. /\ Len(told') = Len(told) + 1
        /\ \A j \in 1 .. Len(told) : told'[j] = told[j]
        /\ told'[Len(told) + 1] = m
    <3>1. told \in Seq([hdr : [1 .. 8 -> Byte], body : Seq(Byte)])
      BY Domains
    <3>2. m \in [hdr : [1 .. 8 -> Byte], body : Seq(Byte)]
      BY <2>4
    <3>3. QED BY <2>1, <3>1, <3>2, AppendProperties
  <2>10. Settled'
    <3>1. ~parsing' => valid' = 0
      <4>1. n > 0
        <5>1. i \in Nat /\ MsgLen(i) \in Nat
          BY <2>2, <2>5
        <5>2. \A l \in Nat : l + i + 4 > 0
          BY <5>1
        <5>3. QED BY <5>1, <5>2
      <4>2. ~parsing' => n = valid
        BY <2>1, <4>1 DEF Consume
      <4>3. QED BY <1>1, <2>8, <4>2
    <3>2. QED BY <3>1 DEF Settled
  <2> HIDE DEF p, n, m
  <2> DEFINE new == [j \in 1 .. Len(told) + 1 |-> IF j = Len(told) + 1 THEN p ELSE pos[j]]
  <2>11. /\ new \in Position(Len(told) + 1)
         /\ new[Len(told) + 1] = p
         /\ \A j \in 1 .. Len(told) : new[j] = pos[j] /\ j \in 1 .. Len(told) + 1
    BY <1>1, <2>5 DEF Position
  <2> HIDE DEF new
  <2>12. p >= Place /\ p \in Nat /\ n \in Nat
    BY <1>1, <2>2, <2>4 DEF p
  <2>13. ASSUME NEW j \in 1 .. Len(told)
         PROVE  ReadFrom(pos[j], told[j]) /\ End(pos[j]) <= Place /\ End(pos[j]) \in Int
    <3>1. ReadFrom(pos[j], told[j]) /\ End(pos[j]) <= Place
      BY DEF Read
    <3>2. pos[j] \in 1 .. Len(stream) - 11
      BY <3>1 DEF ReadFrom, Starts
    <3>3. LengthFrom(pos[j]) \in Nat
      BY <3>2, LengthIs
    <3>4. QED BY <3>1, <3>2, <3>3 DEF End
  <2>14. ASSUME NEW j \in 1 .. Len(told')
         PROVE  ReadFrom(new[j], told'[j]) /\ End(new[j]) <= Place'
    <3>1. CASE j = Len(told) + 1
      <4>1. new[j] = p /\ told'[j] = m /\ End(p) <= Place'
        BY <1>1, <2>7, <2>8, <2>9, <2>11, <2>12, <3>1
      <4>2. QED BY <2>7, <4>1
    <3>2. CASE j \in 1 .. Len(told)
      <4>1. new[j] = pos[j] /\ told'[j] = told[j]
        BY <2>9, <2>11, <3>2
      <4>2. End(pos[j]) <= Place'
        BY <1>1, <2>8, <2>12, <2>13, <3>2
      <4>3. QED BY <2>13, <3>2, <4>1, <4>2
    <3>3. QED BY <1>1, <2>9, <3>1, <3>2
  <2>15. ASSUME NEW j \in 1 .. Len(told'), NEW k \in 1 .. Len(told'), j < k
         PROVE  End(new[j]) <= new[k]
    <3>1. j \in 1 .. Len(told)
      BY <1>1, <2>9, <2>15
    <3>2. CASE k = Len(told) + 1
      BY <1>1, <2>11, <2>12, <2>13, <3>1, <3>2
    <3>3. CASE k \in 1 .. Len(told)
      <4>1. End(pos[j]) <= pos[k]
        BY <2>15, <3>1, <3>3 DEF Read
      <4>2. QED BY <2>11, <3>1, <3>3, <4>1
    <3>4. QED BY <1>1, <2>9, <3>2, <3>3
  <2>16. ASSUME NEW q \in 1 .. Place' - 1
         PROVE  NoStart(q) \/ \E j \in 1 .. Len(told') : new[j] <= q /\ q < End(new[j])
    <3>1. CASE q \in 1 .. Place - 1
      <4>1. NoStart(q) \/ \E j \in 1 .. Len(told) : pos[j] <= q /\ q < End(pos[j])
        BY <3>1 DEF Read
      <4>2. QED BY <2>9, <2>11, <4>1
    <3>2. CASE q \in Place .. p - 1
      <4>1. q - Place \in 0 .. i - 1 /\ Place + (q - Place) = q
        BY <1>1, <2>2, <3>2 DEF p
      <4>2. QED BY <2>1, <4>1, SkippedIs
    <3>3. CASE q >= p
      <4>1. Len(told) + 1 \in 1 .. Len(told') /\ p <= q /\ q < End(p)
        BY <1>1, <2>7, <2>8, <2>9, <2>12, <3>3
      <4>2. QED BY <2>11, <4>1
    <3>4. QED BY <1>1, <2>12, <3>1, <3>2, <3>3
  <2>17. \E x \in Position(Len(told')) : Read(x)'
    <3>1. \A x \in Position(Len(told')) : x = new => Read(x)'
      <4>1. TAKE x \in Position(Len(told'))
      <4>2. HAVE x = new
      <4>3. \A j \in 1 .. Len(told') : ReadFrom(x[j], told[j])' /\ End(x[j])' <= Place'
        BY <1>3, <2>14, <4>2
      <4>4. \A j, k \in 1 .. Len(told') : j < k => End(x[j])' <= x[k]
        BY <1>3, <2>15, <4>2
      <4>5. ASSUME NEW q \in 1 .. Place' - 1
            PROVE  NoStart(q)' \/ \E j \in 1 .. Len(told') : x[j] <= q /\ q < End(x[j])'
        <5>1. q \in Nat
          OBVIOUS
        <5>2. NoStart(q)' <=> NoStart(q)
          BY <1>3, <5>1
        <5>3. \A j \in 1 .. Len(told') : End(x[j])' = End(x[j])
          BY <1>3
        <5>4. QED BY <2>16, <4>2, <5>2, <5>3
      <4>6. QED BY <4>3, <4>4, <4>5 DEF Read
    <3>2. new \in Position(Len(told'))
      BY <2>9, <2>11
    <3>3. QED BY <3>1, <3>2
  <2>18. QED BY <2>8, <2>10, <2>17
<1>8. QED BY <1>5, <1>6, <1>7 DEF Parse

\* What was read stays read while the stream stays what it is.
LEMMA ReadSame ==
    ASSUME UNCHANGED <<stream, told>>, Place' = Place, NEW pos, Read(pos)
    PROVE  Read(pos)'
<1>1. /\ \A q : NoStart(q)' <=> NoStart(q)
      /\ \A p, m : ReadFrom(p, m)' <=> ReadFrom(p, m)
      /\ \A p : End(p)' = End(p)
  BY DEF NoStart, ReadFrom, End, Starts, HeaderFrom, LengthFrom
<1>2. \A j \in 1 .. Len(told) : ReadFrom(pos[j], told[j])' /\ End(pos[j])' <= Place'
  <2>1. TAKE j \in 1 .. Len(told)
  <2>2. ReadFrom(pos[j], told[j]) /\ End(pos[j]) <= Place
    BY DEF Read
  <2>3. told'[j] = told[j]
    OBVIOUS
  <2>4. QED BY <1>1, <2>2, <2>3
<1>3. \A i, j \in 1 .. Len(told) : i < j => End(pos[i])' <= pos[j]
  BY <1>1 DEF Read
<1>4. ASSUME NEW q \in 1 .. Place - 1
      PROVE  NoStart(q)' \/ \E j \in 1 .. Len(told) : pos[j] <= q /\ q < End(pos[j])'
  <2>1. NoStart(q) \/ \E j \in 1 .. Len(told) : pos[j] <= q /\ q < End(pos[j])
    BY DEF Read
  <2>2. QED BY <1>1, <2>1
<1>5. QED BY <1>2, <1>3, <1>4 DEF Read

\* The invariant with sends that are cut short.
LEMMA CutInvInit == Init => CutInv
<1> SUFFICES ASSUME Init PROVE CutInv
  OBVIOUS
<1>1. TypeOK
  BY InitTypes
<1>2. sent = <<>> /\ told = <<>> /\ Len(sent) = 0 /\ Len(told) = 0 /\ cuts = 0
      /\ got = 0 /\ valid = 0 /\ ~parsing
  BY EmptySeq DEF Init
<1>3. Numbered
  BY <1>2 DEF Numbered
<1>4. \E off \in Position(Len(sent)), cut \in SUBSET (1 .. Len(sent)) : Standing(off, cut)
  <2> DEFINE off == [k \in 1 .. 0 |-> 1]
  <2>1. off \in Position(Len(sent)) /\ {} \in SUBSET (1 .. Len(sent))
    BY <1>2 DEF Position
  <2>2. Standing(off, {})
    BY <1>2, FS_EmptySet DEF Standing
  <2>3. QED BY <2>1, <2>2
<1>5. Place = 1 /\ Kept /\ Settled
  BY <1>2 DEF Place, Kept, Settled
<1>6. \E pos \in Position(Len(told)) : Read(pos)
  <2> DEFINE pos == [k \in 1 .. 0 |-> 1]
  <2>1. pos \in Position(Len(told))
    BY <1>2 DEF Position
  <2>2. Read(pos)
    BY <1>2, <1>5 DEF Read
  <2>3. QED BY <2>1, <2>2
<1>7. QED BY <1>1, <1>3, <1>4, <1>5, <1>6 DEF CutInv

\* A request sent, whole or in part.
LEMMA CutInvSend ==
    ASSUME CutInv, NEW m \in Requests,
           Send(m) \/ \E k \in CutSizes : SendCut(m, k)
    PROVE  CutInv'
<1>1. TypeOK /\ Numbered /\ Len(sent) < MaxSent
  BY DEF CutInv, Send, SendCut
<1>2. TypeOK'
  BY <1>1, TypeStep DEF Next
<1>3. m \in Message /\ Frame(m) \in Seq(Byte) /\ Len(Frame(m)) = 36
  BY <1>1, RequestType, FrameBytes
<1>4. UNCHANGED <<got, buf, valid, parsing, told, overrun>> /\ sent' = Append(sent, m)
  BY DEF Send, SendCut
<1>5. \E x \in Seq(Byte) : stream' = stream \o x
  <2>1. CASE Send(m)
    BY <1>3, <2>1 DEF Send
  <2>2. ASSUME NEW k \in CutSizes, SendCut(m, k)
        PROVE  \E x \in Seq(Byte) : stream' = stream \o x
    <3>1. k \in 1 .. 36
      BY CutAssumption
    <3>2. SubSeq(Frame(m), 1, k) \in Seq(Byte)
      <4>1. \A i \in 1 .. k : i \in 1 .. 36
        BY <3>1
      <4>2. \A i \in 1 .. 36 : Frame(m)[i] \in Byte
        BY <1>3, ElementOfSeq
      <4>3. 1 \in Int /\ k \in Int
        BY <3>1
      <4>4. QED BY <4>1, <4>2, <4>3, SubSeqProperties
    <3>3. QED BY <2>2, <3>2 DEF SendCut
  <2>3. QED BY <2>1, <2>2
<1>6. PICK x \in Seq(Byte) : stream' = stream \o x /\ (Send(m) => x = Frame(m))
  BY <1>3, <1>5 DEF Send
<1>7. /\ Numbered'
      /\ Len(sent') = Len(sent) + 1
      /\ \A f \in Nat \ {0}, k \in 1 .. Len(sent) : Whole(f, k) => Whole(f, k)'
      /\ x = Frame(m) =>
            \A f, k : f = Len(stream) + 1 /\ k = Len(sent) + 1 => Whole(f, k)'
  BY <1>1, <1>4, <1>6, StandingStays
<1>8. PICK off \in Position(Len(sent)), cut \in SUBSET (1 .. Len(sent)) : Standing(off, cut)
  BY DEF CutInv
<1> DEFINE n == Len(sent)
           next == [k \in 1 .. n + 1 |-> IF k = n + 1 THEN Len(stream) + 1 ELSE off[k]]
<1>9. n \in Nat /\ Len(stream) \in Nat /\ cuts \in Nat /\ n + 1 \notin 1 .. n
  BY <1>1, Domains
<1>10. /\ next \in Position(n + 1)
       /\ next[n + 1] = Len(stream) + 1
       /\ \A k \in 1 .. n : next[k] = off[k] /\ off[k] \in Nat \ {0}
  BY <1>8, <1>9 DEF Position
<1> HIDE DEF next
<1>11. \A k \in (1 .. n) \ cut : off[k] + 35 <= Len(stream) /\ Whole(off[k], k)'
  BY <1>7, <1>8, <1>10 DEF Standing, Whole
<1>12. \E off2 \in Position(Len(sent')), cut2 \in SUBSET (1 .. Len(sent')) :
          Standing(off2, cut2)'
  <2>1. CASE Send(m)
    <3>1. cuts' = cuts /\ x = Frame(m)
      BY <1>6, <2>1 DEF Send
    <3>2. \A off2 \in Position(n + 1), cut2 \in SUBSET (1 .. n) :
             off2 = next /\ cut2 = cut => Standing(off2, cut2)'
      <4>1. TAKE off2 \in Position(n + 1), cut2 \in SUBSET (1 .. n)
      <4>2. HAVE off2 = next /\ cut2 = cut
      <4>3. Cardinality(cut2) = cuts'
        BY <1>8, <3>1, <4>2 DEF Standing
      <4>4. ASSUME NEW k \in (1 .. n + 1) \ cut2
            PROVE  Whole(off2[k], k)'
        <5>1. CASE k = n + 1
          <6>1. off2[k] = Len(stream) + 1
            BY <1>10, <4>2, <5>1
          <6>2. QED BY <1>7, <3>1, <5>1, <6>1
        <5>2. CASE k \in (1 .. n) \ cut
          BY <1>10, <1>11, <4>2, <5>2
        <5>3. QED BY <1>9, <4>2, <5>1, <5>2
      <4>5. ASSUME NEW i \in (1 .. n + 1) \ cut2, NEW k \in (1 .. n + 1) \ cut2, i < k
            PROVE  off2[i] + 36 <= off2[k]
        <5>1. i \in (1 .. n) \ cut
          BY <1>9, <4>2, <4>5
        <5>2. CASE k = n + 1
          <6>1. off2[k] = Len(stream) + 1 /\ off2[i] = off[i] /\ off[i] \in Nat
            BY <1>10, <4>2, <5>1, <5>2
          <6>2. off[i] + 35 <= Len(stream)
            BY <1>11, <5>1
          <6>3. QED BY <1>9, <6>1, <6>2
        <5>3. CASE k \in (1 .. n) \ cut
          BY <1>8, <1>10, <4>2, <4>5, <5>1, <5>3 DEF Standing
        <5>4. QED BY <1>9, <4>2, <5>2, <5>3
      <4>6. QED BY <1>7, <4>3, <4>4, <4>5 DEF Standing
    <3>3. cut \in SUBSET (1 .. n + 1)
      BY <1>8, <1>9
    <3>4. QED BY <1>7, <1>8, <1>10, <3>2, <3>3
  <2>2. CASE ~Send(m)
    <3>1. cuts' = cuts + 1
      BY <2>2 DEF SendCut
    <3>2. /\ IsFiniteSet(cut) /\ Cardinality(cut) = cuts
          /\ cut \cup {n + 1} \in SUBSET (1 .. n + 1)
          /\ Cardinality(cut \cup {n + 1}) = cuts + 1
      <4>1. IsFiniteSet(1 .. n)
        BY <1>9, FS_Interval
      <4>2. IsFiniteSet(cut) /\ n + 1 \notin cut
        BY <1>8, <1>9, <4>1, FS_Subset
      <4>3. Cardinality(cut) = cuts
        BY <1>8 DEF Standing
      <4>4. Cardinality(cut \cup {n + 1}) = Cardinality(cut) + 1
        BY <4>2, FS_AddElement
      <4>5. cut \cup {n + 1} \in SUBSET (1 .. n + 1)
        <5>1. \A k \in 1 .. n : k \in 1 .. n + 1
          BY <1>9
        <5>2. n + 1 \in 1 .. n + 1
          BY <1>9
        <5>3. cut \subseteq 1 .. n
          BY <1>8
        <5>4. QED BY <5>1, <5>2, <5>3
      <4>6. QED BY <4>2, <4>3, <4>4, <4>5
    <3>3. \A off2 \in Position(n + 1), cut2 \in SUBSET (1 .. n + 1) :
             off2 = next /\ cut2 = cut \cup {n + 1} => Standing(off2, cut2)'
      <4>1. TAKE off2 \in Position(n + 1), cut2 \in SUBSET (1 .. n + 1)
      <4>2. HAVE off2 = next /\ cut2 = cut \cup {n + 1}
      <4>3. \A k \in (1 .. n + 1) \ cut2 : k \in (1 .. n) \ cut /\ off2[k] = off[k]
        BY <1>9, <1>10, <4>2
      <4>4. \A k \in (1 .. n + 1) \ cut2 : Whole(off2[k], k)'
        BY <1>11, <4>3
      <4>5. \A i, k \in (1 .. n + 1) \ cut2 : i < k => off2[i] + 36 <= off2[k]
        BY <1>8, <4>3 DEF Standing
      <4>6. Cardinality(cut2) = cuts'
        BY <3>1, <3>2, <4>2
      <4>7. QED BY <1>7, <4>4, <4>5, <4>6 DEF Standing
    <3>4. QED BY <1>7, <1>10, <3>2, <3>3
  <2>3. QED BY <2>1, <2>2
<1>13. ASSUME overrun' = "none"
       PROVE  Kept' /\ (\E pos \in Position(Len(told')) : Read(pos)') /\ Settled'
  <2>1. Kept /\ Settled
    BY <1>4, <1>13 DEF CutInv
  <2>2. PICK pos \in Position(Len(told)) : Read(pos)
    BY <1>4, <1>13 DEF CutInv
  <2>3. Kept' /\ Read(pos)'
    BY <1>1, <1>4, <1>6, <2>1, <2>2, ReadStays
  <2>4. Settled'
    <3>1. Stops' = Stops /\ First' = First /\ IsFrame(0)' = IsFrame(0)
      BY <1>4 DEF Stops, First, IsFrame, MayBecomeFrame, Magic, MsgLen, HeaderAt, CrcMatch
    <3>2. QED BY <1>4, <2>1, <3>1 DEF Settled
  <2>5. QED BY <1>4, <2>2, <2>3, <2>4
<1>14. QED BY <1>2, <1>7, <1>12, <1>13 DEF CutInv

\* The steps of the VTDU leave what was sent alone.
LEMMA CutInvNext == CutInv /\ [Next]_vars => CutInv'
<1> SUFFICES ASSUME CutInv, [Next]_vars PROVE CutInv'
  OBVIOUS
<1>1. TypeOK /\ TypeOK'
  BY TypeStep DEF CutInv
<1>2. ASSUME UNCHANGED <<sent, cuts, stream>>
      PROVE  /\ Numbered'
             /\ \E off \in Position(Len(sent')), cut \in SUBSET (1 .. Len(sent')) :
                   Standing(off, cut)'
  <2>1. Numbered'
    BY <1>2 DEF CutInv, Numbered
  <2>2. PICK off \in Position(Len(sent)), cut \in SUBSET (1 .. Len(sent)) : Standing(off, cut)
    BY DEF CutInv
  <2>3. Standing(off, cut)'
    BY <1>2, <2>2 DEF Standing, Whole
  <2>4. QED BY <1>2, <2>1, <2>2, <2>3
<1>3. ASSUME NEW n \in RecvSizes, Receive(n) PROVE CutInv'
  <2>1. UNCHANGED <<sent, cuts, stream, told>> /\ parsing'
    BY <1>3 DEF Receive
  <2>2. ASSUME overrun' = "none"
        PROVE  Kept' /\ (\E pos \in Position(Len(told')) : Read(pos)') /\ Settled'
    <3>1. overrun = "none"
      BY <1>3, <2>2 DEF Receive
    <3>2. PICK pos \in Position(Len(told)) : Read(pos)
      BY <3>1 DEF CutInv
    <3>3. Kept' /\ Place' = Place
      BY <1>1, <1>3, <2>2, <3>1, KeptReceive DEF CutInv
    <3>4. Read(pos)'
      BY <2>1, <3>2, <3>3, ReadSame
    <3>5. QED BY <2>1, <3>2, <3>3, <3>4 DEF Settled
  <2>3. QED BY <1>1, <1>2, <2>1, <2>2 DEF CutInv
<1>4. CASE Parse
  <2>1. UNCHANGED <<sent, cuts, stream, overrun>>
    BY <1>4 DEF Parse
  <2>2. ASSUME overrun' = "none"
        PROVE  Kept' /\ (\E pos \in Position(Len(told')) : Read(pos)') /\ Settled'
    <3>1. Kept /\ \E pos \in Position(Len(told)) : Read(pos)
      BY <2>1, <2>2 DEF CutInv
    <3>2. QED BY <1>1, <1>4, <3>1, ReadParse
  <2>3. QED BY <1>1, <1>2, <2>1, <2>2 DEF CutInv
<1>5. CASE UNCHANGED vars
  <2>1. ASSUME overrun' = "none"
        PROVE  Kept' /\ (\E pos \in Position(Len(told')) : Read(pos)') /\ Settled'
    <3>1. PICK pos \in Position(Len(told)) : Read(pos)
      BY <1>5, <2>1 DEF CutInv, vars
    <3>2. Read(pos)'
      <4>1. UNCHANGED <<stream, told>> /\ Place' = Place
        BY <1>5 DEF vars, Place
      <4>2. QED BY <3>1, <4>1, ReadSame
    <3>3. Kept /\ Settled
      BY <1>5, <2>1 DEF CutInv, vars
    <3>4. Kept'
      BY <1>5, <3>3 DEF vars, Kept, Place
    <3>5. Settled'
      <4>1. Stops' = Stops /\ First' = First /\ IsFrame(0)' = IsFrame(0)
        BY <1>5 DEF vars, Stops, First, IsFrame, MayBecomeFrame, Magic, MsgLen, HeaderAt, CrcMatch
      <4>2. QED BY <1>5, <3>3, <4>1 DEF vars, Settled
    <3>6. QED BY <1>5, <3>1, <3>2, <3>4, <3>5 DEF vars
  <2>2. UNCHANGED <<sent, cuts, stream>>
    BY <1>5 DEF vars
  <2>3. QED BY <1>1, <1>2, <2>1, <2>2 DEF CutInv
<1>6. QED
  <2>1. ASSUME NEW m \in Requests, Send(m) PROVE CutInv'
    BY <2>1, CutInvSend
  <2>2. ASSUME NEW m \in Requests, NEW k \in CutSizes, SendCut(m, k) PROVE CutInv'
    BY <2>2, CutInvSend
  <2>3. QED BY <1>3, <1>4, <1>5, <2>1, <2>2 DEF Next

-----------------------------------------------------------------------------
(* What follows for the requests that the VTDU acts on.  *)

\* The sequence number tells a request from the others.
LEMMA HeadersDiffer ==
    ASSUME TypeOK, Numbered, NEW i \in 1 .. Len(sent), NEW k \in 1 .. Len(sent),
           sent[i].hdr = sent[k].hdr
    PROVE  i = k
<1>1. PICK t \in Types : sent[i].hdr = Header(i - 1, t)
  BY DEF Numbered
<1>2. PICK u \in Types : sent[k].hdr = Header(k - 1, u)
  BY DEF Numbered
<1>3. /\ Header(i - 1, t)[3] = (i - 1) \div 256 /\ Header(i - 1, t)[4] = (i - 1) % 256
      /\ Header(k - 1, u)[3] = (k - 1) \div 256 /\ Header(k - 1, u)[4] = (k - 1) % 256
  BY DEF Header, HeaderWith
<1>4. (i - 1) \div 256 = (k - 1) \div 256 /\ (i - 1) % 256 = (k - 1) % 256
  <2>1. Header(i - 1, t) = Header(k - 1, u)
    BY <1>1, <1>2
  <2>2. QED BY <1>3, <2>1, Zenon
<1>5. i \in Int /\ k \in Int
  BY Domains
<1>6. \A a, b \in Int : a \div 256 = b \div 256 /\ a % 256 = b % 256 => a = b
  OBVIOUS
<1>7. i - 1 = k - 1
  BY <1>4, <1>5, <1>6
<1>8. QED BY <1>5, <1>7

\* A request that stands whole in the stream can be read there.
LEMMA WholeIsHead ==
    ASSUME TypeOK, Numbered, NEW k \in 1 .. Len(sent), NEW f \in Nat \ {0}, Whole(f, k)
    PROVE  /\ f \in Heads /\ HeaderFrom(f) = sent[k].hdr
           /\ \A i \in 1 .. 24 : stream[f + 11 + i] = sent[k].body[i]
<1> DEFINE m == sent[k]
<1>1. m \in Message /\ Len(sent) \in Nat /\ Len(stream) \in Nat
  BY Domains
<1>2. /\ Frame(m)[1] = 36 /\ Frame(m)[2] = 64 /\ Frame(m)[3] = 0 /\ Frame(m)[4] = 32
      /\ \A i \in 1 .. 8 : Frame(m)[4 + i] = m.hdr[i]
      /\ \A i \in 1 .. 24 : Frame(m)[12 + i] = m.body[i]
  BY <1>1, FrameBytes
<1>3. /\ f + 35 <= Len(stream)
      /\ \A i \in 1 .. 36 : stream[f + i - 1] = Frame(m)[i]
  BY DEF Whole
<1>4. CrcMatch(m.hdr) /\ m.hdr \in [1 .. 8 -> Byte]
  <2>1. PICK t \in Types : m.hdr = Header(k - 1, t)
    BY DEF Numbered
  <2>2. k - 1 \in 0 .. MaxSent - 1
    <3>1. Len(sent) <= MaxSent /\ MaxSent \in Nat
      BY BoundAssumption DEF TypeOK
    <3>2. QED BY <1>1, <3>1
  <2>3. QED BY <2>1, <2>2, HeaderMatches
<1> HIDE DEF m
<1>5. f \in Nat /\ f >= 1 /\ f \in 1 .. Len(stream) - 11
  <2>1. f \in Nat /\ f >= 1 /\ f + 35 <= Len(stream) /\ Len(stream) \in Nat
    BY <1>1, <1>3
  <2>2. QED BY <2>1
<1>6. stream[f] = 36 /\ stream[f + 1] = 64 /\ stream[f + 2] = 0 /\ stream[f + 3] = 32
  <2>1. f + 1 - 1 = f /\ f + 2 - 1 = f + 1 /\ f + 3 - 1 = f + 2 /\ f + 4 - 1 = f + 3
    BY <1>5
  <2>2. /\ stream[f + 1 - 1] = 36 /\ stream[f + 2 - 1] = 64
        /\ stream[f + 3 - 1] = 0 /\ stream[f + 4 - 1] = 32
    <3>1. 1 \in 1 .. 36 /\ 2 \in 1 .. 36 /\ 3 \in 1 .. 36 /\ 4 \in 1 .. 36
      OBVIOUS
    <3>2. /\ stream[f + 1 - 1] = Frame(m)[1] /\ stream[f + 2 - 1] = Frame(m)[2]
          /\ stream[f + 3 - 1] = Frame(m)[3] /\ stream[f + 4 - 1] = Frame(m)[4]
      BY <1>3, <3>1, Zenon
    <3>3. QED BY <1>2, <3>2, Zenon
  <2>3. QED BY <2>1, <2>2
<1>7. HeaderFrom(f) = m.hdr
  <2>1. ASSUME NEW i \in 1 .. 8
        PROVE  stream[f + 3 + i] = m.hdr[i]
    <3>1. 4 + i \in 1 .. 36 /\ f + (4 + i) - 1 = f + 3 + i
      BY <1>5
    <3>2. stream[f + (4 + i) - 1] = Frame(m)[4 + i]
      BY <1>3, <3>1
    <3>3. QED BY <1>2, <3>1, <3>2
  <2>2. QED BY <1>4, <2>1 DEF HeaderFrom
<1>8. LengthFrom(f) = 32
  BY <1>6 DEF LengthFrom
<1>9. f \in Heads
  <2>1. HeaderFrom(f)[2] = Crc([HeaderFrom(f) EXCEPT ![2] = 0])
    BY <1>4, <1>7 DEF CrcMatch
  <2>2. LengthFrom(f) >= 8
    BY <1>8
  <2>3. f \in Starts
    BY <1>5, <1>6, <2>1, <2>2 DEF Starts
  <2>4. QED BY <1>8, <2>3 DEF Heads
<1>10. ASSUME NEW i \in 1 .. 24
       PROVE  stream[f + 11 + i] = m.body[i]
  <2>1. 12 + i \in 1 .. 36 /\ f + (12 + i) - 1 = f + 11 + i
    BY <1>5
  <2>2. stream[f + (12 + i) - 1] = Frame(m)[12 + i]
    BY <1>3, <2>1
  <2>3. QED BY <1>2, <2>1, <2>2
<1>11. QED BY <1>7, <1>9, <1>10 DEF m

\* If the checksum does not err, a header stands at one position only.
LEMMA HeadsOfOne ==
    ASSUME TypeOK, HeadsAreSent, NEW p \in Heads, NEW q \in Heads, NEW i \in 1 .. Len(sent),
           HeaderFrom(p) = sent[i].hdr, HeaderFrom(q) = sent[i].hdr
    PROVE  p = q
<1>1. p \in Int /\ q \in Int /\ i \in Int
  BY Domains DEF Heads, Starts
<1>2. ~(p < q) /\ ~(q < p)
  <2>1. \A a, b \in Heads : a < b /\ HeaderFrom(a) = sent[i].hdr /\ HeaderFrom(b) = sent[i].hdr
                              => i < i
    BY DEF HeadsAreSent
  <2>2. ~(i < i)
    BY <1>1
  <2>3. QED BY <2>1, <2>2
<1>3. QED BY <1>1, <1>2

LEMMA CutSpoilsOneHolds == CutInv => CutSpoilsOne
<1> SUFFICES ASSUME CutInv, overrun = "none", HeadsAreSent
    PROVE  /\ Cardinality({j \in Acted : \A k \in 1 .. Len(sent) : told[j] # sent[k]}) <= cuts
           /\ \E at \in [Acted -> 1 .. Len(sent)] :
                 /\ \A j \in Acted : told[j].hdr = sent[at[j]].hdr
                 /\ \A i, j \in Acted : i < j => at[i] < at[j]
  BY DEF CutSpoilsOne
<1>1. TypeOK /\ Numbered
  BY DEF CutInv
<1>2. PICK off \in Position(Len(sent)), cut \in SUBSET (1 .. Len(sent)) : Standing(off, cut)
  BY DEF CutInv
<1>3. PICK pos \in Position(Len(told)) : Read(pos)
  BY DEF CutInv
<1>4. /\ Len(sent) \in Nat /\ Len(told) \in Nat /\ Len(stream) \in Nat /\ cuts \in Nat
      /\ \A k \in 1 .. Len(sent) : sent[k] \in Message
      /\ \A j \in 1 .. Len(told) : told[j] \in [hdr : [1 .. 8 -> Byte], body : Seq(Byte)]
  BY <1>1, Domains
<1> DEFINE at == [j \in Acted |->
                    CHOOSE k \in 1 .. Len(sent) : HeaderFrom(pos[j]) = sent[k].hdr]
<1>5. ASSUME NEW j \in Acted
      PROVE  /\ j \in 1 .. Len(told) /\ pos[j] \in Heads /\ pos[j] \in Nat
             /\ told[j].hdr = HeaderFrom(pos[j]) /\ Len(told[j].body) = 24
             /\ \A i \in 1 .. 24 : told[j].body[i] = stream[pos[j] + 11 + i]
             /\ at[j] \in 1 .. Len(sent) /\ HeaderFrom(pos[j]) = sent[at[j]].hdr
  <2>1. j \in 1 .. Len(told) /\ Len(told[j].body) = 24
    BY DEF Acted
  <2>2. ReadFrom(pos[j], told[j])
    BY <1>3, <2>1 DEF Read
  <2>3. pos[j] \in Starts /\ pos[j] \in 1 .. Len(stream) - 11
    BY <2>2 DEF ReadFrom, Starts
  <2>4. LengthFrom(pos[j]) \in Nat
    BY <1>1, <2>3, LengthIs
  <2>5. 24 = LengthFrom(pos[j]) - 8
    BY <2>1, <2>2 DEF ReadFrom
  <2>6. LengthFrom(pos[j]) = 32
    BY <2>4, <2>5
  <2>7. pos[j] \in Heads /\ pos[j] \in Nat
    BY <2>3, <2>6 DEF Heads
  <2>8. \E k \in 1 .. Len(sent) : HeaderFrom(pos[j]) = sent[k].hdr
    BY <2>7 DEF HeadsAreSent
  <2>9. at[j] \in 1 .. Len(sent) /\ HeaderFrom(pos[j]) = sent[at[j]].hdr
    BY <2>8
  <2>10. told[j].hdr = HeaderFrom(pos[j]) /\ \A i \in 1 .. 24 : told[j].body[i] = stream[pos[j] + 11 + i]
    BY <2>1, <2>2 DEF ReadFrom
  <2>11. QED BY <2>1, <2>7, <2>9, <2>10
<1> HIDE DEF at
<1>6. at \in [Acted -> 1 .. Len(sent)] /\ \A j \in Acted : told[j].hdr = sent[at[j]].hdr
  BY <1>5 DEF at
<1>7. ASSUME NEW i \in Acted, NEW j \in Acted, i < j
      PROVE  at[i] < at[j]
  <2>1. End(pos[i]) <= pos[j] /\ LengthFrom(pos[i]) = 32
    BY <1>3, <1>5, <1>7 DEF Read, Heads
  <2>2. pos[i] < pos[j]
    <3>1. pos[i] \in Nat /\ pos[j] \in Nat
      BY <1>5
    <3>2. pos[i] + 32 + 4 <= pos[j]
      BY <2>1 DEF End
    <3>3. QED BY <3>1, <3>2
  <2>3. /\ pos[i] \in Heads /\ pos[j] \in Heads
        /\ at[i] \in 1 .. Len(sent) /\ at[j] \in 1 .. Len(sent)
        /\ HeaderFrom(pos[i]) = sent[at[i]].hdr /\ HeaderFrom(pos[j]) = sent[at[j]].hdr
    BY <1>5
  <2>4. QED BY <2>2, <2>3 DEF HeadsAreSent
<1> DEFINE W == {j \in Acted : \A k \in 1 .. Len(sent) : told[j] # sent[k]}
<1>8. ASSUME NEW j \in W
      PROVE  at[j] \in cut
  <2> DEFINE k == at[j]
  <2>1. j \in Acted /\ told[j] # sent[k] /\ k \in 1 .. Len(sent)
    BY <1>6
  <2>2. SUFFICES ASSUME k \notin cut PROVE told[j] = sent[k]
    BY <2>1
  <2>3. Whole(off[k], k) /\ off[k] \in Nat \ {0}
    BY <1>2, <2>1, <2>2 DEF Standing, Position
  <2>4. /\ off[k] \in Heads /\ HeaderFrom(off[k]) = sent[k].hdr
        /\ \A i \in 1 .. 24 : stream[off[k] + 11 + i] = sent[k].body[i]
    BY <1>1, <2>1, <2>3, WholeIsHead
  <2>5. pos[j] = off[k]
    <3>1. pos[j] \in Heads /\ HeaderFrom(pos[j]) = sent[k].hdr
      BY <1>5, <2>1
    <3>2. QED BY <1>1, <2>1, <2>4, <3>1, HeadsOfOne
  <2>6. /\ told[j] \in [hdr : [1 .. 8 -> Byte], body : Seq(Byte)]
        /\ sent[k] \in Message
    BY <1>4, <1>5, <2>1
  <2>7. told[j].body = sent[k].body
    <3>1. told[j].body \in [1 .. 24 -> Byte]
      <4>1. told[j].body \in Seq(Byte) /\ Len(told[j].body) = 24
        BY <1>5, <2>1, <2>6
      <4>2. QED BY <4>1, LenProperties
    <3>2. sent[k].body \in [1 .. 24 -> Byte]
      BY <2>6, BodiesAssumption DEF Message
    <3>3. \A i \in 1 .. 24 : told[j].body[i] = sent[k].body[i]
      BY <1>5, <2>1, <2>4, <2>5
    <3>4. \A f, g \in [1 .. 24 -> Byte] : (\A i \in 1 .. 24 : f[i] = g[i]) => f = g
      <4>1. TAKE f, g \in [1 .. 24 -> Byte]
      <4>2. f = [i \in 1 .. 24 |-> f[i]] /\ g = [i \in 1 .. 24 |-> g[i]]
        OBVIOUS
      <4>3. QED BY <4>2
    <3>5. QED BY <3>1, <3>2, <3>3, <3>4
  <2>8. told[j].hdr = sent[k].hdr
    BY <1>6, <2>1
  <2>9. /\ told[j] = [hdr |-> told[j].hdr, body |-> told[j].body]
        /\ sent[k] = [hdr |-> sent[k].hdr, body |-> sent[k].body]
    BY <2>6 DEF Message
  <2>10. QED BY <2>7, <2>8, <2>9
<1>9. Cardinality(W) <= cuts
  <2> DEFINE f == [j \in W |-> at[j]]
  <2>1. \A i, j \in W : at[i] = at[j] => i = j
    <3>1. TAKE i, j \in W
    <3>2. HAVE at[i] = at[j]
    <3>3. i \in Nat /\ j \in Nat /\ i \in Acted /\ j \in Acted
      BY <1>5
    <3>4. at[i] \in Int
      BY <1>4, <1>6, <3>3
    <3>5. ~(i < j) /\ ~(j < i)
      BY <1>7, <3>2, <3>3, <3>4
    <3>6. QED BY <3>3, <3>5
  <2>2. f \in Injection(W, cut)
    BY <1>8, <2>1 DEF Injection, IsInjective
  <2>3. IsFiniteSet(cut) /\ Cardinality(cut) = cuts
    <3>1. IsFiniteSet(1 .. Len(sent))
      BY <1>4, FS_Interval
    <3>2. QED BY <1>2, <3>1, FS_Subset DEF Standing
  <2>4. Cardinality(W) <= Cardinality(cut)
    BY <2>2, <2>3, FS_Injection
  <2>5. QED BY <2>3, <2>4
<1>10. QED BY <1>6, <1>7, <1>9

\* A request that stands whole and is lost was overlapped by one that was cut.
LEMMA LostIsOverlapped ==
    ASSUME CutInv, overrun = "none", ~parsing, got = Len(stream), ~WaitsInVain,
           HeadsAreSent, NoneStraddles,
           NEW off \in Position(Len(sent)), NEW cut \in SUBSET (1 .. Len(sent)),
           Standing(off, cut),
           NEW k \in (1 .. Len(sent)) \ cut,
           \A j \in Acted : told[j].hdr # sent[k].hdr
    PROVE  \E i \in cut, p \in Heads :
              HeaderFrom(p) = sent[i].hdr /\ p < off[k] /\ off[k] < p + 36
<1>1. TypeOK /\ Numbered /\ Kept /\ Settled
  BY DEF CutInv
<1>2. PICK pos \in Position(Len(told)) : Read(pos)
  BY DEF CutInv
<1>3. /\ Len(sent) \in Nat /\ Len(told) \in Nat /\ Len(stream) \in Nat
      /\ got \in Nat /\ valid \in Nat /\ valid <= got
      /\ Place \in Nat /\ Place >= 1 /\ Place + valid = got + 1
  BY <1>1, Domains DEF Kept, Place
<1> DEFINE q == off[k]
<1>4. q \in Nat \ {0} /\ Whole(q, k) /\ q + 35 <= Len(stream)
  BY DEF Standing, Position, Whole
<1>5. q \in Heads /\ HeaderFrom(q) = sent[k].hdr
  BY <1>1, <1>4, WholeIsHead
<1>6. /\ q \in Starts /\ LengthFrom(q) = 32 /\ q \in Nat /\ q >= 1
      /\ stream[q] = 36 /\ stream[q + 1] = 64
  BY <1>5 DEF Heads, Starts
<1> HIDE DEF q
<1>7. q < Place
  <2>1. SUFFICES ASSUME q >= Place PROVE FALSE
    BY <1>3, <1>6
  <2> DEFINE m == q - Place
  <2>2. /\ m \in 0 .. valid - 12 /\ m \in 0 .. valid - 3 /\ Place + m = q
        /\ 36 + m <= valid /\ valid >= 36 /\ m \in Nat
    <3>1. q + 35 <= got
      BY <1>4
    <3>2. QED BY <1>3, <1>6, <2>1, <3>1
  <2> HIDE DEF m
  <2>3. Magic(m) /\ MsgLen(m) >= 8 /\ CrcMatch(HeaderAt(m)) /\ MsgLen(m) = 32
    <3>1. Place + m \in Starts /\ LengthFrom(Place + m) = 32
      BY <1>6, <2>2
    <3>2. Magic(m) /\ MsgLen(m) >= 8 /\ CrcMatch(HeaderAt(m))
      BY <1>1, <2>2, <3>1, ReadsStart
    <3>3. MsgLen(m) = LengthFrom(Place + m)
      BY <1>1, <2>2, Reads
    <3>4. QED BY <3>1, <3>2, <3>3
  <2>4. IsFrame(m)
    <3>1. valid - m >= 12 /\ 32 + m + 4 <= valid
      BY <1>3, <2>2
    <3>2. QED BY <2>3, <3>1 DEF IsFrame
  <2>5. m \in Stops
    BY <2>2, <2>4 DEF Stops
  <2>6. 0 \in First /\ ~IsFrame(0)
    <3>1. ~(valid < 12)
      BY <1>3, <2>2
    <3>2. QED BY <1>1, <2>5, <3>1, Zenon DEF Settled
  <2>7. MayBecomeFrame(0)
    BY <2>6 DEF First, Stops
  <2>8. valid >= 12 /\ valid - 0 >= 12
    BY <1>3, <2>2
  <2>9. ~(MsgLen(0) > 32)
    BY <2>6, <2>7, <2>8 DEF WaitsInVain
  <2>10. MsgLen(0) + 0 + 4 > valid
    BY <1>3, <2>7, <2>8 DEF MayBecomeFrame
  <2>11. MsgLen(0) \in Nat
    <3>1. 0 \in 0 .. valid - 12
      BY <1>3, <2>2
    <3>2. QED BY <1>1, <3>1, Reads
  <2>12. \A l \in Nat : l + 0 + 4 > valid => l > 32
    BY <1>3, <2>2
  <2>13. QED BY <2>9, <2>10, <2>11, <2>12
<1>8. PICK j \in 1 .. Len(told) : pos[j] <= q /\ q < End(pos[j])
  <2>1. ~NoStart(q)
    BY <1>6 DEF NoStart
  <2>2. q \in 1 .. Place - 1
    BY <1>3, <1>6, <1>7
  <2>3. QED BY <1>2, <2>1, <2>2 DEF Read
<1> DEFINE p == pos[j]
<1>9. /\ p \in Starts /\ p \in 1 .. Len(stream) - 11
      /\ told[j].hdr = HeaderFrom(p) /\ Len(told[j].body) = LengthFrom(p) - 8
  <2>1. ReadFrom(p, told[j])
    BY <1>2 DEF Read
  <2>2. QED BY <2>1 DEF ReadFrom, Starts
<1>10. p <= q /\ q < p + LengthFrom(p) + 4 /\ LengthFrom(p) \in Nat /\ p \in Nat
  <2>1. LengthFrom(p) \in Nat
    BY <1>1, <1>9, LengthIs
  <2>2. p <= q /\ q < End(p)
    BY <1>8
  <2>3. End(p) = p + LengthFrom(p) + 4
    BY DEF End
  <2>4. p \in Nat
    BY <1>3, <1>9
  <2>5. QED BY <2>1, <2>2, <2>3, <2>4
<1>11. p # q
  <2>1. SUFFICES ASSUME p = q PROVE FALSE
    OBVIOUS
  <2>2. Len(told[j].body) = 24
    <3>1. LengthFrom(p) = 32
      BY <1>6, <2>1
    <3>2. QED BY <1>9, <3>1
  <2>3. j \in Acted
    BY <2>2 DEF Acted
  <2>4. told[j].hdr = sent[k].hdr
    BY <1>5, <1>9, <2>1
  <2>5. QED BY <2>3, <2>4
<1> HIDE DEF p
<1>12. p < q
  BY <1>6, <1>10, <1>11
<1>13. p \in Heads
  <2>1. SUFFICES ASSUME p \notin Heads PROVE FALSE
    OBVIOUS
  <2>2. p + LengthFrom(p) + 4 <= q
    BY <1>5, <1>9, <1>12, <2>1 DEF NoneStraddles
  <2>3. QED BY <1>6, <1>10, <2>2
<1>14. q < p + 36
  <2>1. LengthFrom(p) = 32
    BY <1>13 DEF Heads
  <2>2. q < p + 32 + 4
    BY <1>10, <2>1
  <2>3. QED BY <1>6, <1>10, <2>2
<1>15. PICK i \in 1 .. Len(sent) : HeaderFrom(p) = sent[i].hdr
  BY <1>13 DEF HeadsAreSent
<1>16. i \in cut
  <2>1. SUFFICES ASSUME i \notin cut PROVE FALSE
    OBVIOUS
  <2>2. Whole(off[i], i) /\ off[i] \in Nat \ {0}
    BY <2>1 DEF Standing, Position
  <2>3. off[i] \in Heads /\ HeaderFrom(off[i]) = sent[i].hdr
    BY <1>1, <2>2, WholeIsHead
  <2>4. p = off[i]
    BY <1>1, <1>13, <1>15, <2>3, HeadsOfOne
  <2>5. i # k
    BY <1>11, <2>4 DEF q
  <2>6. i \in (1 .. Len(sent)) \ cut /\ i \in Int /\ k \in Int
    BY <1>3, <2>1
  <2>7. CASE i < k
    <3>1. off[i] + 36 <= off[k]
      BY <2>6, <2>7 DEF Standing
    <3>2. p + 36 <= q
      BY <2>4, <3>1 DEF q
    <3>3. QED BY <1>6, <1>10, <1>14, <3>2
  <2>8. CASE k < i
    <3>1. off[k] + 36 <= off[i]
      BY <2>6, <2>8 DEF Standing
    <3>2. q + 36 <= p
      BY <2>4, <3>1 DEF q
    <3>3. QED BY <1>6, <1>10, <1>12, <3>2
  <2>9. QED BY <2>5, <2>6, <2>7, <2>8
<1>17. QED BY <1>12, <1>13, <1>14, <1>15, <1>16 DEF q

LEMMA CutLosesTwoHolds == CutInv => CutLosesTwo
<1> DEFINE Lost == {k \in 1 .. Len(sent) : \A j \in Acted : told[j].hdr # sent[k].hdr}
<1> SUFFICES ASSUME CutInv, overrun = "none", ~parsing, got = Len(stream), ~WaitsInVain,
                    HeadsAreSent, NoneStraddles
             PROVE  Cardinality(Lost) <= 2 * cuts
  BY DEF CutLosesTwo
<1>1. TypeOK /\ Numbered
  BY DEF CutInv
<1>2. PICK off \in Position(Len(sent)), cut \in SUBSET (1 .. Len(sent)) : Standing(off, cut)
  BY DEF CutInv
<1>3. Len(sent) \in Nat /\ cuts \in Nat
  BY <1>1, Domains
<1>4. IsFiniteSet(1 .. Len(sent)) /\ IsFiniteSet(cut) /\ Cardinality(cut) = cuts
  <2>1. IsFiniteSet(1 .. Len(sent))
    BY <1>3, FS_Interval
  <2>2. QED BY <1>2, <2>1, FS_Subset DEF Standing
<1> DEFINE Spoils(i, k) ==
              \E p \in Heads : HeaderFrom(p) = sent[i].hdr /\ p < off[k] /\ off[k] < p + 36
           by == [k \in Lost \ cut |-> CHOOSE i \in cut : Spoils(i, k)]
<1>5. ASSUME NEW k \in Lost \ cut
      PROVE  by[k] \in cut /\ Spoils(by[k], k)
  <2>1. \E i \in cut : Spoils(i, k)
    BY <1>2, LostIsOverlapped
  <2> HIDE DEF Spoils
  <2>2. QED BY <2>1
<1>6. by \in [Lost \ cut -> cut]
  <2>1. \A k \in Lost \ cut : (CHOOSE i \in cut : Spoils(i, k)) \in cut
    BY <1>5
  <2> HIDE DEF Spoils, Lost
  <2>2. QED BY <2>1
<1> HIDE DEF by
<1>7. \A j, k \in Lost \ cut : by[j] = by[k] => j = k
  <2>1. TAKE j, k \in Lost \ cut
  <2>2. HAVE by[j] = by[k]
  <2> DEFINE i == by[j]
  <2>3. PICK p \in Heads : HeaderFrom(p) = sent[i].hdr /\ p < off[j] /\ off[j] < p + 36
    BY <1>5
  <2>4. PICK q \in Heads : HeaderFrom(q) = sent[i].hdr /\ q < off[k] /\ off[k] < q + 36
    BY <1>5, <2>2
  <2>5. p = q
    <3>1. i \in 1 .. Len(sent)
      BY <1>2, <1>5
    <3>2. QED BY <1>1, <2>3, <2>4, <3>1, HeadsOfOne
  <2>6. /\ off[j] \in Nat /\ off[k] \in Nat /\ p \in Int /\ j \in Int /\ k \in Int
        /\ j \in (1 .. Len(sent)) \ cut /\ k \in (1 .. Len(sent)) \ cut
    <3>1. j \in 1 .. Len(sent) /\ k \in 1 .. Len(sent) /\ j \notin cut /\ k \notin cut
      OBVIOUS
    <3>2. off[j] \in Nat /\ off[k] \in Nat
      BY <1>2, <3>1 DEF Position
    <3>3. p \in Int
      BY <1>1, Domains DEF Heads, Starts
    <3>4. QED BY <1>3, <3>1, <3>2, <3>3
  <2> DEFINE Far == \A a, b, c \in Int : a + 36 <= b /\ c < a /\ b < c + 36 => FALSE
  <2>7. Far
    OBVIOUS
  <2>8. ~(j < k)
    <3>1. SUFFICES ASSUME j < k PROVE FALSE
      OBVIOUS
    <3>2. off[j] + 36 <= off[k]
      BY <1>2, <2>6, <3>1 DEF Standing
    <3>3. p < off[j] /\ off[k] < p + 36
      BY <2>3, <2>4, <2>5
    <3>4. QED BY <2>6, <2>7, <3>2, <3>3
  <2>9. ~(k < j)
    <3>1. SUFFICES ASSUME k < j PROVE FALSE
      OBVIOUS
    <3>2. off[k] + 36 <= off[j]
      BY <1>2, <2>6, <3>1 DEF Standing
    <3>3. p < off[k] /\ off[j] < p + 36
      BY <2>3, <2>4, <2>5
    <3>4. QED BY <2>6, <2>7, <3>2, <3>3
  <2>10. QED BY <2>6, <2>8, <2>9
<1>8. IsFiniteSet(Lost \ cut) /\ Cardinality(Lost \ cut) <= cuts
  <2>1. by \in Injection(Lost \ cut, cut)
    BY <1>7, <1>6 DEF Injection, IsInjective
  <2>2. QED BY <1>4, <2>1, FS_Injection
<1>9. IsFiniteSet(Lost \cap cut) /\ Cardinality(Lost \cap cut) <= cuts
  BY <1>4, FS_Subset
<1>10. /\ Lost = (Lost \ cut) \cup (Lost \cap cut)
      /\ (Lost \ cut) \cap (Lost \cap cut) = {}
  OBVIOUS
<1> HIDE DEF Lost
<1>11. Cardinality(Lost) = Cardinality(Lost \ cut) + Cardinality(Lost \cap cut) - Cardinality({})
  BY <1>8, <1>9, <1>10, FS_Union
<1>12. Cardinality({}) = 0
  BY FS_EmptySet
<1>13. Cardinality(Lost \ cut) \in Nat /\ Cardinality(Lost \cap cut) \in Nat
  BY <1>8, <1>9, FS_CardinalityType
<1>14. QED BY <1>3, <1>8, <1>9, <1>11, <1>12, <1>13
-----------------------------------------------------------------------------
(* The theorems. *)

\* The inductive invariant holds: types, and the alignment of the stream.
THEOREM ParserInvariant == Spec => []IInv
<1>1. Init => IInv
  <2>1. Init => TypeOK
    BY InitTypes
  <2>2. Init => Aligned
    BY EmptySeq DEF Init, Aligned
  <2>3. QED BY <2>1, <2>2 DEF IInv
<1>2. IInv /\ [Next]_vars => IInv'
  <2>1. SUFFICES ASSUME IInv, [Next]_vars, cuts' = 0 PROVE Aligned'
    BY TypeStep DEF IInv
  <2>2. cuts \in Nat
    BY <2>1 DEF IInv, TypeOK
  <2>3. ASSUME NEW m \in Requests, Send(m) PROVE Aligned'
    BY <2>1, <2>3, AlignedSend DEF IInv, Send
  <2>4. ASSUME NEW m \in Requests, NEW k \in CutSizes, SendCut(m, k) PROVE Aligned'
    <3>1. cuts' = cuts + 1
      BY <2>4 DEF SendCut
    <3>2. QED BY <2>1, <2>2, <3>1
  <2>5. ASSUME NEW n \in RecvSizes, Receive(n) PROVE Aligned'
    BY <2>1, <2>5, AlignedReceive DEF IInv, Receive
  <2>6. ASSUME Parse PROVE Aligned'
    BY <2>1, <2>6, AlignedParse DEF IInv, Parse
  <2>7. ASSUME UNCHANGED vars PROVE Aligned'
    BY <2>1, <2>7 DEF IInv, vars, Aligned
  <2>8. QED BY <2>1, <2>3, <2>4, <2>5, <2>6, <2>7 DEF Next
<1>3. QED BY <1>1, <1>2, PTL DEF Spec

\* Every variable of the parser stays in its domain, with sends cut short too.
THEOREM ParserTypes == Spec => []TypeOK
<1>1. QED BY ParserInvariant, PTL DEF IInv

\* While no send is cut short, the VTDU is handed the requests of the message
\* centre as they were sent and in their order (parser_protocol, send_to_vtdu).
THEOREM OrderHolds == Spec => []HandedInOrder
<1>1. IInv => HandedInOrder
  <2>1. SUFFICES ASSUME IInv, cuts = 0 PROVE HandedInOrder
    BY DEF HandedInOrder
  <2>2. \A j \in 1 .. Len(told) : j <= Len(sent) /\ told[j] = sent[j]
    BY <2>1 DEF IInv, Aligned
  <2>3. Len(told) \in Nat /\ Len(sent) \in Nat
    BY <2>1, LenProperties DEF IInv, TypeOK
  <2>4. Len(told) <= Len(sent)
    <3>1. CASE Len(told) = 0
      BY <2>3, <3>1
    <3>2. CASE Len(told) \in 1 .. Len(told)
      BY <2>2, <3>2
    <3>3. QED BY <2>3, <3>1, <3>2
  <2>5. QED BY <2>2, <2>4 DEF HandedInOrder
<1>2. QED BY <1>1, ParserInvariant, PTL

\* ... and has all that were received when its thread waits for more.
THEOREM AtOnceHolds == Spec => []HandedAtOnce
<1>1. IInv => HandedAtOnce
  <2>1. SUFFICES ASSUME IInv, cuts = 0, ~parsing PROVE Len(told) = got \div 36
    BY DEF HandedAtOnce
  <2>2. got - valid = 36 * Len(told) /\ valid < 36
    BY <2>1 DEF IInv, Aligned
  <2>3. Len(told) \in Nat /\ valid \in Nat /\ got \in Nat
    BY <2>1, LenProperties, RoomAssumption DEF IInv, TypeOK
  <2>4. QED BY <2>2, <2>3
<1>2. QED BY <1>1, ParserInvariant, PTL

\* parser_income_data never has to make room while no send is cut short, so
\* its copy to discard_len, which may end behind the buffer, is not reached.
THEOREM InsideHolds == Spec => []InsideBuffer
<1>1. IInv => InsideBuffer
  <2>1. SUFFICES ASSUME IInv, overrun # "none" PROVE cuts > 0
    BY DEF InsideBuffer
  <2>2. cuts # 0 /\ cuts \in Nat
    BY <2>1 DEF IInv, Aligned, TypeOK
  <2>3. QED BY <2>2
<1>2. QED BY <1>1, ParserInvariant, PTL

\* With sends that are cut short: the requests that were not cut stand whole in
\* the stream, the buffer holds what follows the place that the parser has
\* reached, and before it everything was handed over or starts no message.
THEOREM CutsInvariant == Spec => []CutInv
<1>1. Init => CutInv
  BY CutInvInit
<1>2. CutInv /\ [Next]_vars => CutInv'
  BY CutInvNext
<1>3. QED BY <1>1, <1>2, PTL DEF Spec

\* As long as the checksum does not err, a send that was cut short spoils one
\* request, and every other one the VTDU acts on is one that was sent, in order
\* and once (parser_protocol).
THEOREM SpoilsOneHolds == Spec => []CutSpoilsOne
<1>1. QED BY CutsInvariant, CutSpoilsOneHolds, PTL

\* ... and what it costs is that request and the next one at most.
THEOREM LosesTwoHolds == Spec => []CutLosesTwo
<1>1. QED BY CutsInvariant, CutLosesTwoHolds, PTL
=============================================================================
