------------------------- MODULE PacketFramerProofs -------------------------
(***************************************************************************)
(* Proofs about the unpacker, for every stream of packets, every way to    *)
(* cut it into pieces and every sequence of calls; and about the bytes of  *)
(* a header, for every length.                                             *)
(***************************************************************************)
EXTENDS PacketFramer, SequenceTheorems, TLAPS

-----------------------------------------------------------------------------
(* Headers: a length in four bytes *)

(* The powers of two the masks are made of (pac.h:27-30).                  *)
LEMMA Powers ==
  /\ Two8 = 256
  /\ Two16 \in Nat \ {0} /\ Two24 \in Nat \ {0} /\ Half \in Nat \ {0}
  /\ Two16 = Two8 * Two8 /\ Two24 = Two8 * Two16 /\ Two32 = Two8 * Two24
<1>1. Two8 = 256 /\ Two16 \in Nat \ {0}
  BY DEF Two8, Two16
<1>2. Two24 \in Nat \ {0}
  BY <1>1 DEF Two24
<1>3. Half \in Nat \ {0} /\ Two32 = Two8 * Two24
  BY <1>1, <1>2 DEF Half, Two32
<1> QED BY <1>1, <1>2, <1>3 DEF Two16, Two24

(* Signed and Unsigned are inverse to one another: the conversions between *)
(* int and unsigned change no bit.                                         *)
LEMMA SignedUnsigned ==
  ASSUME NEW i \in Int32
  PROVE  Unsigned(i) \in Word /\ Signed(Unsigned(i)) = i
BY Powers, SMT DEF Unsigned, Signed, Int32, Word, Two32

(* The other way round.                                                    *)
LEMMA UnsignedSigned ==
  ASSUME NEW u \in Word
  PROVE  Signed(u) \in Int32 /\ Unsigned(Signed(u)) = u
BY Powers, SMT DEF Unsigned, Signed, Int32, Word, Two32

(* A number is its lowest byte and what a shift leaves of it, ...          *)
LEMMA Shift ==
  ASSUME NEW n \in Nat \ {0}, NEW u \in 0..Two8 * n - 1
  PROVE  /\ u % Two8 \in Byte
         /\ Rest(u) \in 0..n - 1
         /\ u = (u % Two8) + Two8 * Rest(u)
<1>1. Two8 = 256
  BY DEF Two8
<1>2. u \in Nat /\ u < 256 * n
  BY <1>1, SMT
<1> QED BY <1>1, <1>2, SMT DEF Byte, Rest

(* ... and putting a byte below a number puts it where a shift removes it. *)
LEMMA Unshift ==
  ASSUME NEW a \in Byte, NEW n \in Nat \ {0}, NEW r \in 0..n - 1
  PROVE  /\ a + Two8 * r \in 0..Two8 * n - 1
         /\ (a + Two8 * r) % Two8 = a
         /\ Rest(a + Two8 * r) = r
<1>1. Two8 = 256
  BY DEF Two8
<1> QED BY <1>1, SMT DEF Byte, Rest

(* A word has four bytes, which make it up.                                *)
LEMMA FourBytes ==
  ASSUME NEW u \in Word
  PROVE  /\ u % Two8 \in Byte
         /\ Rest(u) % Two8 \in Byte
         /\ Rest(Rest(u)) % Two8 \in Byte
         /\ Rest(Rest(Rest(u))) \in Byte
         /\ u = (u % Two8) + Two8 * ((Rest(u) % Two8)
                 + Two8 * ((Rest(Rest(u)) % Two8) + Two8 * Rest(Rest(Rest(u)))))
<1>0. /\ Two8 \in Nat \ {0} /\ Two16 \in Nat \ {0} /\ Two24 \in Nat \ {0}
      /\ Word = 0..Two8 * Two24 - 1
      /\ 0..Two24 - 1 = 0..Two8 * Two16 - 1
      /\ 0..Two16 - 1 = 0..Two8 * Two8 - 1
  <2>1. Two8 \in Nat \ {0}
    BY Powers
  <2> QED BY <2>1, Powers, Zenon DEF Word
<1>1. /\ u % Two8 \in Byte /\ u = (u % Two8) + Two8 * Rest(u)
      /\ Rest(u) \in 0..Two8 * Two16 - 1
  BY <1>0, Shift, Zenon
<1>2. /\ Rest(u) % Two8 \in Byte
      /\ Rest(u) = (Rest(u) % Two8) + Two8 * Rest(Rest(u))
      /\ Rest(Rest(u)) \in 0..Two8 * Two8 - 1
  BY <1>0, <1>1, Shift, Zenon
<1>3. /\ Rest(Rest(u)) % Two8 \in Byte
      /\ Rest(Rest(u)) = (Rest(Rest(u)) % Two8) + Two8 * Rest(Rest(Rest(u)))
      /\ Rest(Rest(Rest(u))) \in Byte
  BY <1>0, <1>2, Shift, Zenon DEF Byte
<1> QED BY <1>1, <1>2, <1>3, Zenon

(* int2byte yields four bytes: no digit is truncated when it is stored.    *)
THEOREM HeaderType ==
  \A i \in Int32 : int2byte(i) \in Byte \X Byte \X Byte \X Byte
<1> SUFFICES ASSUME NEW i \in Int32
             PROVE  int2byte(i) \in Byte \X Byte \X Byte \X Byte
  OBVIOUS
<1>1. Unsigned(i) \in Word
  BY SignedUnsigned
<1> QED BY <1>1, FourBytes DEF int2byte

(* A length written by int2byte is read back by byte2int, negative ones    *)
(* included (pac.h:25, 34).                                                *)
THEOREM LengthSurvives == \A i \in Int32 : byte2int(int2byte(i)) = i
<1> SUFFICES ASSUME NEW i \in Int32 PROVE byte2int(int2byte(i)) = i
  OBVIOUS
<1> DEFINE u == Unsigned(i)
<1>1. u \in Word /\ Signed(u) = i
  BY SignedUnsigned
<1>2. /\ int2byte(i)[1] = u % Two8
      /\ int2byte(i)[2] = Rest(u) % Two8
      /\ int2byte(i)[3] = Rest(Rest(u)) % Two8
      /\ int2byte(i)[4] = Rest(Rest(Rest(u)))
  BY DEF int2byte
<1> HIDE DEF u
<1> QED BY <1>1, <1>2, FourBytes, Zenon DEF byte2int

(* Every header stands for exactly one length: four bytes that are read    *)
(* and written again are the same four bytes.                              *)
THEOREM HeaderSurvives ==
  \A a, b, c, d \in Byte : int2byte(byte2int(<<a, b, c, d>>)) = <<a, b, c, d>>
<1> SUFFICES ASSUME NEW a \in Byte, NEW b \in Byte, NEW c \in Byte, NEW d \in Byte
             PROVE  int2byte(byte2int(<<a, b, c, d>>)) = <<a, b, c, d>>
  OBVIOUS
<1> DEFINE x == c + Two8 * d
           y == b + Two8 * x
           u == a + Two8 * y
<1>1. byte2int(<<a, b, c, d>>) = Signed(u)
  BY DEF byte2int
<1>2. /\ d \in 0..Two8 - 1
      /\ Two8 \in Nat \ {0} /\ Two16 \in Nat \ {0} /\ Two24 \in Nat \ {0}
      /\ Word = 0..Two8 * Two24 - 1
      /\ 0..Two24 - 1 = 0..Two8 * Two16 - 1
      /\ 0..Two16 - 1 = 0..Two8 * Two8 - 1
  <2>1. Two8 \in Nat \ {0}
    BY Powers
  <2> QED BY <2>1, Powers, Zenon DEF Word, Byte
<1>3. x \in 0..Two16 - 1 /\ x % Two8 = c /\ Rest(x) = d
  BY <1>2, Unshift, Zenon
<1> HIDE DEF x
<1>4. y \in 0..Two24 - 1 /\ y % Two8 = b /\ Rest(y) = x
  BY <1>2, <1>3, Unshift, Zenon
<1> HIDE DEF y
<1>5. u \in Word /\ u % Two8 = a /\ Rest(u) = y
  BY <1>2, <1>4, Unshift, Zenon
<1> HIDE DEF u
<1>6. Unsigned(Signed(u)) = u
  BY <1>5, UnsignedSigned
<1> QED BY <1>1, <1>3, <1>4, <1>5, <1>6, Zenon DEF int2byte

-----------------------------------------------------------------------------
(* Runs of the stream and sequences of packets *)

(* A run is a sequence of offsets of its length.  (pac.h's byte pointers)  *)
LEMMA RunType ==
  ASSUME NEW a \in Nat, NEW n \in Nat
  PROVE  /\ Run(a, n) \in Seq(Int)
         /\ Len(Run(a, n)) = n
         /\ \A i \in 1..n : Run(a, n)[i] = a + i - 1
BY DEF Run

(* Two adjacent runs make one: what memcpy behind the bytes already there  *)
(* does (pac.h:138, 144, 170).                                             *)
LEMMA RunConcat ==
  ASSUME NEW a \in Nat, NEW m \in Nat, NEW n \in Nat
  PROVE  Run(a, m) \o Run(a + m, n) = Run(a, m + n)
BY DEF Run

(* The beginning and the rest of a run are runs: what moving the pointer   *)
(* forward does (pac.h:128, 146).                                          *)
LEMMA RunSplit ==
  ASSUME NEW a \in Nat, NEW n \in Nat, NEW j \in 0..n
  PROVE  /\ SubSeq(Run(a, n), 1, j) = Run(a, j)
         /\ SubSeq(Run(a, n), j + 1, n) = Run(a + j, n - j)
BY DEF Run

(* One more packet at the end of the first n.                              *)
LEMMA FirstPacketsAppend ==
  ASSUME NEW n \in Nat
  PROVE  Append(FirstPackets(n), Packet(n + 1)) = FirstPackets(n + 1)
BY DEF FirstPackets

(* Pushing to the queue is pushing to all that was unpacked.               *)
LEMMA AppendBehind ==
  ASSUME NEW S, NEW s \in Seq(S), NEW t \in Seq(S), NEW e \in S
  PROVE  s \o Append(t, e) = Append(s \o t, e)
BY ConcatProperties, AppendProperties, SeqEqual

(* Moving the head of the queue to the end of what was taken changes       *)
(* nothing in the two together.                                            *)
LEMMA MoveHead ==
  ASSUME NEW S, NEW s \in Seq(S), NEW t \in Seq(S), t # << >>
  PROVE  Append(s, Head(t)) \o Tail(t) = s \o t
BY ConcatProperties, AppendProperties, HeadTailProperties, SeqEqual
-----------------------------------------------------------------------------
(* Types, and what holds of an activation even after a cut *)

(* The offsets of the stream are numbers, and a length is never negative.  *)
LEMMA WireTypes ==
  /\ StreamEnd \in Nat
  /\ \A k \in 1..Len(Start) : Start[k] \in Nat
  /\ \A k \in Packets : PacketLen(k) \in Nat
<1>1. Len(Start) \in Nat \ {0} /\ \A k \in 1..Len(Start) : Start[k] \in Nat
  BY StartAssumption
<1>2. ASSUME NEW k \in Packets PROVE PacketLen(k) \in Nat
  <2>1. k \in 1..Len(Start) /\ k + 1 \in 1..Len(Start) /\ k < k + 1
    BY <1>1 DEF Packets
  <2>2. Start[k] + 4 <= Start[k + 1] /\ Start[k] \in Nat /\ Start[k + 1] \in Nat
    BY <1>1, <2>1, StartAssumption DEF Hdr
  <2> QED BY <2>2 DEF PacketLen, Hdr
<1> QED BY <1>1, <1>2 DEF StreamEnd

(* A descriptor is allocated, hence not NULL (pac.h:123).                  *)
LEMMA DescNotNull ==
  ASSUME NEW len \in Nat, NEW loop \in Nat, NEW bytes \in Seq(Int)
  PROVE  /\ [length |-> len, loop |-> loop, buffer |-> bytes] \in Desc
         /\ [length |-> len, loop |-> loop, buffer |-> bytes] # NULL
<1> DEFINE d == [length |-> len, loop |-> loop, buffer |-> bytes]
<1>1. d \in Desc
  BY DEF Desc
<1> HIDE DEF d
<1>2. d # NULL
  BY <1>1, ConstantsAssumption
<1> QED BY <1>1, <1>2 DEF d

(* Between calls there is nothing to unpack; the initial state is so.      *)
LEMMA InitWellFormed == Init => TypeOK /\ Shape
<1> SUFFICES ASSUME Init PROVE TypeOK /\ Shape
  OBVIOUS
<1>1. cut \in BOOLEAN
  BY Zenon DEF Init
<1>2. /\ fed \in Nat /\ call \in Nat /\ fed + call <= StreamEnd
      /\ buffer \in Seq(Int) /\ Len(buffer) = 0 /\ size = 0
      /\ pendingQueue \in Seq(Desc) /\ out \in Seq(Desc)
  BY WireTypes DEF Init
<1> QED BY <1>1, <1>2 DEF Init, TypeOK, Shape

(* What a length decodes to is a number.                                   *)
LEMMA DecodedType == \A bytes : Decoded(bytes) \subseteq Nat
BY WireTypes, ConstantsAssumption DEF Decoded

(* The steps of packet_in keep the types and the correspondence of size,   *)
(* buffer and pd: the start of an activation,                              *)
LEMMA EnterWellFormed ==
  ASSUME TypeOK, Shape, Enter PROVE TypeOK' /\ Shape'
<1>1. CASE ~Remainder /\ size = 0 /\ Return /\ UNCHANGED pr
  BY <1>1 DEF Enter, Return, TypeOK, Shape
<1>2. CASE NoMerge /\ pc' = (IF pd = NULL THEN "header" ELSE "body")
                   /\ UNCHANGED <<fed, call>>
  BY <1>2 DEF Enter, NoMerge, TypeOK, Shape
<1>3. CASE Merge /\ pc' = (IF pd = NULL THEN "header" ELSE "body")
                 /\ UNCHANGED <<fed, call>>
  <2> DEFINE held == SubSeq(pr.buffer, 1, pr.loop)
             merged == held \o buffer
  <2>1. /\ pr.loop \in 1..3
        /\ pr.buffer \in [1..3 -> Int]
    <3>1. pr # NULL /\ pr.loop # 0 /\ pr \in {NULL} \cup Held
      BY <1>3 DEF Merge, Remainder, TypeOK
    <3>2. pr \in [loop : 0..3, buffer : [1..3 -> Int]]
      BY <3>1 DEF Held, Hdr
    <3> QED BY <3>1, <3>2
  <2>2. held \in Seq(Int) /\ Len(held) = pr.loop
    <3>1. \A i \in 1..pr.loop : pr.buffer[i] \in Int
      BY <2>1
    <3> QED BY <2>1, <3>1, SubSeqProperties
  <2>3. buffer \in Seq(Int) /\ Len(buffer) = size /\ size \in Nat
    BY DEF Enter, TypeOK, Shape
  <2> HIDE DEF held
  <2>4. merged \in Seq(Int) /\ Len(merged) = pr.loop + size
        /\ \A i \in 1..Len(merged) : merged[i] \in Int
    <3>1. merged \in Seq(Int) /\ Len(merged) = Len(held) + Len(buffer)
      BY <2>2, <2>3, ConcatProperties
    <3> HIDE DEF merged
    <3>2. \A i \in 1..Len(merged) : merged[i] \in Int
      BY <3>1, ElementOfSeq
    <3> QED BY <2>2, <2>3, <3>1, <3>2
  <2> HIDE DEF merged
  <2>5. /\ buffer' = merged
        /\ size' = size + pr.loop
        /\ pr' = [loop   |-> 0,
                  buffer |-> [i \in 1..3 |-> IF i <= Len(merged)
                                             THEN merged[i]
                                             ELSE pr.buffer[i]]]
    BY <1>3 DEF Merge, Hdr, merged, held
  <2>6. pr' \in Held
    <3>1. \A i \in 1..3 : i <= Len(merged) => merged[i] \in Int
      BY <2>1, <2>3, <2>4
    <3>2. [i \in 1..3 |-> IF i <= Len(merged) THEN merged[i]
                                              ELSE pr.buffer[i]]
            \in [1..3 -> Int]
      BY <2>1, <3>1
    <3> QED BY <2>5, <3>2 DEF Held, Hdr
  <2>7. /\ pc' = (IF pd = NULL THEN "header" ELSE "body")
        /\ UNCHANGED <<fed, call, pd, pendingQueue, out, cut>>
    BY <1>3 DEF Enter, Return
  <2>8. size' > 0 /\ buffer' \in Seq(Int) /\ Len(buffer') = size'
    BY <2>1, <2>3, <2>4, <2>5
  <2> QED BY <2>3, <2>6, <2>7, <2>8 DEF TypeOK, Shape
<1> QED BY <1>1, <1>2, <1>3 DEF Enter

(* the header,                                                             *)
LEMMA ReadHeaderWellFormed ==
  ASSUME TypeOK, Shape, ReadHeader PROVE TypeOK' /\ Shape'
<1>1. PICK len \in Nat : pd' = [length |-> len, loop |-> 0, buffer |-> << >>]
  BY DecodedType DEF ReadHeader
<1>2. pd' \in Desc /\ pd' # NULL /\ pd'.loop <= pd'.length
  <2>1. << >> \in Seq(Int) /\ 0 \in Nat
    OBVIOUS
  <2>2. pd' \in Desc /\ pd' # NULL
    BY <1>1, <2>1, DescNotNull
  <2> QED BY <1>1, <2>2
<1>3. buffer' \in Seq(Int) /\ Len(buffer') = IF size' < 0 THEN 0 ELSE size'
  BY DEF ReadHeader, Hdr, TypeOK, Shape
<1> QED BY <1>2, <1>3 DEF ReadHeader, Hdr, TypeOK, Shape

(* a packet that is not yet complete,                                      *)
LEMMA FillWellFormed ==
  ASSUME TypeOK, Shape, Fill PROVE TypeOK' /\ Shape'
<1>1. /\ pd.length \in Nat /\ pd.loop \in Nat /\ pd.buffer \in Seq(Int)
      /\ size \in Nat
      /\ buffer \in Seq(Int)
  BY DEF Fill, TypeOK, Shape, Desc
<1>2. pd.buffer \o buffer \in Seq(Int)
  BY <1>1, ConcatProperties
<1>3. pd' \in Desc /\ pd' # NULL
  <2>1. pd.loop + size \in Nat
    BY <1>1
  <2>2. pd' = [length |-> pd.length, loop |-> pd.loop + size,
               buffer |-> pd.buffer \o buffer]
    BY DEF Fill
  <2> QED BY <1>1, <1>2, <2>1, <2>2, DescNotNull
<1>4. pd'.loop <= pd'.length
  BY <1>1 DEF Fill
<1>5. /\ pc' = "idle" /\ fed' = fed + call /\ call' = 0
      /\ buffer' = << >> /\ size' = 0
      /\ UNCHANGED <<pr, pendingQueue, out, cut>>
  BY DEF Fill, Return
<1>6. TypeOK'
  BY <1>3, <1>5, EmptySeq DEF TypeOK
<1>7. Shape'
  BY <1>3, <1>4, <1>5, EmptySeq DEF Shape
<1> QED BY <1>6, <1>7

(* and one that is.                                                        *)
LEMMA CompleteWellFormed ==
  ASSUME TypeOK, Shape, Complete PROVE TypeOK' /\ Shape'
<1> DEFINE remain == pd.length - pd.loop
           rest   == size - remain
           body   == pd.buffer \o SubSeq(buffer, 1, remain)
           pt     == [length |-> pd.length, loop |-> pd.length,
                      buffer |-> body]
<1>1. /\ pd.length \in Nat /\ pd.loop \in Nat /\ pd.buffer \in Seq(Int)
      /\ size \in Nat
      /\ buffer \in Seq(Int) /\ Len(buffer) = size
      /\ pd.loop <= pd.length
  BY DEF Complete, TypeOK, Shape, Desc
<1>2. remain \in 0..size /\ rest \in Nat
  <2>1. pd.loop + size >= pd.length
    BY DEF Complete
  <2> QED BY <1>1, <2>1
<1>3. SubSeq(buffer, 1, remain) \in Seq(Int)
  BY <1>1, <1>2
<1>4. pt \in Desc
  BY <1>1, <1>3, ConcatProperties DEF Desc
<1>5. pendingQueue' \in Seq(Desc) /\ pd' = NULL /\ UNCHANGED <<out, cut>>
  BY <1>4, AppendProperties DEF Complete, TypeOK
<1>6. CASE rest = 0 /\ Return /\ UNCHANGED pr
  BY <1>5, <1>6 DEF Return, TypeOK, Shape
<1>7. CASE Hold(rest)
  <2>1. pr' \in Held
    <3>1. rest \in 0..3
      BY <1>2, <1>7 DEF Hold, Hdr
    <3>2. [i \in 1..3 |-> Junk] \in [1..3 -> Int]
      BY DEF Junk
    <3>3. pr # NULL => pr.buffer \in [1..3 -> Int]
      BY DEF TypeOK, Held, Hdr
    <3> HIDE DEF rest
    <3> QED BY <1>7, <3>1, <3>2, <3>3 DEF Hold, Held, Hdr
  <2> QED BY <1>5, <1>7, <2>1 DEF Hold, Return, TypeOK, Shape
<1>8. CASE /\ rest >= Hdr
           /\ buffer' = SubSeq(buffer, remain + 1, size)
           /\ size' = rest
           /\ pc' = "enter"
           /\ UNCHANGED <<fed, call, pr>>
  <2>1. buffer' \in Seq(Int) /\ Len(buffer') = rest
    BY <1>1, <1>2, <1>8
  <2> HIDE DEF rest, remain
  <2>2. size' = rest /\ pc' = "enter" /\ UNCHANGED <<fed, call, pr>>
    BY <1>8
  <2>3. TypeOK'
    BY <1>2, <1>5, <2>1, <2>2 DEF TypeOK
  <2>4. Shape'
    BY <1>2, <1>5, <2>1, <2>2 DEF Shape
  <2> QED BY <2>3, <2>4
<1> QED BY <1>6, <1>7, <1>8 DEF Complete

(* So does every step of the program.                                      *)
LEMMA NextWellFormed ==
  TypeOK /\ Shape /\ [Next]_vars => TypeOK' /\ Shape'
<1> SUFFICES ASSUME TypeOK, Shape, [Next]_vars PROVE TypeOK' /\ Shape'
  OBVIOUS
<1>1. ASSUME NEW n \in 0..MaxChunk, PacketIn(n) PROVE TypeOK' /\ Shape'
  <2>1. n \in Nat
    BY ConstantsAssumption
  <2>2. Run(fed, n) \in Seq(Int) /\ Len(Run(fed, n)) = n
    BY <2>1, RunType DEF TypeOK
  <2> QED BY <1>1, <2>1, <2>2 DEF PacketIn, CutsHeader, TypeOK, Shape
<1>2. CASE Enter
  BY <1>2, EnterWellFormed
<1>3. CASE ReadHeader
  BY <1>3, ReadHeaderWellFormed
<1>4. CASE NoBody
  BY <1>4 DEF NoBody, Return, TypeOK, Shape
<1>5. CASE Fill
  BY <1>5, FillWellFormed
<1>6. CASE Complete
  BY <1>6, CompleteWellFormed
<1>7. CASE PacketOut
  <2>1. Head(pendingQueue) \in Desc /\ Tail(pendingQueue) \in Seq(Desc)
    BY <1>7, HeadTailProperties DEF PacketOut, TypeOK
  <2> QED BY <1>7, <2>1, AppendProperties DEF PacketOut, TypeOK, Shape
<1>8. CASE PacketDestory
  <2>1. TypeOK'
    <3>1. cut' \in BOOLEAN
      BY <1>8, Zenon DEF PacketDestory
    <3>2. /\ fed' \in Nat /\ call' \in Nat /\ fed' + call' <= StreamEnd
          /\ pendingQueue' \in Seq(Desc) /\ out' \in Seq(Desc)
      BY <1>8, WireTypes DEF PacketDestory, TypeOK, Shape
    <3> QED BY <1>8, <3>1, <3>2 DEF PacketDestory, TypeOK
  <2> QED BY <1>8, <2>1 DEF PacketDestory, Shape
<1>9. CASE UNCHANGED vars
  BY <1>9 DEF vars, TypeOK, Shape
<1> QED BY <1>1, <1>2, <1>3, <1>4, <1>5, <1>6, <1>7, <1>8, <1>9
    DEF Next, Unpack

(* The state of the unpacker is well typed whatever the caller does.       *)
THEOREM Typing == Spec => []TypeOK
<1>1. Init => TypeOK /\ Shape
  BY InitWellFormed
<1>2. TypeOK /\ Shape /\ [Next]_vars => (TypeOK /\ Shape)'
  BY NextWellFormed
<1> QED BY <1>1, <1>2, PTL DEF Spec

-----------------------------------------------------------------------------
(* The merged piece fits the inner buffer *)

(* What a remainder and the bytes to unpack amount to together grows with  *)
(* a new piece only, and then there is nothing left of the one before.     *)
LEMMA NextKeepsRoom ==
  TypeOK /\ Shape /\ Room /\ [Next]_vars => Room'
<1> SUFFICES ASSUME TypeOK, Shape, Room, [Next]_vars PROVE Room'
  OBVIOUS
<1> DEFINE held == IF pr = NULL THEN 0 ELSE pr.loop
<1>1. /\ MaxChunk \in Nat /\ Hdr = 4 /\ size \in Int
      /\ held \in 0..3
      /\ size + held <= MaxChunk + 3
  BY ConstantsAssumption DEF TypeOK, Held, Room, Hdr
<1>2. pc = "idle" => size = 0
  BY DEF Shape
<1>3. ASSUME UNCHANGED pr, size' <= size \/ size' <= MaxChunk, size' \in Int
      PROVE  Room'
  BY <1>1, <1>3 DEF Room
<1>4. ASSUME NEW n \in 0..MaxChunk, PacketIn(n) PROVE Room'
  BY <1>1, <1>3, <1>4 DEF PacketIn
<1>5. CASE Enter
  <2>1. CASE Return /\ UNCHANGED pr
    BY <1>1, <1>3, <2>1 DEF Return
  <2>2. CASE NoMerge
    BY <1>1, <1>3, <2>2 DEF NoMerge
  <2>3. CASE Merge
    <3>1. pr # NULL /\ size' = size + pr.loop /\ pr'.loop = 0
      BY <2>3 DEF Merge, Remainder
    <3> QED BY <1>1, <3>1 DEF Room
  <2> QED BY <1>5, <2>1, <2>2, <2>3 DEF Enter
<1>6. CASE ReadHeader
  BY <1>1, <1>3, <1>6 DEF ReadHeader
<1>7. CASE NoBody
  BY <1>1, <1>3, <1>7 DEF NoBody, Return
<1>8. CASE Fill
  BY <1>1, <1>3, <1>8 DEF Fill, Return
<1>9. CASE Complete
  <2> DEFINE rest == size - (pd.length - pd.loop)
  <2>1. rest \in Int /\ rest <= size
    <3>1. pd.length \in Nat /\ pd.loop \in Nat /\ pd.loop <= pd.length
      BY <1>9 DEF Complete, TypeOK, Shape, Desc
    <3> QED BY <1>1, <3>1
  <2>2. CASE rest = 0 /\ Return /\ UNCHANGED pr
    BY <1>1, <1>3, <2>2 DEF Return
  <2>3. CASE Hold(rest)
    <3>1. pr'.loop = rest /\ rest < 4 /\ size' = 0
      BY <2>3 DEF Hold, Return, Hdr
    <3> QED BY <1>1, <2>1, <3>1 DEF Room
  <2>4. CASE size' = rest /\ UNCHANGED pr
    BY <1>1, <1>3, <2>1, <2>4
  <2> QED BY <1>9, <2>2, <2>3, <2>4 DEF Complete
<1>10. CASE PacketOut
  BY <1>1, <1>3, <1>10 DEF PacketOut
<1>11. CASE PacketDestory
  BY <1>1, <1>2, <1>11 DEF PacketDestory, Room
<1>12. CASE UNCHANGED vars
  BY <1>12 DEF vars, Room
<1> QED BY <1>4, <1>5, <1>6, <1>7, <1>8, <1>9, <1>10, <1>11, <1>12
    DEF Next, Unpack

(* With an inner buffer larger than the largest piece and remainder, no    *)
(* copy into it goes beyond its end -- also after headers were cut.        *)
THEOREM Capacity == Spec => []Fits
<1>1. Init => TypeOK /\ Shape /\ Room
  <2>1. Init => Room
    BY ConstantsAssumption DEF Init, Room, Hdr
  <2> QED BY <2>1, InitWellFormed
<1>2. TypeOK /\ Shape /\ Room /\ [Next]_vars => (TypeOK /\ Shape /\ Room)'
  BY NextWellFormed, NextKeepsRoom
<1>3. TypeOK /\ Room => Fits
  BY ConstantsAssumption, BufferAssumption
     DEF TypeOK, Held, Room, Fits, Remainder, Hdr
<1> QED BY <1>1, <1>2, <1>3, PTL DEF Spec

-----------------------------------------------------------------------------
(* Where the unpacker stands in the stream, before the first cut *)

(* The run of no byte is empty.                                            *)
LEMMA RunEmpty == ASSUME NEW a \in Int PROVE Run(a, 0) = << >>
BY DEF Run

(* At the start of a stream the unpacker waits for its first packet.       *)
Fresh ==
  /\ fed = 0 /\ call = 0 /\ size = 0 /\ buffer = << >>
  /\ pr = NULL /\ pd = NULL /\ pendingQueue = << >> /\ out = << >>

(* A stream that begins anew is in step.                                   *)
LEMMA FreshInStep == Fresh => InStep
<1> SUFFICES ASSUME Fresh PROVE InStep
  OBVIOUS
<1>1. Len(Start) \in Nat \ {0} /\ Start[1] = 0
  BY StartAssumption
<1>2. ~CutsHeader(0)
  <2>1. \A k \in Packets : Start[k] \in Nat
    BY WireTypes, <1>1 DEF Packets
  <2> QED BY <2>1 DEF CutsHeader
<1>3. out \o pendingQueue = << >> /\ Len(<< >>) = 0
  BY DEF Fresh
<1>4. FirstPackets(0) = << >>
  BY DEF FirstPackets
<1>5. AlwaysFramed
  BY <1>1, <1>3, <1>4 DEF AlwaysFramed
<1>6. Current = 1 /\ Position = 0
  BY DEF Fresh, Current, Position
<1> QED BY <1>1, <1>2, <1>5, <1>6, RunEmpty DEF Fresh, InStep

(* Between two packets, bytes that are left begin with a whole header: the *)
(* piece does not end inside it (pac.h:122).                               *)
LEMMA HeaderIsWhole ==
  ASSUME TypeOK, NEW q \in 1..Len(Start), NEW n \in Nat \ {0},
         fed + call = Start[q] + n, ~CutsHeader(fed + call)
  PROVE  q \in Packets /\ n >= Hdr
<1>1. /\ Len(Start) \in Nat
      /\ \A k \in 1..Len(Start) : Start[k] \in Nat
  BY WireTypes, StartAssumption
<1>2. fed + call <= Start[Len(Start)]
  BY DEF TypeOK, StreamEnd
<1>3. q # Len(Start)
  BY <1>1, <1>2
<1>4. q \in Packets
  BY <1>1, <1>3 DEF Packets
<1> QED BY <1>1, <1>4 DEF CutsHeader, Hdr

(* A whole header decodes to the length of its packet (pac.h:124).         *)
LEMMA DecodedHeader ==
  ASSUME NEW q \in Packets
  PROVE  Decoded(Run(Start[q], Hdr)) = {PacketLen(q)}
<1>1. \A k \in Packets : k \in 1..Len(Start) /\ Start[k] \in Nat
  BY WireTypes, StartAssumption DEF Packets
<1>2. ASSUME NEW k \in Packets, Run(Start[k], Hdr) = Run(Start[q], Hdr)
      PROVE  k = q
  <2>1. Start[k] = Start[q]
    <3>1. Run(Start[k], Hdr)[1] = Start[k] /\ Run(Start[q], Hdr)[1] = Start[q]
      BY <1>1 DEF Run, Hdr
    <3> QED BY <1>2, <3>1
  <2>2. Start[k] + 4 <= Start[q] \/ Start[q] + 4 <= Start[k] \/ k = q
    BY <1>1, StartAssumption DEF Hdr, Packets
  <2> QED BY <1>1, <2>1, <2>2
<1>3. {k \in Packets : Run(Start[q], Hdr) = Run(Start[k], Hdr)} = {q}
  BY <1>2
<1> QED BY <1>3 DEF Decoded

(* Each step of the program keeps the unpacker in step with the stream:    *)
(* the start of a call,                                                    *)
LEMMA PacketInInStep ==
  ASSUME TypeOK, Shape, InStep, ~cut', NEW n \in Nat, PacketIn(n)
  PROVE  InStep'
<1>1. ~CutsHeader(fed + n)
  BY DEF PacketIn
<1>2. fed' = fed /\ call' = n /\ size' = n /\ buffer' = Run(fed, n)
      /\ UNCHANGED <<pr, pd, pendingQueue, out>>
  BY DEF PacketIn
<1>3. fed \in Nat /\ call = 0 /\ size = 0
  BY DEF PacketIn, TypeOK, Shape
<1>4. Position' = fed /\ Position = fed /\ Current' = Current
  BY <1>2, <1>3 DEF Position, Current
<1>5. AlwaysFramed'
  BY <1>2 DEF InStep, AlwaysFramed
<1> QED BY <1>1, <1>2, <1>3, <1>4, <1>5 DEF InStep, CutsHeader

(* the return from one that leaves pd and the queue as they are,           *)
LEMMA ReturnInStep ==
  ASSUME TypeOK, InStep, size = 0, Return,
         UNCHANGED <<pr, pd, pendingQueue, out>>
  PROVE  InStep'
<1>1. fed' = fed + call /\ call' = 0 /\ size' = 0 /\ buffer' = << >>
  BY DEF Return
<1>2. fed' + call' = fed + call /\ Position' = Position /\ Current' = Current
      /\ Position \in Int
  BY <1>1 DEF TypeOK, Position, Current
<1>3. AlwaysFramed'
  BY DEF InStep, AlwaysFramed
<1> QED BY <1>1, <1>2, <1>3, RunEmpty DEF InStep, CutsHeader

(* the start of an activation, where no remainder is waiting,              *)
LEMMA EnterInStep ==
  ASSUME TypeOK, Shape, InStep, Enter PROVE InStep'
<1>1. ~Remainder
  BY DEF InStep, Remainder
<1>2. CASE size = 0 /\ Return /\ UNCHANGED pr
  BY <1>2, ReturnInStep DEF Enter
<1>3. CASE NoMerge /\ UNCHANGED <<fed, call>>
  <2>1. UNCHANGED <<fed, call, buffer, size, pr, pd, pendingQueue, out>>
    BY <1>3 DEF NoMerge, Enter
  <2>2. Position' = Position /\ Current' = Current /\ AlwaysFramed' = AlwaysFramed
    BY <2>1 DEF Position, Current, AlwaysFramed
  <2> QED BY <2>1, <2>2 DEF InStep, CutsHeader
<1> QED BY <1>1, <1>2, <1>3 DEF Enter, Merge

(* the header of the next packet,                                          *)
LEMMA ReadHeaderInStep ==
  ASSUME TypeOK, Shape, InStep, ReadHeader PROVE InStep'
<1> DEFINE q == Current
<1>1. /\ pd = NULL /\ size \in Nat \ {0} /\ q \in 1..Len(Start)
      /\ Position = Start[q] /\ Start[q] \in Nat
      /\ fed + call = Start[q] + size
  <2>1. pd = NULL /\ size \in Nat \ {0} /\ Position = Start[q]
    BY DEF ReadHeader, Shape, TypeOK, InStep
  <2>2. Current = Len(out \o pendingQueue) + 1
    BY ConcatProperties DEF TypeOK, Current
  <2>3. q \in 1..Len(Start)
    BY <2>2, StartAssumption, ConcatProperties DEF InStep, AlwaysFramed, TypeOK
  <2> QED BY <2>1, <2>3, WireTypes DEF Position, TypeOK
<1>0. Current = q
  OBVIOUS
<1> HIDE DEF q
<1>2. q \in Packets /\ size >= Hdr
  BY <1>1, HeaderIsWhole DEF InStep
<1>3. SubSeq(buffer, 1, Hdr) = Run(Start[q], Hdr)
      /\ SubSeq(buffer, Hdr + 1, size) = Run(Start[q] + Hdr, size - Hdr)
  <2>1. buffer = Run(Start[q], size)
    BY <1>1 DEF InStep
  <2>2. Hdr \in 0..size
    BY <1>1, <1>2 DEF Hdr
  <2> QED BY <1>1, <2>1, <2>2, RunSplit
<1>4. pd' = [length |-> PacketLen(q), loop |-> 0, buffer |-> << >>]
  <2>1. SubSeq(buffer, 1, IF size < Hdr THEN size ELSE Hdr)
          = SubSeq(buffer, 1, Hdr)
    BY <1>1, <1>2 DEF Hdr
  <2>2. Decoded(SubSeq(buffer, 1, IF size < Hdr THEN size ELSE Hdr))
          = {PacketLen(q)}
    BY <1>2, <1>3, <2>1, DecodedHeader
  <2> QED BY <2>2 DEF ReadHeader
<1>5. size' = size - Hdr /\ buffer' = Run(Start[q] + Hdr, size - Hdr)
      /\ UNCHANGED <<fed, call, pr, pendingQueue, out>>
  <2>1. ~(size < Hdr)
    BY <1>1, <1>2 DEF Hdr
  <2> QED BY <1>3, <2>1 DEF ReadHeader
<1>6. Position' = Start[q] + Hdr /\ Current' = q /\ size' >= 0
  <2>1. Position' = fed + call - (size - 4) /\ Current' = Current
    BY <1>5 DEF Position, Current, Hdr
  <2>2. fed \in Nat /\ call \in Nat
    BY DEF TypeOK
  <2> QED BY <1>0, <1>1, <1>2, <1>5, <2>1, <2>2 DEF Hdr
<1>7. AlwaysFramed' /\ ~CutsHeader(fed' + call')
  BY <1>5 DEF InStep, AlwaysFramed
<1>8. pd' # NULL /\ pd'.length = PacketLen(q) /\ pd'.loop = 0
      /\ pd'.buffer = Run(Start[q] + Hdr, 0)
  <2>1. PacketLen(q) \in Nat /\ << >> \in Seq(Int)
    BY <1>2, WireTypes
  <2>2. Start[q] + Hdr \in Int
    BY <1>1 DEF Hdr
  <2> QED BY <1>4, <2>1, <2>2, DescNotNull, RunEmpty
<1>9. Start[q] + Hdr + 0 = Start[q] + Hdr
  BY <1>1 DEF Hdr
<1> QED BY <1>1, <1>2, <1>5, <1>6, <1>7, <1>8, <1>9 DEF InStep, CutsHeader

(* What the bytes in hand are while a body is being assembled.             *)
LEMMA InBody ==
  ASSUME TypeOK, Shape, InStep, pc = "body", size > 0
  PROVE  /\ Current \in Packets /\ Start[Current] \in Nat
         /\ size \in Nat /\ pd.loop \in Nat
         /\ pd.loop <= pd.length /\ pd.length = PacketLen(Current)
         /\ PacketLen(Current) \in Nat
         /\ pd.buffer = Run(Start[Current] + Hdr, pd.loop)
         /\ buffer = Run(Start[Current] + Hdr + pd.loop, size)
         /\ fed + call = Start[Current] + Hdr + pd.loop + size
<1>1. pd \in Desc /\ pd.loop \in Nat /\ pd.loop <= pd.length /\ size \in Nat
  BY DEF TypeOK, Shape, Desc
<1>2. Current \in Packets /\ Start[Current] \in Nat /\ PacketLen(Current) \in Nat
  BY WireTypes, StartAssumption DEF InStep, Shape, Packets
<1>3. /\ pd.length = PacketLen(Current)
      /\ pd.buffer = Run(Start[Current] + Hdr, pd.loop)
      /\ Position = Start[Current] + Hdr + pd.loop
      /\ buffer = Run(Position, size)
  BY DEF InStep, Shape
<1>4. fed + call = Start[Current] + Hdr + pd.loop + size
  BY <1>1, <1>2, <1>3 DEF Position, TypeOK, Hdr
<1> QED BY <1>1, <1>2, <1>3, <1>4

(* bytes that do not complete the packet,                                  *)
LEMMA FillInStep ==
  ASSUME TypeOK, Shape, InStep, Fill PROVE InStep'
<1> DEFINE q == Current
           a == Start[q] + Hdr
<1>1. /\ q \in Packets /\ a \in Nat /\ size \in Nat /\ pd.loop \in Nat
      /\ pd.length = PacketLen(q)
      /\ pd.buffer = Run(a, pd.loop) /\ buffer = Run(a + pd.loop, size)
      /\ fed + call = a + pd.loop + size
  BY InBody DEF Fill, Hdr
<1>0. q = Current /\ a = Start[q] + Hdr
  OBVIOUS
<1> HIDE DEF q, a
<1>2. /\ pd' = [length |-> pd.length, loop |-> pd.loop + size,
                buffer |-> pd.buffer \o buffer]
      /\ pd.loop + size < pd.length
      /\ fed' = fed + call /\ call' = 0 /\ size' = 0 /\ buffer' = << >>
      /\ UNCHANGED <<pr, pendingQueue, out>>
  BY DEF Fill, Return
<1>3. pd.buffer \o buffer = Run(a, pd.loop + size)
  <2>1. a \in Nat /\ pd.loop \in Nat /\ size \in Nat
    BY <1>1
  <2>2. Run(a, pd.loop) \o Run(a + pd.loop, size) = Run(a, pd.loop + size)
    BY <2>1, RunConcat
  <2> QED BY <1>1, <2>2
<1>4. Current' = q
  BY <1>0, <1>2 DEF Current
<1>5. fed' + call' = fed + call /\ Position' = a + (pd.loop + size)
      /\ Position' \in Int
  BY <1>1, <1>2 DEF Position, TypeOK
<1>6. pd' # NULL
  <2>1. /\ pd.length \in Nat /\ pd.loop + size \in Nat
        /\ pd.buffer \o buffer \in Seq(Int)
    <3>1. pd.length \in Nat /\ pd.loop \in Nat /\ size \in Nat /\ a \in Nat
      BY <1>1, WireTypes
    <3>2. pd.loop + size \in Nat
      BY <3>1
    <3> QED BY <1>3, <3>1, <3>2, RunType
  <2> QED BY <1>2, <2>1, DescNotNull
<1>7. AlwaysFramed' /\ ~CutsHeader(fed' + call')
  BY <1>2, <1>5 DEF InStep, AlwaysFramed
<1>8. /\ pr' = NULL /\ size' >= 0 /\ buffer' = Run(Position', size')
  <2>1. Run(Position', 0) = << >>
    BY <1>5, RunEmpty
  <2> QED BY <1>2, <2>1 DEF InStep
<1>9. /\ pd'.length = PacketLen(q)
      /\ pd'.loop < pd'.length
      /\ pd'.buffer = Run(Start[q] + Hdr, pd'.loop)
      /\ Position' = Start[q] + Hdr + pd'.loop
  BY <1>0, <1>1, <1>2, <1>3, <1>5
<1>10. ~CutsHeader(fed + call)'
  BY <1>7 DEF CutsHeader
<1> QED BY <1>1, <1>4, <1>6, <1>7, <1>8, <1>9, <1>10, Zenon DEF InStep

(* and those that do: the next packet is the one that follows.             *)
LEMMA CompleteInStep ==
  ASSUME TypeOK, Shape, InStep, Complete PROVE InStep'
<1> DEFINE q == Current
           a == Start[q] + Hdr
           remain == pd.length - pd.loop
           rest   == size - remain
           pt == [length |-> pd.length, loop |-> pd.length,
                  buffer |-> pd.buffer \o SubSeq(buffer, 1, remain)]
<1>0. pd.loop + size >= pd.length /\ pc = "body" /\ size > 0
  BY DEF Complete
<1>1. /\ q \in Packets /\ a \in Nat /\ size \in Nat /\ pd.loop \in Nat
      /\ pd.length \in Nat /\ pd.loop <= pd.length
      /\ pd.length = PacketLen(q)
      /\ pd.buffer = Run(a, pd.loop) /\ buffer = Run(a + pd.loop, size)
      /\ fed + call = a + pd.loop + size
  BY <1>0, InBody DEF Hdr
<1>9. q = Current /\ a = Start[q] + Hdr
  OBVIOUS
<1> HIDE DEF q, a
<1>2. remain \in 0..size /\ rest \in Nat /\ pd.loop + remain = pd.length
      /\ size - remain = rest /\ remain + rest = size
  BY <1>0, <1>1
<1>3. /\ SubSeq(buffer, 1, remain) = Run(a + pd.loop, remain)
      /\ SubSeq(buffer, remain + 1, size) = Run(a + pd.length, rest)
  <2>1. a + pd.loop \in Nat /\ (a + pd.loop) + remain = a + pd.length
    BY <1>1, <1>2
  <2>2. /\ SubSeq(Run(a + pd.loop, size), 1, remain) = Run(a + pd.loop, remain)
        /\ SubSeq(Run(a + pd.loop, size), remain + 1, size)
             = Run((a + pd.loop) + remain, size - remain)
    BY <1>1, <1>2, <2>1, RunSplit
  <2>3. (a + pd.loop) + remain = a + pd.length /\ size - remain = rest
    BY <1>1, <1>2, <2>1
  <2> QED BY <1>1, <2>2, <2>3
<1>4. pt = Packet(q) /\ pt \in Desc
  <2>1. Run(a, pd.loop) \o Run(a + pd.loop, remain) = Run(a, pd.loop + remain)
    <3>1. a \in Nat /\ pd.loop \in Nat /\ remain \in Nat
      BY <1>1, <1>2
    <3> HIDE DEF remain
    <3> QED BY <3>1, RunConcat
  <2>2. pt = Packet(q)
    BY <1>1, <1>2, <1>3, <1>9, <2>1 DEF Packet
  <2>3. Packet(q) \in Desc
    BY <1>1, <1>9, RunType DEF Packet, Desc
  <2> QED BY <2>2, <2>3
<1>5. /\ pendingQueue' = Append(pendingQueue, pt) /\ pd' = NULL
      /\ UNCHANGED out
      /\ \/ rest = 0 /\ Return /\ UNCHANGED pr
         \/ Hold(rest)
         \/ /\ rest >= Hdr
            /\ buffer' = SubSeq(buffer, remain + 1, size)
            /\ size' = rest
            /\ pc' = "enter"
            /\ UNCHANGED <<fed, call, pr>>
  BY DEF Complete
<1> HIDE DEF remain, rest, pt
<1>6. q + 1 \in 1..Len(Start) /\ Start[q + 1] = a + pd.length
      /\ q \in Nat /\ Start[q + 1] \in Nat
  <2>1. q \in Nat /\ q + 1 \in 1..Len(Start) /\ q \in 1..Len(Start)
    BY <1>1, StartAssumption DEF Packets
  <2>2. Start[q] \in Nat /\ Start[q + 1] \in Nat
    BY <2>1, WireTypes
  <2>3. pd.length = Start[q + 1] - (Start[q] + 4) /\ a = Start[q] + 4
    BY <1>1, <1>9, <2>2 DEF PacketLen, Hdr
  <2>4. \A i, j, l \in Nat : l = j - (i + 4) => j = i + 4 + l
    OBVIOUS
  <2>5. pd.length \in Nat
    BY <1>1
  <2> QED BY <2>1, <2>2, <2>3, <2>4, <2>5
<1>7. fed + call = Start[q + 1] + rest
  <2>1. a + pd.loop + size = a + (pd.loop + remain) + rest
    BY <1>1, <1>2
  <2> QED BY <1>1, <1>2, <1>6, <2>1
<1>8. ~CutsHeader(fed + call) /\ pr = NULL /\ AlwaysFramed
  BY DEF InStep
<1>10. Current' = q + 1 /\ AlwaysFramed'
  <2> DEFINE got == out \o pendingQueue
  <2>1. got \in Seq(Desc) /\ Len(got) = Len(out) + Len(pendingQueue)
        /\ got = FirstPackets(Len(got)) /\ Len(got) \in Nat
    BY <1>8, ConcatProperties DEF TypeOK, AlwaysFramed
  <2>2. Len(got) + 1 = q
    BY <1>9, <2>1 DEF Current
  <2>3. out \o pendingQueue' = Append(got, pt)
    BY <1>4, <1>5, AppendBehind DEF TypeOK
  <2>4. Len(pendingQueue') = Len(pendingQueue) + 1
    BY <1>5, AppendProperties DEF TypeOK
  <2> HIDE DEF got
  <2>5. Append(got, pt) = FirstPackets(q) /\ Len(Append(got, pt)) = q
    BY <1>4, <2>1, <2>2, FirstPacketsAppend, AppendProperties
  <2>6. AlwaysFramed'
    BY <1>1, <1>5, <2>3, <2>5 DEF AlwaysFramed, Packets
  <2>7. Current' = q + 1
    BY <1>5, <1>9, <2>4 DEF Current, TypeOK
  <2> QED BY <2>6, <2>7
<1>11. rest = 0 \/ rest >= Hdr
  <2>1. CASE rest = 0
    BY <2>1
  <2>2. CASE rest # 0
    BY <1>2, <1>6, <1>7, <1>8, <2>2, HeaderIsWhole
  <2> QED BY <2>1, <2>2
<1>12. CASE rest = 0 /\ Return /\ UNCHANGED pr
  <2>1. fed' = fed + call /\ call' = 0 /\ size' = 0 /\ buffer' = << >>
    BY <1>12 DEF Return
  <2>2. fed' + call' = fed + call /\ Position' = Start[q + 1]
    BY <1>6, <1>7, <1>12, <2>1 DEF Position, TypeOK
  <2> QED BY <1>5, <1>6, <1>8, <1>10, <1>12, <2>1, <2>2, RunEmpty
      DEF InStep, CutsHeader
<1>13. CASE /\ rest >= Hdr
            /\ buffer' = SubSeq(buffer, remain + 1, size)
            /\ size' = rest
            /\ pc' = "enter"
            /\ UNCHANGED <<fed, call, pr>>
  <2>1. Position' = Start[q + 1]
    <3>1. Position' = fed + call - rest
      BY <1>13 DEF Position
    <3>2. fed \in Nat /\ call \in Nat /\ rest \in Nat /\ Start[q + 1] \in Nat
      BY <1>2, <1>6 DEF TypeOK
    <3> QED BY <1>7, <3>1, <3>2
  <2>2. buffer' = Run(Position', size')
    BY <1>3, <1>6, <1>13, <2>1
  <2> QED BY <1>2, <1>5, <1>6, <1>8, <1>10, <1>13, <2>1, <2>2
      DEF InStep, CutsHeader
<1>14. ~Hold(rest)
  BY <1>2, <1>11 DEF Hold, Hdr
<1> QED BY <1>5, <1>12, <1>13, <1>14

(* Taking a packet moves it from the queue to the packets taken.           *)
LEMMA PacketOutInStep ==
  ASSUME TypeOK, InStep, PacketOut PROVE InStep'
<1>1. /\ out' = Append(out, Head(pendingQueue))
      /\ pendingQueue' = Tail(pendingQueue) /\ pendingQueue # << >>
      /\ UNCHANGED <<fed, call, buffer, size, pc, pr, pd, cut>>
  BY DEF PacketOut
<1>2. out' \o pendingQueue' = out \o pendingQueue
  BY <1>1, MoveHead DEF TypeOK
<1>3. Len(out') + Len(pendingQueue') = Len(out) + Len(pendingQueue)
  BY <1>1, HeadTailProperties, AppendProperties, LenProperties DEF TypeOK
<1>4. Current' = Current /\ Position' = Position /\ AlwaysFramed'
  BY <1>1, <1>2, <1>3 DEF Current, Position, InStep, AlwaysFramed
<1> QED BY <1>1, <1>4 DEF InStep, CutsHeader

(* The strengthening is inductive.                                         *)
THEOREM Inductive ==
  /\ Init => IInv
  /\ IInv /\ [Next]_vars => IInv'
<1>1. Init => IInv
  BY InitWellFormed, FreshInStep DEF Init, Fresh, IInv
<1>2. ASSUME IInv, [Next]_vars PROVE IInv'
  <2>1. TypeOK /\ Shape /\ TypeOK' /\ Shape'
    BY <1>2, NextWellFormed DEF IInv
  <2> SUFFICES ASSUME ~cut' PROVE InStep'
    BY <2>1 DEF IInv
  <2>2. CASE PacketDestory
    <3>1. Fresh'
      BY <2>1, <2>2, LenProperties DEF PacketDestory, Fresh, Shape, TypeOK
    <3>2. Fresh' => InStep'
      BY FreshInStep, PTL
    <3> QED BY <3>1, <3>2
  <2>3. CASE ~PacketDestory
    <3>1. ~cut
      BY <1>2, <2>3 DEF Next, PacketIn, Unpack, Enter, ReadHeader, NoBody,
                        Fill, Complete, PacketOut, vars
    <3>2. InStep
      BY <1>2, <3>1 DEF IInv
    <3>3. CASE \E n \in 0..MaxChunk : PacketIn(n)
      BY <2>1, <3>2, <3>3, PacketInInStep, ConstantsAssumption
    <3>4. CASE Enter
      BY <2>1, <3>2, <3>4, EnterInStep
    <3>5. CASE ReadHeader
      BY <2>1, <3>2, <3>5, ReadHeaderInStep
    <3>6. CASE NoBody
      <4>1. size = 0
        BY <2>1, <3>2, <3>6 DEF NoBody, InStep, TypeOK
      <4> QED BY <2>1, <3>2, <3>6, <4>1, ReturnInStep DEF NoBody
    <3>7. CASE Fill
      BY <2>1, <3>2, <3>7, FillInStep
    <3>8. CASE Complete
      BY <2>1, <3>2, <3>8, CompleteInStep
    <3>9. CASE PacketOut
      BY <2>1, <3>2, <3>9, PacketOutInStep
    <3>10. CASE UNCHANGED vars
      BY <3>2, <3>10 DEF vars, InStep, Current, Position, AlwaysFramed, CutsHeader
    <3> QED BY <1>2, <2>3, <3>3, <3>4, <3>5, <3>6, <3>7, <3>8, <3>9, <3>10
        DEF Next, Unpack
  <2> QED BY <2>2, <2>3
<1> QED BY <1>1, <1>2

(* The invariant checked on the small instance holds for every stream.     *)
THEOREM Invariance == Spec => []IInv
BY Inductive, PTL DEF Spec

(* For every stream and every way to cut it between headers or inside      *)
(* bodies, the packets come back byte for byte, in order, each once, until *)
(* a piece ends inside a header.                                           *)
THEOREM Framing == Spec => []Framed
<1>1. IInv => Framed
  BY DEF IInv, InStep, Framed
<1> QED BY <1>1, Invariance, PTL

(* When packet_in returns, no packet whose bytes are all there waits for a *)
(* later call.                                                             *)
THEOREM Promptness == Spec => []Prompt
<1>1. IInv => Prompt
  <2> SUFFICES ASSUME IInv, pc = "idle", ~cut,
                      NEW k \in Packets, Stream!Due(k),
                      ~(k <= Len(out) + Len(pendingQueue))
               PROVE  FALSE
    BY DEF Prompt
  <2> DEFINE q == Current
  <2>1. TypeOK /\ Shape /\ InStep /\ Position = fed /\ fed \in Nat
    BY DEF IInv, Shape, TypeOK, Position
  <2>2. k \in 1..Len(Start) /\ k + 1 \in 1..Len(Start) /\ k \in Nat
        /\ Len(Start) \in Nat
    BY StartAssumption DEF Packets
  <2>3. Start[k + 1] <= fed /\ Start[k] + 4 < fed
    BY DEF Stream!Due, Stream!Whole, Stream!Hdr
  <2>4. q \in Nat /\ 1 <= q /\ q <= k
    BY <2>1, <2>2, LenProperties DEF TypeOK, Current
  <2>5. q \in 1..Len(Start) /\ q + 1 \in 1..Len(Start)
    BY <2>2, <2>4
  <2>6. (pd = NULL => fed = Start[q])
        /\ (pd # NULL => /\ pd.length = PacketLen(q)
                         /\ pd.loop < pd.length \/ pd.loop = 0
                         /\ fed = Start[q] + Hdr + pd.loop)
    BY <2>1 DEF InStep
  <2>7. pd # NULL => pd.loop \in Nat
    BY <2>1 DEF TypeOK, Desc
  <2> HIDE DEF q
  <2>8. Start[q] \in Nat /\ Start[q + 1] \in Nat /\ Start[k] \in Nat
        /\ Start[k + 1] \in Nat
    BY <2>2, <2>5, WireTypes
  <2>9. Start[q] <= Start[k] /\ Start[q + 1] <= Start[k + 1]
    <3>1. CASE q = k
      BY <2>8, <3>1
    <3>2. CASE q < k
      <4>1. q + 1 < k + 1
        BY <2>2, <2>4, <3>2
      <4>2. Start[q] + Hdr <= Start[k]
        BY <2>2, <2>5, <3>2, StartAssumption
      <4>3. Start[q + 1] + Hdr <= Start[k + 1]
        BY <2>2, <2>5, <4>1, StartAssumption
      <4> QED BY <2>8, <4>2, <4>3 DEF Hdr
    <3> QED BY <2>2, <2>4, <3>1, <3>2
  <2>10. CASE pd = NULL
    BY <2>1, <2>3, <2>6, <2>8, <2>9, <2>10
  <2>11. CASE pd # NULL /\ pd.loop = 0
    <3>1. fed = Start[q] + Hdr + 0
      BY <2>6, <2>11
    <3> QED BY <2>3, <2>8, <2>9, <3>1 DEF Hdr
  <2>12. CASE pd # NULL /\ pd.loop < pd.length
    <3>1. pd.length = Start[q + 1] - (Start[q] + 4)
      BY <2>6, <2>8, <2>12 DEF PacketLen, Hdr
    <3>2. fed = Start[q] + 4 + pd.loop
      BY <2>6, <2>12 DEF Hdr
    <3>3. pd.loop \in Nat
      BY <2>7, <2>12
    <3>4. fed < Start[q + 1]
      BY <2>8, <2>12, <3>1, <3>2, <3>3
    <3> QED BY <2>1, <2>3, <2>8, <2>9, <3>4
  <2> QED BY <2>6, <2>10, <2>11, <2>12
<1> QED BY <1>1, Invariance, PTL

-----------------------------------------------------------------------------
(* The unpacker implements the abstract stream of packets *)

(* The abstract module defines the wire format over again.                 *)
LEMMA SameWire ==
  /\ Stream!Packets = Packets
  /\ Stream!StreamEnd = StreamEnd
  /\ Stream!Hdr = Hdr
  /\ \A e : Stream!CutsHeader(e) <=> CutsHeader(e)
  /\ \A k : Stream!Packet(k) = Packet(k)
<1> USE DEF Stream!Packets, Packets, Stream!StreamEnd, StreamEnd, Stream!Hdr,
            Hdr, Stream!CutsHeader, CutsHeader, Stream!Packet, Packet,
            Stream!PacketLen, PacketLen, Stream!Run, Run
<1> QED OBVIOUS

(* A step of a call shows nothing to the caller before it returns; then it *)
(* has handed over the piece.                                              *)
LEMMA ReturnIsReceive ==
  ASSUME TypeOK, Return, UNCHANGED <<out, cut>>
  PROVE  Stream!Next \/ UNCHANGED Stream!vars
<1>1. fed' = fed + call /\ call \in Nat /\ fed + call <= StreamEnd
      /\ fed \in Nat /\ StreamEnd \in Nat
  BY WireTypes DEF Return, TypeOK
<1>2. CASE call = 0
  BY <1>1, <1>2 DEF Stream!vars
<1>3. CASE call # 0
  <2>1. call \in 1..Stream!StreamEnd /\ Stream!Receive(call)
    BY <1>1, <1>3, SameWire DEF Stream!Receive
  <2> QED BY <2>1 DEF Stream!Next
<1> QED BY <1>2, <1>3

(* packet_out returns the next packet of the stream, and only once all of  *)
(* it was handed over -- or a header was cut before.                       *)
LEMMA PacketOutIsTake ==
  ASSUME IInv, PacketOut PROVE Stream!Next
<1>1. UNCHANGED <<fed, cut>>
  BY DEF PacketOut
<1>2. CASE cut
  BY <1>1, <1>2 DEF Stream!TakeAnything, Stream!Next
<1>3. CASE ~cut
  <2> DEFINE k == Len(out) + 1
             q == Current
  <2>1. /\ TypeOK /\ Shape /\ InStep /\ pendingQueue # << >>
        /\ out' = Append(out, Head(pendingQueue))
        /\ fed \in Nat /\ Position = fed
    BY <1>3 DEF PacketOut, IInv, Shape, TypeOK, Position
  <2>2. Len(out) \in Nat /\ Len(pendingQueue) \in Nat \ {0}
    BY <2>1, LenProperties, EmptySeq DEF TypeOK
  <2>3. /\ q \in 1..Len(Start) /\ k \in 1..q - 1
        /\ (out \o pendingQueue)[k] = Packet(k)
    <3>1. Len(out \o pendingQueue) = Len(out) + Len(pendingQueue)
          /\ k \in 1..Len(out) + Len(pendingQueue)
      BY <2>1, <2>2, ConcatProperties DEF TypeOK
    <3>2. (out \o pendingQueue)[k] = FirstPackets(Len(out) + Len(pendingQueue))[k]
          /\ Len(out) + Len(pendingQueue) < Len(Start)
      BY <2>1, <3>1 DEF InStep, AlwaysFramed
    <3>3. q = Len(out) + Len(pendingQueue) + 1
      BY DEF Current
    <3>4. Len(Start) \in Nat
      BY StartAssumption
    <3> QED BY <2>2, <3>1, <3>2, <3>3, <3>4 DEF FirstPackets
  <2>4. Head(pendingQueue) = Packet(k)
    <3>1. (out \o pendingQueue)[k] = pendingQueue[1]
      BY <2>1, <2>2, ConcatProperties DEF TypeOK
    <3>2. Head(pendingQueue) = pendingQueue[1]
      BY <2>1, HeadTailProperties DEF TypeOK
    <3> QED BY <2>3, <3>1, <3>2
  <2>5. Start[q] <= fed
    <3>1. pd # NULL => pd.loop \in Nat
      BY <2>1 DEF TypeOK, Desc
    <3>2. Start[q] \in Nat
      BY <2>3, WireTypes
    <3>3. fed = Start[q] \/ (pd # NULL /\ fed = Start[q] + Hdr + pd.loop)
      BY <2>1 DEF InStep
    <3> QED BY <3>1, <3>2, <3>3 DEF Hdr
  <2>6. k = Len(out) + 1
    OBVIOUS
  <2> HIDE DEF q, k
  <2>7. k \in Packets /\ k + 1 \in 1..Len(Start)
    BY <2>2, <2>3, <2>6, StartAssumption DEF Packets
  <2>8. Start[k + 1] <= Start[q]
    <3>1. Start[k + 1] \in Nat /\ Start[q] \in Nat
      BY <2>3, <2>7, WireTypes
    <3>2. k + 1 = q \/ k + 1 < q
      BY <2>2, <2>3, <2>6
    <3>3. k + 1 < q => Start[k + 1] + Hdr <= Start[q]
      BY <2>3, <2>7, StartAssumption
    <3> QED BY <3>1, <3>2, <3>3 DEF Hdr
  <2>9. Stream!Whole(k)
    <3>1. Start[k + 1] \in Nat /\ Start[q] \in Nat
      BY <2>3, <2>7, WireTypes
    <3> QED BY <2>1, <2>5, <2>8, <3>1 DEF Stream!Whole
  <2>10. Stream!Take(k)
    BY <1>1, <1>3, <2>1, <2>4, <2>6, <2>9, SameWire DEF Stream!Take
  <2> QED BY <2>7, <2>10, SameWire DEF Stream!Next
<1> QED BY <1>2, <1>3

(* Every step of the program is a step of the abstract stream or shows     *)
(* nothing of itself to the caller.                                        *)
LEMMA NextSimulates ==
  ASSUME IInv, [Next]_vars
  PROVE  Stream!Next \/ UNCHANGED Stream!vars
<1>0. TypeOK
  BY DEF IInv
<1>1. ASSUME NEW n \in 0..MaxChunk, PacketIn(n)
      PROVE  Stream!Next \/ UNCHANGED Stream!vars
  <2>1. UNCHANGED <<fed, out>> /\ cut' = (cut \/ CutsHeader(fed + n))
    BY <1>1 DEF PacketIn
  <2>2. CASE CutsHeader(fed + n)
    <3>1. cut' = TRUE
      BY <2>1, <2>2
    <3> QED BY <2>1, <3>1 DEF Stream!CutHeader, Stream!Next
  <2>3. CASE ~CutsHeader(fed + n)
    <3>1. cut' = cut
      BY <1>0, <2>1, <2>3 DEF TypeOK
    <3> QED BY <2>1, <3>1 DEF Stream!vars
  <2> QED BY <2>2, <2>3
<1>2. CASE Enter
  <2>1. UNCHANGED <<out, cut>> /\ (Return \/ UNCHANGED fed)
    BY <1>2 DEF Enter
  <2> QED BY <1>0, <2>1, ReturnIsReceive DEF Stream!vars
<1>3. CASE ReadHeader
  BY <1>3 DEF ReadHeader, Stream!vars
<1>4. CASE NoBody
  BY <1>0, <1>4, ReturnIsReceive DEF NoBody
<1>5. CASE Fill
  BY <1>0, <1>5, ReturnIsReceive DEF Fill
<1>6. CASE Complete
  <2>1. UNCHANGED <<out, cut>> /\ (Return \/ UNCHANGED fed)
    BY <1>6 DEF Complete, Hold
  <2> QED BY <1>0, <2>1, ReturnIsReceive DEF Stream!vars
<1>7. CASE PacketOut
  BY <1>7, PacketOutIsTake
<1>8. CASE PacketDestory
  BY <1>8 DEF PacketDestory, Stream!Reset, Stream!Next
<1>9. CASE UNCHANGED vars
  BY <1>9 DEF vars, Stream!vars
<1> QED BY <1>1, <1>2, <1>3, <1>4, <1>5, <1>6, <1>7, <1>8, <1>9
    DEF Next, Unpack

(* The safety part of ImplementsStream, for every stream.                  *)
THEOREM Refinement == Spec => Stream!Init /\ [][Stream!Next]_Stream!vars
<1>1. Init => Stream!Init
  BY DEF Init, Stream!Init
<1>2. IInv /\ [Next]_vars => [Stream!Next]_Stream!vars
  BY NextSimulates
<1> QED BY <1>1, <1>2, Invariance, PTL DEF Spec
=============================================================================
