---------------------------- MODULE UartPath_proofs ----------------------------
(***************************************************************************)
(* What a client types on its way to the program, for every size of the    *)
(* ring, any characters and any number of bytes and connections: the ring  *)
(* is a bounded queue, telnet_input offers it what was typed, and the      *)
(* readers return all of it in order.                                      *)
(***************************************************************************)
EXTENDS UartPath, WellFoundedInduction, SequenceTheorems, TLAPS

-------------------------------------------------------------------------------
\* The ring.

\* Distinct offsets inside the array are distinct cells.
LEMMA WriteIndexCell ==
  ASSUME NEW b \in Cell, NEW m \in Cell
  PROVE  WriteIndex(b, m) \in Cell
BY RingConstants DEF Cell, WriteIndex

LEMMA WriteIndexInjective ==
  ASSUME NEW b \in Cell, NEW m \in Cell, NEW j \in Cell,
         WriteIndex(b, m) = WriteIndex(b, j)
  PROVE  m = j
BY RingConstants DEF Cell, WriteIndex

\* Moving the read index by one shifts every offset by one.
LEMMA WriteIndexShift ==
  ASSUME NEW b \in Cell, NEW m \in Cell, m + 1 \in Cell
  PROVE  WriteIndex(Advance(b), m) = WriteIndex(b, m + 1)
BY RingConstants DEF Cell, WriteIndex, Advance

\* A store into the next free cell keeps the ring well typed and appends.
LEMMA PutStep ==
  ASSUME RingTypeOK, NEW c \in Char, cnt < BUF_SIZE, putch(c)
  PROVE  RingTypeOK' /\ Contents' = Append(Contents, c) /\ result' = <<"put", c, 1>>
<1> USE RingConstants
<1>1. /\ buf' = [buf EXCEPT ![WriteIndex(bptr, cnt)] = c]
      /\ cnt' = cnt + 1 /\ bptr' = bptr /\ result' = <<"put", c, 1>>
  BY DEF putch, RingTypeOK
<1>2. cnt \in Cell /\ bptr \in Cell /\ WriteIndex(bptr, cnt) \in Cell
  <2>1. cnt \in Cell /\ bptr \in Cell
    BY DEF RingTypeOK, Cell
  <2> QED
    BY <2>1, WriteIndexCell
<1>3. buf'[WriteIndex(bptr, cnt)] = c
  BY <1>1, <1>2 DEF RingTypeOK
<1>4. ASSUME NEW m \in 0 .. cnt - 1
      PROVE  /\ WriteIndex(bptr, m) \in Cell
             /\ buf'[WriteIndex(bptr, m)] = buf[WriteIndex(bptr, m)]
  <2>1. m \in Cell /\ m # cnt
    BY <1>2 DEF Cell
  <2>2. WriteIndex(bptr, m) \in Cell /\ WriteIndex(bptr, m) # WriteIndex(bptr, cnt)
    BY <1>2, <2>1, WriteIndexCell, WriteIndexInjective
  <2> QED
    BY <1>1, <2>2 DEF RingTypeOK
<1>5. RingTypeOK'
  <2>1. buf' \in [Cell -> Char \cup {NoChar}]
    BY <1>1 DEF RingTypeOK
  <2>2. ASSUME NEW m \in 0 .. cnt' - 1
        PROVE  buf'[WriteIndex(bptr', m)] \in Char
    <3>1. CASE m = cnt
      BY <1>1, <1>3, <3>1
    <3>2. CASE m # cnt
      <4>1. m \in 0 .. cnt - 1
        BY <1>1, <1>2, <3>2 DEF Cell
      <4> QED
        BY <1>1, <1>4, <4>1 DEF RingTypeOK
    <3> QED
      BY <3>1, <3>2
  <2>3. bptr' \in Cell /\ cnt' \in 0 .. BUF_SIZE
    BY <1>1, <1>2 DEF RingTypeOK, Cell
  <2> QED
    BY <2>1, <2>2, <2>3 DEF RingTypeOK
<1>6. Contents' = Append(Contents, c)
  <2>1. Contents' = [m \in 1 .. cnt + 1 |-> buf'[WriteIndex(bptr, m - 1)]]
    BY <1>1 DEF Contents
  <2>2. Contents = [m \in 1 .. cnt |-> buf[WriteIndex(bptr, m - 1)]]
    BY DEF Contents
  <2>3. cnt \in Nat
    BY DEF RingTypeOK
  <2>4. Contents \in Seq(Char) /\ Len(Contents) = cnt
    BY <2>2, <2>3 DEF RingTypeOK
  <2>5. ASSUME NEW m \in 1 .. cnt + 1
        PROVE  buf'[WriteIndex(bptr, m - 1)] = Append(Contents, c)[m]
    <3>1. CASE m = cnt + 1
      BY <1>3, <2>3, <2>4, <3>1
    <3>2. CASE m # cnt + 1
      <4>1. m - 1 \in 0 .. cnt - 1 /\ m \in 1 .. cnt
        BY <2>3, <3>2
      <4>2. buf'[WriteIndex(bptr, m - 1)] = Contents[m]
        BY <1>4, <2>2, <4>1
      <4> QED
        BY <2>4, <4>1, <4>2
    <3> QED
      BY <3>1, <3>2
  <2>6. /\ Append(Contents, c) \in Seq(Char)
        /\ Len(Append(Contents, c)) = cnt + 1
    BY <2>3, <2>4
  <2>7. Append(Contents, c) = [m \in 1 .. cnt + 1 |-> Append(Contents, c)[m]]
    <3>1. Append(Contents, c) \in [1 .. cnt + 1 -> Char]
      BY <2>6, LenProperties
    <3> QED
      BY <3>1
  <2> QED
    BY <2>1, <2>5, <2>7
<1> QED
  BY <1>1, <1>5, <1>6

\* A read of a non-empty ring takes its oldest character.
LEMMA GetStep ==
  ASSUME RingTypeOK, cnt # 0, getch
  PROVE  /\ RingTypeOK'
         /\ Contents # <<>>
         /\ Contents' = Tail(Contents)
         /\ result' = <<"get", Head(Contents)>>
<1> USE RingConstants
<1>1. /\ buf' = buf /\ cnt' = cnt - 1 /\ bptr' = Advance(bptr)
      /\ result' = <<"get", buf[bptr]>>
  BY DEF getch
<1>2. cnt \in 1 .. BUF_SIZE /\ bptr \in Cell /\ Advance(bptr) \in Cell
  BY DEF RingTypeOK, Cell, Advance
<1>3. ASSUME NEW m \in 0 .. cnt - 2
      PROVE  WriteIndex(Advance(bptr), m) = WriteIndex(bptr, m + 1)
  BY <1>2, WriteIndexShift DEF Cell
<1>4. RingTypeOK'
  <2>1. ASSUME NEW m \in 0 .. cnt' - 1
        PROVE  buf'[WriteIndex(bptr', m)] \in Char
    <3>1. m \in 0 .. cnt - 2 /\ m + 1 \in 0 .. cnt - 1
      BY <1>1, <1>2
    <3> QED
      BY <1>1, <1>3, <3>1 DEF RingTypeOK
  <2> QED
    BY <1>1, <1>2, <2>1 DEF RingTypeOK
<1>5. Contents \in Seq(Char) /\ Len(Contents) = cnt
  BY <1>2 DEF Contents, RingTypeOK
<1>6. Head(Contents) = buf[bptr]
  BY <1>2, <1>5 DEF Contents, WriteIndex, Cell
<1>7. Contents' = Tail(Contents)
  <2>1. Contents' = [m \in 1 .. cnt - 1 |-> buf[WriteIndex(Advance(bptr), m - 1)]]
    BY <1>1 DEF Contents
  <2>2. Tail(Contents) = [m \in 1 .. cnt - 1 |-> Contents[m + 1]]
    <3>1. /\ Tail(Contents) \in Seq(Char)
          /\ Len(Tail(Contents)) = cnt - 1
          /\ \A m \in 1 .. cnt - 1 : Tail(Contents)[m] = Contents[m + 1]
      BY <1>2, <1>5, HeadTailProperties
    <3>2. Tail(Contents) \in [1 .. cnt - 1 -> Char]
      BY <3>1, LenProperties
    <3> QED
      BY <3>1, <3>2
  <2>3. ASSUME NEW m \in 1 .. cnt - 1
        PROVE  buf[WriteIndex(Advance(bptr), m - 1)] = Contents[m + 1]
    <3>1. m - 1 \in 0 .. cnt - 2 /\ m + 1 \in 1 .. cnt /\ (m - 1) + 1 = (m + 1) - 1
      BY <1>2
    <3>2. WriteIndex(Advance(bptr), m - 1) = WriteIndex(bptr, (m + 1) - 1)
      BY <1>3, <3>1
    <3> QED
      BY <3>1, <3>2 DEF Contents
  <2> QED
    BY <2>1, <2>2, <2>3
<1> QED
  BY <1>1, <1>2, <1>4, <1>5, <1>6, <1>7

\* Without room, or without characters, nothing changes.
LEMMA EmptySteps ==
  ASSUME RingTypeOK, NEW c \in Char
  PROVE  /\ getch /\ cnt = 0 =>
              UNCHANGED ringVars /\ result' = <<"get">> /\ Contents = <<>>
         /\ putch(c) /\ cnt = BUF_SIZE =>
              UNCHANGED ringVars /\ result' = <<"put", c, 0>> /\ Len(Contents) = BUF_SIZE
<1>1. Len(Contents) = cnt
  BY DEF Contents, RingTypeOK
<1>2. cnt = 0 => Contents = <<>>
  BY DEF Contents
<1> QED
  BY <1>1, <1>2, RingConstants DEF getch, putch

\* Every operation keeps the ring well formed.
LEMMA RingStep ==
  ASSUME RingTypeOK, [Next]_<<ringVars, result>>
  PROVE  RingTypeOK'
<1>0. UNCHANGED ringVars => RingTypeOK'
  BY DEF ringVars, RingTypeOK
<1>1. CASE getch
  <2>1. CASE cnt = 0
    BY <1>0, <1>1, <2>1 DEF getch
  <2> QED
    BY <1>1, <2>1, GetStep
<1>2. ASSUME NEW c \in Char, putch(c) PROVE RingTypeOK'
  <2>1. CASE cnt < BUF_SIZE
    BY <1>2, <2>1, PutStep
  <2>2. CASE ~(cnt < BUF_SIZE)
    BY <1>0, <1>2, <2>2, RingConstants DEF putch, RingTypeOK
  <2> QED
    BY <2>1, <2>2
<1> QED
  BY <1>0, <1>1, <1>2 DEF Next, ringVars

(***************************************************************************)
(* The ring never leaves its array and counts only typed characters.       *)
(***************************************************************************)
THEOREM RingWellFormed == Spec => []RingTypeOK
<1>1. Init => RingTypeOK
  BY RingConstants DEF Init, RingInit, RingTypeOK, Cell
<1>2. RingTypeOK /\ [Next]_<<ringVars, result>> => RingTypeOK'
  BY RingStep
<1> QED
  BY <1>1, <1>2, PTL DEF Spec

(***************************************************************************)
(* uart_telnet_putch and uart_telnet_getch, when they do not overlap, are  *)
(* the operations of a bounded FIFO queue.                                 *)
(***************************************************************************)
THEOREM RingIsAFifo == Spec => ImplementsFifo
<1>1. Init => Fifo!Init
  BY DEF Init, RingInit, Fifo!Init, Contents
<1>2. RingTypeOK /\ [Next]_<<ringVars, result>> => [Fifo!Next]_(Fifo!vars)
  <2> SUFFICES ASSUME RingTypeOK, [Next]_<<ringVars, result>>
               PROVE  [Fifo!Next]_(Fifo!vars)
    OBVIOUS
  <2>0. Len(Contents) = cnt /\ cnt \in 0 .. BUF_SIZE
    BY DEF Contents, RingTypeOK
  <2>1. UNCHANGED ringVars => Contents' = Contents
    BY DEF ringVars, Contents
  <2>2. CASE getch
    <3>1. CASE cnt = 0
      <4>1. UNCHANGED ringVars /\ result' = <<"get">> /\ Contents = <<>>
        BY <2>2, <3>1 DEF getch, Contents
      <4> QED
        BY <2>1, <4>1 DEF Fifo!Next, Fifo!GetNothing
    <3>2. CASE cnt # 0
      BY <2>2, <3>2, GetStep DEF Fifo!Next, Fifo!Get
    <3> QED
      BY <3>1, <3>2
  <2>3. ASSUME NEW c \in Char, putch(c) PROVE Fifo!Put(c) \/ Fifo!Drop(c)
    <3>1. CASE cnt < BUF_SIZE
      BY <2>0, <2>3, <3>1, PutStep DEF Fifo!Put
    <3>2. CASE cnt = BUF_SIZE
      BY <2>0, <2>1, <2>3, <3>2, EmptySteps DEF Fifo!Drop
    <3> QED
      BY <2>0, <3>1, <3>2, RingConstants
  <2>4. CASE UNCHANGED <<ringVars, result>>
    BY <2>1, <2>4 DEF Fifo!vars, ringVars
  <2> QED
    BY <2>2, <2>3, <2>4 DEF Next, Fifo!Next
<1> QED
  BY <1>1, <1>2, RingWellFormed, PTL DEF Spec, ImplementsFifo, Fifo!Spec

-------------------------------------------------------------------------------
\* The reference: what the last n bytes of a stream say.

\* The least member of a set of lengths.
LEMMA LeastLength ==
  ASSUME NEW S, S \subseteq Nat, S # {}
  PROVE  \E m \in S : \A n \in S : m <= n
<1>1. PICK m \in S : \A n \in S : ~ (<<n, m>> \in OpToRel(<, Nat))
  BY NatLessThanWellFounded, WFMin, Zenon
<1>2. \A n \in S : ~ (n < m)
  BY <1>1 DEF OpToRel
<1> QED
  BY <1>2

\* The first and the second of the last n bytes.
FirstOf(s, n) == s[Len(s) - n + 1]
SecondOf(s, n) == s[Len(s) - n + 2]
AtLineEnd(s, n) == n > 1 /\ FirstOf(s, n) # IAC /\ LineEnd(FirstOf(s, n), SecondOf(s, n))

\* One round of Typed: x, y and z are what one, two and three bytes less say.
Token(s, n, x, y, z) ==
  CASE n = 0 -> <<>>
    [] n > 0 /\ FirstOf(s, n) = IAC -> IF n <= 3 THEN <<>> ELSE z
    [] AtLineEnd(s, n) -> <<CR>> \o y
    [] OTHER -> <<FirstOf(s, n)>> \o x

AtChar(s, n) == n > 0 /\ FirstOf(s, n) # IAC /\ ~AtLineEnd(s, n)
AtCut(s, n) == n = 0 \/ (n <= 3 /\ FirstOf(s, n) = IAC)
AtIac(s, n) == n > 3 /\ FirstOf(s, n) = IAC

\* There is nothing else, and what each says.
LEMMA TokenKinds ==
  ASSUME NEW s, NEW n \in Nat
  PROVE  AtCut(s, n) \/ AtIac(s, n) \/ AtLineEnd(s, n) \/ AtChar(s, n)
<1> QED
  BY DEF AtCut, AtIac, AtLineEnd, AtChar

LEMMA TokenCut ==
  ASSUME NEW s, NEW n \in Nat, AtCut(s, n), NEW x, NEW y, NEW z
  PROVE  Token(s, n, x, y, z) = <<>>
<1>1. CASE n = 0
  BY <1>1 DEF Token, AtLineEnd
<1>2. CASE n > 0
  BY <1>2 DEF Token, AtLineEnd, AtCut
<1> QED
  BY <1>1, <1>2

LEMMA TokenIac ==
  ASSUME NEW s, NEW n \in Nat, AtIac(s, n), NEW x, NEW y, NEW z
  PROVE  Token(s, n, x, y, z) = z
<1> QED
  BY DEF Token, AtLineEnd, AtIac

LEMMA TokenLineEnd ==
  ASSUME NEW s, NEW n \in Nat, AtLineEnd(s, n), NEW x, NEW y, NEW z
  PROVE  Token(s, n, x, y, z) = <<CR>> \o y
<1>1. n > 1 /\ FirstOf(s, n) # IAC
  BY DEF AtLineEnd
<1> QED
  BY <1>1 DEF Token

LEMMA TokenChar ==
  ASSUME NEW s, NEW n \in Nat, AtChar(s, n), NEW x, NEW y, NEW z
  PROVE  Token(s, n, x, y, z) = <<FirstOf(s, n)>> \o x
<1> QED
  BY DEF Token, AtChar

\* What lies in front of the stream does not matter.
LEMMA TokenLocal ==
  ASSUME NEW s, NEW n \in Nat, NEW x, NEW y, NEW z, NEW u, NEW v, NEW w,
         n >= 1 => x = u, n >= 2 => y = v, n >= 3 => z = w
  PROVE  Token(s, n, x, y, z) = Token(s, n, u, v, w)
<1>1. CASE AtCut(s, n)
  BY <1>1, TokenCut
<1>2. CASE AtIac(s, n)
  <2>1. Token(s, n, x, y, z) = z /\ Token(s, n, u, v, w) = w
    BY <1>2, TokenIac
  <2>2. n >= 3
    BY <1>2 DEF AtIac
  <2> QED
    BY <2>1, <2>2
<1>3. CASE AtLineEnd(s, n)
  <2>1. Token(s, n, x, y, z) = <<CR>> \o y /\ Token(s, n, u, v, w) = <<CR>> \o v
    BY <1>3, TokenLineEnd
  <2>2. n >= 2
    BY <1>3 DEF AtLineEnd
  <2> QED
    BY <2>1, <2>2
<1>4. CASE AtChar(s, n)
  <2>1. /\ Token(s, n, x, y, z) = <<FirstOf(s, n)>> \o x
        /\ Token(s, n, u, v, w) = <<FirstOf(s, n)>> \o u
    BY <1>4, TokenChar
  <2>2. n >= 1
    BY <1>4 DEF AtChar
  <2> QED
    BY <2>1, <2>2
<1> QED
  BY <1>1, <1>2, <1>3, <1>4, TokenKinds

\* The recursive function of Typed exists, up to every n.
LEMMA TypedDefined ==
  ASSUME NEW s, NEW n \in Nat
  PROVE  \E f : f = [k \in 0 .. n |-> Token(s, k, f[k - 1], f[k - 2], f[k - 3])]
<1> DEFINE Is(f, m) == f = [k \in 0 .. m |-> Token(s, k, f[k - 1], f[k - 2], f[k - 3])]
           Bad == {m \in Nat : ~ \E f : Is(f, m)}
<1>1. ASSUME Bad # {} PROVE FALSE
  <2>1. PICK m \in Bad : \A j \in Bad : m <= j
    BY <1>1, LeastLength
  <2>2. m \in Nat
    BY <2>1
  <2>3. PICK f : m # 0 => Is(f, m - 1)
    <3>1. ASSUME m # 0 PROVE m - 1 \in Nat /\ m - 1 \notin Bad
      <4> HIDE DEF Bad
      <4> QED
        BY <2>1, <2>2, <3>1
    <3> QED
      BY <3>1
  <2>4. ASSUME NEW k \in 0 .. m, k # m
        PROVE  f[k] = Token(s, k, f[k - 1], f[k - 2], f[k - 3])
    <3>1. m # 0 /\ k \in 0 .. m - 1
      BY <2>2, <2>4
    <3> QED
      BY <2>3, <3>1
  <2> DEFINE g == [k \in 0 .. m |-> IF k = m THEN Token(s, m, f[m - 1], f[m - 2], f[m - 3])
                                    ELSE f[k]]
  <2>5. ASSUME NEW k \in 0 .. m
        PROVE  g[k] = Token(s, k, g[k - 1], g[k - 2], g[k - 3])
    <3>1. k \in Nat /\ (k >= 1 => g[k - 1] = f[k - 1]) /\ (k >= 2 => g[k - 2] = f[k - 2])
          /\ (k >= 3 => g[k - 3] = f[k - 3])
      BY <2>2
    <3>2. Token(s, k, g[k - 1], g[k - 2], g[k - 3]) = Token(s, k, f[k - 1], f[k - 2], f[k - 3])
      <4> HIDE DEF g
      <4> QED
        BY <3>1, TokenLocal
    <3>3. g[k] = Token(s, k, f[k - 1], f[k - 2], f[k - 3])
      BY <2>4
    <3> HIDE DEF g
    <3> QED
      BY <3>2, <3>3
  <2>6. Is(g, m)
    <3> HIDE DEF g
    <3>1. g = [k \in 0 .. m |-> g[k]]
      BY DEF g
    <3> QED
      BY <2>5, <3>1
  <2> QED
    BY <2>1, <2>6
<1> QED
  BY <1>1

\* The function in Typed.
Rest(s) == CHOOSE f : f = [k \in 0 .. Len(s) |-> Token(s, k, f[k - 1], f[k - 2], f[k - 3])]

LEMMA RestIs ==
  ASSUME NEW s \in Seq(Char)
  PROVE  /\ Len(s) \in Nat /\ Typed(s) = Rest(s)[Len(s)]
         /\ \A k \in 0 .. Len(s) :
              Rest(s)[k] = Token(s, k, Rest(s)[k - 1], Rest(s)[k - 2], Rest(s)[k - 3])
<1>1. Len(s) \in Nat
  BY LenProperties
<1>2. Rest(s) = [k \in 0 .. Len(s) |->
                   Token(s, k, Rest(s)[k - 1], Rest(s)[k - 2], Rest(s)[k - 3])]
  <2> DEFINE Is(f) == f = [k \in 0 .. Len(s) |-> Token(s, k, f[k - 1], f[k - 2], f[k - 3])]
  <2>1. \E f : Is(f)
    BY <1>1, TypedDefined
  <2>2. Rest(s) = CHOOSE f : Is(f)
    BY DEF Rest
  <2>3. Is(Rest(s))
    <3> HIDE DEF Is
    <3> QED
      BY <2>1, <2>2
  <2> QED
    BY <2>3
<1>3. Typed(s) = Rest(s)[Len(s)]
  BY DEF Typed, Rest, Token, FirstOf, SecondOf, AtLineEnd
<1>4. PICK f : f = Rest(s)
  OBVIOUS
<1> QED
  BY <1>1, <1>2, <1>3, <1>4

\* What each kind of byte adds.
LEMMA RestCut ==
  ASSUME NEW s \in Seq(Char), NEW k \in 0 .. Len(s), AtCut(s, k)
  PROVE  Rest(s)[k] = <<>>
<1>1. k \in Nat
  BY LenProperties
<1>2. Rest(s)[k] = Token(s, k, Rest(s)[k - 1], Rest(s)[k - 2], Rest(s)[k - 3])
  BY RestIs
<1> QED
  BY <1>1, <1>2, TokenCut

LEMMA RestIac ==
  ASSUME NEW s \in Seq(Char), NEW k \in 0 .. Len(s), AtIac(s, k)
  PROVE  Rest(s)[k] = Rest(s)[k - 3]
<1>1. k \in Nat
  BY LenProperties
<1>2. Rest(s)[k] = Token(s, k, Rest(s)[k - 1], Rest(s)[k - 2], Rest(s)[k - 3])
  BY RestIs
<1> QED
  BY <1>1, <1>2, TokenIac

LEMMA RestLineEnd ==
  ASSUME NEW s \in Seq(Char), NEW k \in 0 .. Len(s), AtLineEnd(s, k)
  PROVE  Rest(s)[k] = <<CR>> \o Rest(s)[k - 2]
<1>1. k \in Nat
  BY LenProperties
<1>2. Rest(s)[k] = Token(s, k, Rest(s)[k - 1], Rest(s)[k - 2], Rest(s)[k - 3])
  BY RestIs
<1> QED
  BY <1>1, <1>2, TokenLineEnd

LEMMA RestChar ==
  ASSUME NEW s \in Seq(Char), NEW k \in 0 .. Len(s), AtChar(s, k)
  PROVE  Rest(s)[k] = <<FirstOf(s, k)>> \o Rest(s)[k - 1]
<1>1. k \in Nat
  BY LenProperties
<1>2. Rest(s)[k] = Token(s, k, Rest(s)[k - 1], Rest(s)[k - 2], Rest(s)[k - 3])
  BY RestIs
<1> QED
  BY <1>1, <1>2, TokenChar

\* What is typed is a sequence of characters.
LEMMA RestTyped ==
  ASSUME NEW s \in Seq(Char)
  PROVE  \A k \in 0 .. Len(s) : Rest(s)[k] \in Seq(Char)
<1> DEFINE f == Rest(s)
           Bad == {k \in 0 .. Len(s) : f[k] \notin Seq(Char)}
<1>1. Len(s) \in Nat
  BY LenProperties
<1>2. ASSUME Bad # {} PROVE FALSE
  <2>1. PICK m \in Bad : \A j \in Bad : m <= j
    <3>1. Bad \subseteq Nat
      BY <1>1
    <3> HIDE DEF Bad
    <3> QED
      BY <1>2, <3>1, LeastLength
  <2>2. m \in Nat /\ m <= Len(s) /\ f[m] \notin Seq(Char)
    BY <1>1, <2>1
  <2>3. \A j \in 0 .. m - 1 : f[j] \in Seq(Char)
    BY <1>1, <2>1, <2>2
  <2>4. f[m] = Token(s, m, f[m - 1], f[m - 2], f[m - 3])
    BY <1>1, <2>2, RestIs
  <2> HIDE DEF f, Bad
  <2>5. CASE AtCut(s, m)
    <3>1. f[m] = <<>>
      BY <2>2, <2>4, <2>5, TokenCut
    <3> QED
      BY <2>2, <3>1
  <2>6. CASE AtIac(s, m)
    <3>1. f[m] = f[m - 3]
      BY <2>2, <2>4, <2>6, TokenIac
    <3>2. m - 3 \in 0 .. m - 1
      BY <2>2, <2>6 DEF AtIac
    <3> QED
      BY <2>2, <2>3, <3>1, <3>2
  <2>7. CASE AtLineEnd(s, m)
    <3>1. f[m] = <<CR>> \o f[m - 2]
      BY <2>2, <2>4, <2>7, TokenLineEnd
    <3>2. f[m - 2] \in Seq(Char) /\ <<CR>> \in Seq(Char)
      BY <2>2, <2>3, <2>7, InputConstants DEF AtLineEnd
    <3> QED
      BY <2>2, <3>1, <3>2, ConcatProperties
  <2>8. CASE AtChar(s, m)
    <3>1. f[m] = <<FirstOf(s, m)>> \o f[m - 1]
      BY <2>2, <2>4, <2>8, TokenChar
    <3>2. m > 0 /\ FirstOf(s, m) \in Char
      BY <1>1, <2>2, <2>8 DEF AtChar, FirstOf
    <3>3. f[m - 1] \in Seq(Char) /\ <<FirstOf(s, m)>> \in Seq(Char)
      BY <2>2, <2>3, <3>2
    <3> QED
      BY <2>2, <3>1, <3>3, ConcatProperties
  <2> QED
    BY <2>2, <2>5, <2>6, <2>7, <2>8, TokenKinds
<1> QED
  BY <1>2

-------------------------------------------------------------------------------
\* What is offered is what was typed, whatever the client sends next.

\* e does not begin with the other half of a line end.
NotCut(s, e) == s = <<>> \/ e = <<>> \/ ~LineEnd(s[Len(s)], e[1])

\* o is what the bytes s say, but for the last n of them.
Promise(s, o, n) ==
  \A e \in Seq(Char) :
    NotCut(s, e) =>
      Rest(s \o e)[Len(s) + Len(e)] = o \o Rest(s \o e)[n + Len(e)]

\* The last n bytes of s are where they were when e follows.
LEMMA Ahead ==
  ASSUME NEW s \in Seq(Char), NEW e \in Seq(Char), NEW n \in 1 .. Len(s)
  PROVE  /\ s \o e \in Seq(Char)
         /\ Len(s) \in Nat /\ Len(e) \in Nat
         /\ Len(s \o e) = Len(s) + Len(e)
         /\ FirstOf(s \o e, n + Len(e)) = FirstOf(s, n)
         /\ n > 1 => SecondOf(s \o e, n + Len(e)) = SecondOf(s, n)
         /\ n = 1 /\ e # <<>> => SecondOf(s \o e, n + Len(e)) = e[1]
<1>1. Len(s) \in Nat /\ Len(e) \in Nat
  BY LenProperties
<1>2. s \o e \in Seq(Char) /\ Len(s \o e) = Len(s) + Len(e)
  BY ConcatProperties
<1>3. \A m \in 1 .. Len(s) + Len(e) :
        (s \o e)[m] = IF m <= Len(s) THEN s[m] ELSE e[m - Len(s)]
  BY ConcatProperties
<1>4. e # <<>> => Len(e) > 0
  BY EmptySeq, <1>1
<1>5. FirstOf(s \o e, n + Len(e)) = (s \o e)[Len(s) - n + 1]
  BY <1>1, <1>2 DEF FirstOf
<1>6. SecondOf(s \o e, n + Len(e)) = (s \o e)[Len(s) - n + 2]
  <2>1. (Len(s) + Len(e)) - (n + Len(e)) + 2 = Len(s) - n + 2
    BY <1>1
  <2>2. PICK t : t = s \o e
    OBVIOUS
  <2>3. SecondOf(t, n + Len(e)) = t[Len(t) - (n + Len(e)) + 2]
    BY Zenon DEF SecondOf
  <2>4. SecondOf(t, n + Len(e)) = t[(Len(s) + Len(e)) - (n + Len(e)) + 2]
    BY <1>2, <2>2, <2>3, Zenon
  <2> QED
    BY <2>1, <2>2, <2>4, Zenon
<1>7. FirstOf(s \o e, n + Len(e)) = FirstOf(s, n)
  BY <1>1, <1>3, <1>5 DEF FirstOf
<1>8. n > 1 => SecondOf(s \o e, n + Len(e)) = SecondOf(s, n)
  BY <1>1, <1>3, <1>6 DEF SecondOf
<1>9. n = 1 /\ e # <<>> => SecondOf(s \o e, n + Len(e)) = e[1]
  BY <1>1, <1>3, <1>4, <1>6
<1> QED
  BY <1>1, <1>2, <1>7, <1>8, <1>9

\* A character moved from the front of the rest to the end of what is offered.
LEMMA MoveOne ==
  ASSUME NEW o \in Seq(Char), NEW c \in Char, NEW r \in Seq(Char)
  PROVE  o \o (<<c>> \o r) = Append(o, c) \o r
<1>1. <<c>> \in Seq(Char)
  OBVIOUS
<1>2. Append(o, c) = o \o <<c>>
  BY AppendIsConcat
<1> QED
  BY <1>1, <1>2, ConcatAssociative

LEMMA PromiseLineEnd ==
  ASSUME NEW s \in Seq(Char), NEW o \in Seq(Char), NEW n \in 1 .. Len(s),
         AtLineEnd(s, n), Promise(s, o, n)
  PROVE  Promise(s, Append(o, CR), n - 2)
<1> SUFFICES ASSUME NEW e \in Seq(Char), NotCut(s, e)
             PROVE  Rest(s \o e)[Len(s) + Len(e)] = Append(o, CR) \o Rest(s \o e)[n - 2 + Len(e)]
  BY DEF Promise
<1>1. PICK t : t = s \o e
  OBVIOUS
<1>2. /\ t \in Seq(Char) /\ Len(s) \in Nat /\ Len(e) \in Nat
      /\ Len(t) = Len(s) + Len(e) /\ n > 1
      /\ FirstOf(t, n + Len(e)) = FirstOf(s, n)
      /\ SecondOf(t, n + Len(e)) = SecondOf(s, n)
  BY <1>1, Ahead DEF AtLineEnd
<1>3. PICK k \in Nat : k = n + Len(e)
  BY <1>2
<1>4. k \in 0 .. Len(t) /\ k - 2 \in 0 .. Len(t) /\ n - 2 + Len(e) = k - 2
  BY <1>2, <1>3
<1>5. AtLineEnd(t, k)
  BY <1>2, <1>3 DEF AtLineEnd
<1>6. Rest(t)[k] = <<CR>> \o Rest(t)[k - 2]
  BY <1>2, <1>4, <1>5, RestLineEnd
<1>7. Rest(t)[k - 2] \in Seq(Char)
  BY <1>2, <1>4, RestTyped
<1>8. Rest(t)[Len(s) + Len(e)] = o \o Rest(t)[k]
  BY <1>1, <1>3 DEF Promise
<1>9. o \o (<<CR>> \o Rest(t)[k - 2]) = Append(o, CR) \o Rest(t)[k - 2]
  BY <1>7, MoveOne, InputConstants
<1> QED
  BY <1>1, <1>4, <1>6, <1>8, <1>9

LEMMA PromiseChar ==
  ASSUME NEW s \in Seq(Char), NEW o \in Seq(Char), NEW n \in 1 .. Len(s),
         AtChar(s, n), Promise(s, o, n)
  PROVE  Promise(s, Append(o, FirstOf(s, n)), n - 1)
<1> SUFFICES ASSUME NEW e \in Seq(Char), NotCut(s, e)
             PROVE  Rest(s \o e)[Len(s) + Len(e)]
                      = Append(o, FirstOf(s, n)) \o Rest(s \o e)[n - 1 + Len(e)]
  BY DEF Promise
<1>1. PICK t : t = s \o e
  OBVIOUS
<1>2. /\ t \in Seq(Char) /\ Len(s) \in Nat /\ Len(e) \in Nat
      /\ Len(t) = Len(s) + Len(e)
      /\ FirstOf(t, n + Len(e)) = FirstOf(s, n)
      /\ n > 1 => SecondOf(t, n + Len(e)) = SecondOf(s, n)
      /\ n = 1 /\ e # <<>> => SecondOf(t, n + Len(e)) = e[1]
  BY <1>1, Ahead
<1>3. PICK k \in Nat : k = n + Len(e)
  BY <1>2
<1>4. k \in 0 .. Len(t) /\ k - 1 \in 0 .. Len(t) /\ n - 1 + Len(e) = k - 1 /\ k > 0
  BY <1>2, <1>3
<1>5. FirstOf(s, n) # IAC /\ FirstOf(s, n) \in Char
  BY <1>2 DEF AtChar, FirstOf
<1>6. ~AtLineEnd(t, k)
  <2>1. CASE n > 1
    BY <1>2, <1>3, <2>1 DEF AtChar, AtLineEnd
  <2>2. CASE n = 1 /\ e = <<>>
    <3>1. k = 1
      BY <1>3, <2>2, EmptySeq
    <3> QED
      BY <3>1 DEF AtLineEnd
  <2>3. CASE n = 1 /\ e # <<>>
    <3>1. FirstOf(s, n) = s[Len(s)] /\ s # <<>>
      BY <1>2, <2>3, EmptySeq DEF FirstOf
    <3>2. ~LineEnd(FirstOf(s, n), e[1])
      BY <2>3, <3>1 DEF NotCut
    <3> QED
      BY <1>2, <1>3, <2>3, <3>2 DEF AtLineEnd
  <2> QED
    BY <2>1, <2>2, <2>3
<1>7. Rest(t)[k] = <<FirstOf(s, n)>> \o Rest(t)[k - 1]
  <2>1. AtChar(t, k)
    BY <1>2, <1>3, <1>4, <1>5, <1>6 DEF AtChar
  <2>2. Rest(t)[k] = <<FirstOf(t, k)>> \o Rest(t)[k - 1]
    BY <1>2, <1>4, <2>1, RestChar
  <2> QED
    BY <1>2, <1>3, <2>2
<1>8. Rest(t)[k - 1] \in Seq(Char)
  BY <1>2, <1>4, RestTyped
<1>9. Rest(t)[Len(s) + Len(e)] = o \o Rest(t)[k]
  BY <1>1, <1>3 DEF Promise
<1>10. o \o (<<FirstOf(s, n)>> \o Rest(t)[k - 1]) = Append(o, FirstOf(s, n)) \o Rest(t)[k - 1]
  BY <1>5, <1>8, MoveOne
<1> QED
  BY <1>1, <1>4, <1>7, <1>9, <1>10

LEMMA PromiseOption ==
  ASSUME NEW s \in Seq(Char), NEW o \in Seq(Char), NEW n \in 3 .. Len(s),
         FirstOf(s, n) = IAC, Promise(s, o, n)
  PROVE  Promise(s, o, n - 3)
<1> SUFFICES ASSUME NEW e \in Seq(Char), NotCut(s, e)
             PROVE  Rest(s \o e)[Len(s) + Len(e)] = o \o Rest(s \o e)[n - 3 + Len(e)]
  BY DEF Promise
<1>1. PICK t : t = s \o e
  OBVIOUS
<1>2. /\ t \in Seq(Char) /\ Len(s) \in Nat /\ Len(e) \in Nat
      /\ Len(t) = Len(s) + Len(e)
      /\ FirstOf(t, n + Len(e)) = IAC
  <2>1. Len(s) \in Nat
    BY LenProperties
  <2>2. n \in 1 .. Len(s)
    BY <2>1
  <2> QED
    BY <1>1, <2>2, Ahead
<1>3. PICK k \in Nat : k = n + Len(e)
  BY <1>2
<1>4. k \in 0 .. Len(t) /\ k - 3 \in 0 .. Len(t) /\ n - 3 + Len(e) = k - 3 /\ k >= 3
  BY <1>2, <1>3
<1>5. Rest(t)[k] = Rest(t)[k - 3]
  <2>1. CASE k > 3
    <3>1. AtIac(t, k)
      BY <1>2, <1>3, <2>1 DEF AtIac
    <3> QED
      BY <1>2, <1>4, <3>1, RestIac
  <2>2. CASE k = 3
    <3>1. AtCut(t, k) /\ AtCut(t, k - 3) /\ k - 3 \in Nat
      BY <1>2, <1>3, <2>2 DEF AtCut
    <3>2. Rest(t)[k] = <<>>
      BY <1>2, <1>4, <3>1, RestCut
    <3>3. Rest(t)[k - 3] = <<>>
      BY <1>2, <1>4, <3>1, RestCut
    <3> QED
      BY <3>2, <3>3
  <2> QED
    BY <1>4, <2>1, <2>2
<1>6. Rest(t)[Len(s) + Len(e)] = o \o Rest(t)[k]
  BY <1>1, <1>3 DEF Promise
<1> QED
  BY <1>1, <1>4, <1>5, <1>6

LEMMA PromiseReceive ==
  ASSUME NEW s \in Seq(Char), NEW o \in Seq(Char), NEW n \in 0 .. Len(s),
         NEW b \in Seq(Char), b # <<>>, NotCut(s, b), Promise(s, o, n)
  PROVE  Promise(s \o b, o, n + Len(b))
<1> SUFFICES ASSUME NEW e \in Seq(Char)
             PROVE  Rest((s \o b) \o e)[Len(s \o b) + Len(e)]
                      = o \o Rest((s \o b) \o e)[n + Len(b) + Len(e)]
  BY DEF Promise
<1>1. (s \o b) \o e = s \o (b \o e)
  BY ConcatAssociative
<1>2. /\ Len(s) \in Nat /\ Len(b) \in Nat /\ Len(e) \in Nat /\ Len(b) > 0
      /\ b \o e \in Seq(Char) /\ Len(b \o e) = Len(b) + Len(e)
      /\ Len(s \o b) = Len(s) + Len(b)
      /\ (b \o e)[1] = b[1]
  <2>1. Len(s) \in Nat /\ Len(b) \in Nat /\ Len(e) \in Nat
    BY LenProperties
  <2>2. Len(b) > 0
    BY <2>1, EmptySeq
  <2> QED
    BY <2>1, <2>2, ConcatProperties
<1>3. NotCut(s, b \o e)
  BY <1>2 DEF NotCut
<1>4. Rest(s \o (b \o e))[Len(s) + Len(b \o e)] = o \o Rest(s \o (b \o e))[n + Len(b \o e)]
  BY <1>2, <1>3 DEF Promise
<1>5. n + Len(b) + Len(e) = n + Len(b \o e) /\ Len(s \o b) + Len(e) = Len(s) + Len(b \o e)
  BY <1>2
<1> QED
  BY <1>1, <1>4, <1>5

LEMMA PromiseNothing == Promise(<<>>, <<>>, 0)
<1> SUFFICES ASSUME NEW e \in Seq(Char)
             PROVE  Rest(<<>> \o e)[Len(<<>>) + Len(e)] = <<>> \o Rest(<<>> \o e)[0 + Len(e)]
  BY DEF Promise
<1>1. <<>> \o e = e /\ Len(<<>>) = 0 /\ Len(e) \in Nat
  BY ConcatEmptySeq, LenProperties
<1>2. Rest(e)[Len(e)] \in Seq(Char)
  BY <1>1, RestTyped
<1>3. <<>> \o Rest(e)[Len(e)] = Rest(e)[Len(e)]
  BY <1>2, ConcatEmptySeq
<1> QED
  BY <1>1, <1>3

\* When only a begun negotiation is left, all that was typed is offered.
LEMMA PromiseKept ==
  ASSUME NEW s \in Seq(Char), NEW o \in Seq(Char), NEW n \in 0 .. Len(s),
         AtCut(s, n), Promise(s, o, n)
  PROVE  o = Typed(s)
<1>1. <<>> \in Seq(Char) /\ s \o <<>> = s /\ Len(<<>>) = 0 /\ Len(s) \in Nat
  BY ConcatEmptySeq, LenProperties
<1>2. Rest(s)[Len(s)] = o \o Rest(s)[n]
  <2>1. NotCut(s, <<>>)
    BY DEF NotCut
  <2>2. Rest(s \o <<>>)[Len(s) + Len(<<>>)] = o \o Rest(s \o <<>>)[n + Len(<<>>)]
    BY <1>1, <2>1 DEF Promise
  <2> QED
    BY <1>1, <2>2
<1>3. Rest(s)[n] = <<>>
  BY <1>1, RestCut
<1> QED
  BY <1>2, <1>3, RestIs, ConcatEmptySeq

\* c is the end of s.
EndOf(c, s) ==
  /\ Len(c) <= Len(s)
  /\ \A m \in 1 .. Len(c) : c[m] = s[Len(s) - Len(c) + m]

LEMMA EndOfBytes ==
  ASSUME NEW s \in Seq(Char), NEW c \in Seq(Char), c # <<>>, EndOf(c, s)
  PROVE  /\ Len(c) \in 1 .. Len(s) /\ Len(s) \in Nat
         /\ Head(c) = FirstOf(s, Len(c)) /\ c[1] = Head(c) /\ Head(c) \in Char
         /\ Len(c) > 1 => c[2] = SecondOf(s, Len(c))
<1>1. Len(s) \in Nat /\ Len(c) \in Nat
  BY LenProperties
<1>2. Len(c) > 0
  BY <1>1, EmptySeq
<1>3. Head(c) = c[1] /\ c[1] \in Char
  BY <1>1, <1>2
<1>4. c[1] = s[Len(s) - Len(c) + 1] /\ (Len(c) > 1 => c[2] = s[Len(s) - Len(c) + 2])
  BY <1>1, <1>2 DEF EndOf
<1> QED
  BY <1>1, <1>2, <1>3, <1>4 DEF EndOf, FirstOf, SecondOf

LEMMA EndOfRest ==
  ASSUME NEW s \in Seq(Char), NEW c \in Seq(Char), EndOf(c, s), NEW m \in 0 .. Len(c)
  PROVE  /\ SubSeq(c, m + 1, Len(c)) \in Seq(Char)
         /\ Len(SubSeq(c, m + 1, Len(c))) = Len(c) - m
         /\ EndOf(SubSeq(c, m + 1, Len(c)), s)
<1>1. Len(s) \in Nat /\ Len(c) \in Nat
  BY LenProperties
<1>2. PICK d : d = SubSeq(c, m + 1, Len(c))
  OBVIOUS
<1>3. /\ d \in Seq(Char) /\ Len(d) = Len(c) - m
      /\ \A j \in 1 .. Len(c) - m : d[j] = c[m + j]
  <2>1. m + 1 \in 1 .. Len(c) + 1 /\ Len(c) \in (m + 1) - 1 .. Len(c)
    BY <1>1
  <2>2. /\ d \in Seq(Char) /\ Len(d) = Len(c) - (m + 1) + 1
        /\ \A j \in 1 .. Len(c) - (m + 1) + 1 : d[j] = c[(m + 1) + j - 1]
    BY <1>1, <1>2
  <2>3. Len(c) - (m + 1) + 1 = Len(c) - m
    BY <1>1
  <2>4. ASSUME NEW j \in 1 .. Len(c) - m PROVE d[j] = c[m + j]
    <3>1. (m + 1) + j - 1 = m + j
      BY <1>1
    <3> QED
      BY <2>2, <2>3, <3>1
  <2> QED
    BY <2>2, <2>3, <2>4
<1>4. ASSUME NEW j \in 1 .. Len(d) PROVE d[j] = s[Len(s) - Len(d) + j]
  <2>1. m + j \in 1 .. Len(c) /\ Len(s) - Len(c) + (m + j) = Len(s) - Len(d) + j
    BY <1>1, <1>3
  <2>2. c[m + j] = s[Len(s) - Len(c) + (m + j)]
    BY <2>1 DEF EndOf
  <2> QED
    BY <1>3, <2>1, <2>2
<1>5. Len(d) <= Len(s)
  BY <1>1, <1>3 DEF EndOf
<1> QED
  BY <1>2, <1>3, <1>4, <1>5 DEF EndOf

\* Tail is the case m = 1.
LEMMA TailIsRest ==
  ASSUME NEW c \in Seq(Char), c # <<>>
  PROVE  Len(c) \in Nat \ {0} /\ Tail(c) = SubSeq(c, 1 + 1, Len(c))
<1>1. Len(c) \in Nat \ {0}
  BY EmptySeq
<1>2. Tail(c) = SubSeq(c, 2, Len(c))
  BY TailIsSubSeq
<1> QED
  BY <1>1, <1>2

\* Bytes of a negotiation that telnet_input has seen.
Behind(st) == IF st = "DATA" THEN 0 ELSE IF st = "IAC" THEN 1 ELSE 2

\* o is what s says up to the chunk c and the negotiation before it.
Owes(c, s, o, st) ==
  /\ Len(c) + Behind(st) <= Len(s)
  /\ st # "DATA" => FirstOf(s, Len(c) + Behind(st)) = IAC
  /\ Promise(s, o, Len(c) + Behind(st))

ParseTypes ==
  /\ connected \in BOOLEAN /\ clear \in BOOLEAN
  /\ state \in {"DATA", "IAC", "OPTION"}
  /\ chunk \in Seq(Char) /\ sent \in Seq(Char) /\ offered \in Seq(Char)

\* Without a connection there is nothing, with one chunk is the end of sent,
\* and offered is what the rest of sent says.
ParseInv ==
  /\ ParseTypes
  /\ ~connected => chunk = <<>> /\ sent = <<>> /\ offered = <<>>
  /\ EndOf(chunk, sent)
  /\ connected /\ clear => Owes(chunk, sent, offered, state)

LEMMA EndOfNothing == EndOf(<<>>, <<>>)
BY DEF EndOf

LEMMA OwesNothing == Owes(<<>>, <<>>, <<>>, "DATA")
<1>1. Len(<<>>) + Behind("DATA") = 0 /\ Len(<<>>) = 0
  BY DEF Behind
<1> QED
  BY <1>1, PromiseNothing DEF Owes

\* The rounds of the loop.
LEMMA DataIac ==
  ASSUME NEW c \in Seq(Char), NEW s \in Seq(Char), NEW o \in Seq(Char), EndOf(c, s),
         c # <<>>, Head(c) = IAC, Owes(c, s, o, "DATA")
  PROVE  Owes(Tail(c), s, o, "IAC")
<1>1. Len(c) \in Nat \ {0} /\ Len(Tail(c)) = Len(c) - 1
  BY EmptySeq, HeadTailProperties
<1>2. Len(c) + Behind("DATA") = Len(c) /\ Len(Tail(c)) + Behind("IAC") = Len(c)
  BY <1>1 DEF Behind
<1>3. FirstOf(s, Len(c)) = IAC
  BY EndOfBytes
<1> QED
  BY <1>2, <1>3 DEF Owes

LEMMA DataLineEnd ==
  ASSUME NEW c \in Seq(Char), NEW s \in Seq(Char), NEW o \in Seq(Char), EndOf(c, s),
         Len(c) > 1, LineEnd(c[1], c[2]), Owes(c, s, o, "DATA")
  PROVE  Owes(SubSeq(c, 2 + 1, Len(c)), s, Append(o, CR), "DATA")
<1>0. c # <<>>
  BY EmptySeq
<1>1. /\ Len(c) \in 1 .. Len(s) /\ Len(s) \in Nat
      /\ c[1] = FirstOf(s, Len(c)) /\ c[2] = SecondOf(s, Len(c))
  BY <1>0, EndOfBytes
<1>2. PICK n \in Nat : n = Len(c)
  BY <1>1
<1>3. c[1] # IAC
  BY InputConstants DEF LineEnd
<1>4. AtLineEnd(s, n)
  BY <1>1, <1>2, <1>3 DEF AtLineEnd
<1>5. Promise(s, o, n)
  BY <1>1, <1>2 DEF Owes, Behind
<1>6. Promise(s, Append(o, CR), n - 2)
  BY <1>1, <1>2, <1>4, <1>5, PromiseLineEnd
<1>7. Len(SubSeq(c, 2 + 1, Len(c))) = n - 2
  BY <1>1, <1>2, EndOfRest
<1> QED
  BY <1>1, <1>2, <1>6, <1>7 DEF Owes, Behind

LEMMA DataChar ==
  ASSUME NEW c \in Seq(Char), NEW s \in Seq(Char), NEW o \in Seq(Char), EndOf(c, s),
         c # <<>>, Head(c) # IAC, ~(Len(c) > 1 /\ LineEnd(c[1], c[2])),
         Owes(c, s, o, "DATA")
  PROVE  Owes(SubSeq(c, 1 + 1, Len(c)), s, Append(o, Head(c)), "DATA")
<1>1. /\ Len(c) \in 1 .. Len(s) /\ Len(s) \in Nat
      /\ c[1] = FirstOf(s, Len(c)) /\ (Len(c) > 1 => c[2] = SecondOf(s, Len(c)))
      /\ Head(c) = FirstOf(s, Len(c))
  BY EndOfBytes
<1>2. PICK n \in Nat : n = Len(c)
  BY <1>1
<1>3. AtChar(s, n)
  BY <1>1, <1>2 DEF AtLineEnd, AtChar
<1>4. Promise(s, o, n)
  BY <1>1, <1>2 DEF Owes, Behind
<1>5. Promise(s, Append(o, Head(c)), n - 1)
  BY <1>1, <1>2, <1>3, <1>4, PromiseChar
<1>6. Len(SubSeq(c, 1 + 1, Len(c))) = n - 1
  BY <1>1, <1>2, EndOfRest
<1> QED
  BY <1>1, <1>2, <1>5, <1>6 DEF Owes, Behind

LEMMA CommandVerb ==
  ASSUME NEW c \in Seq(Char), NEW s \in Seq(Char), NEW o \in Seq(Char),
         c # <<>>, Owes(c, s, o, "IAC")
  PROVE  Owes(Tail(c), s, o, "OPTION")
<1>1. Len(c) \in Nat \ {0} /\ Len(Tail(c)) = Len(c) - 1
  BY EmptySeq, HeadTailProperties
<1>2. Len(Tail(c)) + Behind("OPTION") = Len(c) + Behind("IAC")
  BY <1>1 DEF Behind
<1> QED
  BY <1>2 DEF Owes

LEMMA OptionByte ==
  ASSUME NEW c \in Seq(Char), NEW s \in Seq(Char), NEW o \in Seq(Char),
         c # <<>>, Owes(c, s, o, "OPTION")
  PROVE  Owes(Tail(c), s, o, "DATA")
<1>1. Len(c) \in Nat \ {0} /\ Len(Tail(c)) = Len(c) - 1 /\ Len(s) \in Nat
  BY EmptySeq, HeadTailProperties, LenProperties
<1>2. PICK n \in Nat : n = Len(c) + 2
  BY <1>1
<1>3. n \in 3 .. Len(s) /\ FirstOf(s, n) = IAC /\ Promise(s, o, n)
  BY <1>1, <1>2 DEF Owes, Behind
<1>4. Promise(s, o, n - 3)
  BY <1>3, PromiseOption
<1>5. Len(Tail(c)) + Behind("DATA") = n - 3
  BY <1>1, <1>2 DEF Behind
<1> QED
  BY <1>1, <1>2, <1>3, <1>4, <1>5 DEF Owes

LEMMA ReceiveBytes ==
  ASSUME NEW b \in Seq(Char), b # <<>>, NEW s \in Seq(Char), NEW o \in Seq(Char),
         NEW st \in {"DATA", "IAC", "OPTION"}, Owes(<<>>, s, o, st), NotCut(s, b)
  PROVE  Owes(b, s \o b, o, st)
<1>1. Len(b) \in Nat \ {0} /\ Len(s) \in Nat /\ Len(s \o b) = Len(s) + Len(b)
  BY EmptySeq, LenProperties, ConcatProperties
<1>2. PICK n \in Nat : n = Behind(st)
  BY DEF Behind
<1>3. n <= Len(s) /\ (st # "DATA" => FirstOf(s, n) = IAC) /\ Promise(s, o, n)
  BY <1>2, EmptySeq DEF Owes
<1>4. Promise(s \o b, o, n + Len(b))
  BY <1>1, <1>3, PromiseReceive
<1>5. st # "DATA" => n \in 1 .. Len(s)
  BY <1>1, <1>2, <1>3 DEF Behind
<1>6. st # "DATA" => FirstOf(s \o b, n + Len(b)) = IAC
  BY <1>3, <1>5, Ahead
<1>7. Len(b) + Behind(st) = n + Len(b) /\ n + Len(b) <= Len(s \o b)
  BY <1>1, <1>2, <1>3
<1> QED
  BY <1>4, <1>6, <1>7 DEF Owes

LEMMA ReceiveEnd ==
  ASSUME NEW b \in Seq(Char), NEW s \in Seq(Char)
  PROVE  s \o b \in Seq(Char) /\ EndOf(b, s \o b)
<1>1. Len(b) \in Nat /\ Len(s) \in Nat /\ Len(s \o b) = Len(s) + Len(b)
  BY LenProperties, ConcatProperties
<1>2. s \o b \in Seq(Char)
  BY ConcatProperties
<1>3. ASSUME NEW m \in 1 .. Len(b) PROVE b[m] = (s \o b)[Len(s \o b) - Len(b) + m]
  <2>1. Len(s \o b) - Len(b) + m = Len(s) + m
    BY <1>1
  <2>2. Len(s) + m \in 1 .. Len(s) + Len(b) /\ ~(Len(s) + m <= Len(s))
        /\ (Len(s) + m) - Len(s) = m
    BY <1>1
  <2>3. (s \o b)[Len(s) + m] = b[(Len(s) + m) - Len(s)]
    BY <2>2, ConcatProperties
  <2> QED
    BY <2>1, <2>2, <2>3
<1> QED
  BY <1>1, <1>2, <1>3 DEF EndOf

\* The steps of the telnet thread keep the invariant.
LEMMA ParseInit == InputInit => ParseInv
<1> SUFFICES ASSUME InputInit PROVE ParseInv
  OBVIOUS
<1>1. ParseTypes
  BY EmptySeq DEF InputInit, ParseTypes
<1> QED
  BY <1>1, EndOfNothing DEF InputInit, ParseInv

LEMMA ConnectStep == ASSUME Connect PROVE ParseInv'
<1>1. /\ connected' = TRUE /\ state' = "DATA" /\ chunk' = <<>>
      /\ sent' = <<>> /\ offered' = <<>> /\ clear' = TRUE
  BY DEF Connect, NewConnection
<1>2. ParseTypes'
  BY <1>1, EmptySeq DEF ParseTypes
<1>3. EndOf(chunk', sent')
  BY <1>1, EndOfNothing
<1>4. Owes(chunk', sent', offered', state')
  BY <1>1, OwesNothing
<1> QED
  BY <1>1, <1>2, <1>3, <1>4 DEF ParseInv

LEMMA DisconnectStep == ASSUME ParseInv, Disconnect PROVE ParseInv'
<1>1. /\ connected' = FALSE /\ state' = state /\ chunk' = <<>>
      /\ sent' = <<>> /\ offered' = <<>> /\ clear' = TRUE
  BY DEF Disconnect
<1>2. ParseTypes'
  BY <1>1, EmptySeq DEF ParseInv, ParseTypes
<1>3. EndOf(chunk', sent')
  BY <1>1, EndOfNothing
<1> QED
  BY <1>1, <1>2, <1>3 DEF ParseInv

LEMMA ReceiveStep ==
  ASSUME ParseInv, NEW bytes \in Chunks, Receive(bytes)
  PROVE  ParseInv'
<1>1. bytes \in Seq(Char) /\ bytes # <<>> /\ Head(bytes) = bytes[1]
  <2>1. PICK n \in 1 .. MaxSent : bytes \in [1 .. n -> Char]
    BY DEF Chunks
  <2>2. n \in Nat \ {0}
    BY <2>1, InputConstants
  <2>3. bytes \in Seq(Char) /\ Len(bytes) = n
    BY <2>1, <2>2
  <2> QED
    BY <2>2, <2>3, EmptySeq
<1>2. /\ connected = TRUE /\ connected' = connected /\ state' = state
      /\ chunk = <<>> /\ chunk' = bytes
      /\ sent' = sent \o bytes /\ offered' = offered
      /\ clear' = (clear /\ (sent # <<>> => ~LineEnd(sent[Len(sent)], Head(bytes))))
  BY DEF Receive, ParseInv, ParseTypes
<1>3. /\ sent \in Seq(Char) /\ offered \in Seq(Char)
      /\ state \in {"DATA", "IAC", "OPTION"}
  BY DEF ParseInv, ParseTypes
<1>4. sent' \in Seq(Char) /\ EndOf(chunk', sent')
  BY <1>1, <1>2, <1>3, ReceiveEnd
<1>5. clear' \in BOOLEAN
  BY <1>2, Zenon
<1>6. ASSUME clear' PROVE Owes(chunk', sent', offered', state')
  <2>1. clear /\ NotCut(sent, bytes)
    BY <1>1, <1>2, <1>6 DEF NotCut
  <2>2. Owes(<<>>, sent, offered, state)
    BY <1>2, <2>1 DEF ParseInv
  <2> QED
    BY <1>1, <1>2, <1>3, <2>1, <2>2, ReceiveBytes
<1>7. ParseTypes'
  BY <1>1, <1>2, <1>3, <1>4, <1>5 DEF ParseTypes
<1> QED
  BY <1>2, <1>4, <1>6, <1>7 DEF ParseInv

\* A round of the loop offers at most one character.
Offers(c) == offered' = Append(offered, c) /\ putch(c)

LEMMA ParseStep ==
  ASSUME ParseInv, Parse
  PROVE  /\ ParseInv'
         /\ \/ offered' = offered /\ UNCHANGED <<ringVars, result>>
            \/ \E c \in Char : Offers(c)
<1>1. /\ connected \in BOOLEAN /\ clear \in BOOLEAN
      /\ state \in {"DATA", "IAC", "OPTION"}
      /\ chunk \in Seq(Char) /\ sent \in Seq(Char) /\ offered \in Seq(Char)
      /\ EndOf(chunk, sent)
  BY DEF ParseInv, ParseTypes
<1>2. chunk # <<>> /\ connected' = connected /\ sent' = sent
  BY DEF Parse
<1>3. connected = TRUE
  BY <1>1, <1>2 DEF ParseInv
<1>4. clear => Owes(chunk, sent, offered, state)
  BY <1>3 DEF ParseInv
<1>5. Tail(chunk) \in Seq(Char) /\ EndOf(Tail(chunk), sent)
  <2>1. Len(chunk) \in Nat \ {0} /\ Tail(chunk) = SubSeq(chunk, 1 + 1, Len(chunk))
    BY <1>1, <1>2, TailIsRest
  <2>2. 1 \in 0 .. Len(chunk)
    BY <2>1
  <2>3. /\ SubSeq(chunk, 1 + 1, Len(chunk)) \in Seq(Char)
        /\ EndOf(SubSeq(chunk, 1 + 1, Len(chunk)), sent)
    BY <1>1, <2>2, EndOfRest
  <2> QED
    BY <2>1, <2>3
<1>6. CASE state = "DATA" /\ Head(chunk) = IAC /\ state' = "IAC" /\ chunk' = Tail(chunk)
           /\ UNCHANGED <<ringVars, result, offered, clear>>
  <2>1. clear => Owes(chunk', sent', offered', state')
    BY <1>1, <1>2, <1>4, <1>6, DataIac
  <2>2. ParseTypes'
    BY <1>1, <1>2, <1>5, <1>6 DEF ParseTypes
  <2>3. ParseInv'
    BY <1>2, <1>3, <1>5, <1>6, <2>1, <2>2 DEF ParseInv
  <2> QED
    BY <1>6, <2>3
<1>7. CASE state = "DATA" /\ Len(chunk) > 1 /\ LineEnd(chunk[1], chunk[2]) /\ Offer(CR, 2)
  <2>1. /\ putch(CR) /\ offered' = Append(offered, CR) /\ state' = "DATA" /\ clear' = clear
        /\ chunk' = SubSeq(chunk, 2 + 1, Len(chunk))
    BY <1>7 DEF Offer
  <2>2. CR \in Char
    BY InputConstants
  <2>3. chunk' \in Seq(Char) /\ EndOf(chunk', sent')
    <3>1. 2 \in 0 .. Len(chunk)
      BY <1>1, <1>7, LenProperties
    <3> QED
      BY <1>1, <1>2, <2>1, <3>1, EndOfRest
  <2>4. clear => Owes(chunk', sent', offered', state')
    BY <1>1, <1>2, <1>4, <1>7, <2>1, DataLineEnd
  <2>5. offered' \in Seq(Char)
    BY <1>1, <2>1, <2>2, AppendProperties
  <2>6. ParseTypes'
    BY <1>1, <1>2, <2>1, <2>3, <2>5 DEF ParseTypes
  <2>7. ParseInv'
    BY <1>2, <1>3, <2>1, <2>3, <2>4, <2>6 DEF ParseInv
  <2> QED
    BY <2>1, <2>2, <2>7 DEF Offers
<1>8. CASE state = "DATA" /\ Head(chunk) # IAC
           /\ ~(Len(chunk) > 1 /\ LineEnd(chunk[1], chunk[2])) /\ Offer(Head(chunk), 1)
  <2>1. /\ putch(Head(chunk)) /\ offered' = Append(offered, Head(chunk))
        /\ state' = "DATA" /\ clear' = clear
        /\ chunk' = SubSeq(chunk, 1 + 1, Len(chunk))
    BY <1>8 DEF Offer
  <2>2. Head(chunk) \in Char
    BY <1>1, <1>2, EndOfBytes
  <2>3. chunk' \in Seq(Char) /\ EndOf(chunk', sent')
    BY <1>1, <1>2, <1>5, <2>1, TailIsRest
  <2>4. clear => Owes(chunk', sent', offered', state')
    BY <1>1, <1>2, <1>4, <1>8, <2>1, DataChar
  <2>5. offered' \in Seq(Char)
    BY <1>1, <2>1, <2>2, AppendProperties
  <2>6. ParseTypes'
    BY <1>1, <1>2, <2>1, <2>3, <2>5 DEF ParseTypes
  <2>7. ParseInv'
    BY <1>2, <1>3, <2>1, <2>3, <2>4, <2>6 DEF ParseInv
  <2> QED
    BY <2>1, <2>2, <2>7 DEF Offers
<1>9. CASE state = "IAC" /\ ParseCommand
  <2>1. /\ state' = IF Head(chunk) \in Verb THEN "OPTION" ELSE "IAC"
        /\ clear' = (clear /\ Head(chunk) \in Verb) /\ chunk' = Tail(chunk)
        /\ offered' = offered /\ UNCHANGED <<ringVars, result>>
    BY <1>9 DEF ParseCommand
  <2>2. clear' \in BOOLEAN
    BY <2>1, Zenon
  <2>3. ASSUME clear' PROVE Owes(chunk', sent', offered', state')
    <3>1. clear /\ Head(chunk) \in Verb
      BY <2>1, <2>3
    <3>2. Owes(Tail(chunk), sent, offered, "OPTION")
      BY <1>1, <1>2, <1>4, <1>9, <3>1, CommandVerb
    <3> QED
      BY <1>2, <2>1, <3>1, <3>2
  <2>4. ParseTypes'
    BY <1>1, <1>2, <1>5, <2>1, <2>2 DEF ParseTypes
  <2>5. ParseInv'
    BY <1>2, <1>3, <1>5, <2>1, <2>3, <2>4 DEF ParseInv
  <2> QED
    BY <2>1, <2>5
<1>10. CASE state = "OPTION" /\ ParseOption
  <2>1. /\ state' = "DATA" /\ chunk' = Tail(chunk) /\ clear' = clear
        /\ offered' = offered /\ UNCHANGED <<ringVars, result>>
    BY <1>10 DEF ParseOption
  <2>2. clear => Owes(chunk', sent', offered', state')
    BY <1>1, <1>2, <1>4, <1>10, <2>1, OptionByte
  <2>3. ParseTypes'
    BY <1>1, <1>2, <1>5, <2>1 DEF ParseTypes
  <2>4. ParseInv'
    BY <1>2, <1>3, <1>5, <2>1, <2>2, <2>3 DEF ParseInv
  <2> QED
    BY <2>1, <2>4
<1> QED
  BY <1>6, <1>7, <1>8, <1>9, <1>10 DEF Parse, ParseData

-------------------------------------------------------------------------------
\* The steps of the telnet thread and of the readers.

LEMMA TelnetStep ==
  ASSUME ParseInv, Telnet
  PROVE  /\ ParseInv'
         /\ \/ UNCHANGED <<ringVars, result>>
            \/ \E c \in Char : Offers(c)
<1>1. CASE Connect
  BY <1>1, ConnectStep DEF Connect
<1>2. CASE Disconnect
  BY <1>2, DisconnectStep DEF Disconnect
<1>3. CASE Parse
  BY <1>3, ParseStep
<1>4. ASSUME NEW bytes \in Chunks, Receive(bytes)
      PROVE  ParseInv' /\ UNCHANGED <<ringVars, result>>
  BY <1>4, ReceiveStep DEF Receive
<1> QED
  BY <1>1, <1>2, <1>3, <1>4 DEF Telnet

\* A step that is not the telnet thread's leaves the parser alone.
LEMMA ParseUnchanged == ASSUME ParseInv, UNCHANGED parseVars PROVE ParseInv'
BY DEF parseVars, ParseInv, ParseTypes

\* A read of the ring by telnet_read or by the converter.
LEMMA ReadsGet ==
  ASSUME NEW d, NEW got, uart_read(d, got)
  PROVE  UNCHANGED <<ringVars, result>> \/ getch
BY DEF uart_read, telnet_read, Silent

\* Every step of the path is a step of the ring, and the parser goes its way.
LEMMA PathStep ==
  ASSUME ParseInv, [PathNext]_vars
  PROVE  ParseInv' /\ [Next]_<<ringVars, result>>
<1>1. CASE TelnetThread
  BY <1>1, TelnetStep DEF TelnetThread, Next, Offers
<1>2. ASSUME NEW d \in Devices, ReadOne(d) PROVE ParseInv' /\ [Next]_<<ringVars, result>>
  BY <1>2, ParseUnchanged, ReadsGet DEF ReadOne, Next
<1>3. ASSUME NEW timeout, ReadAll(timeout) PROVE ParseInv' /\ [Next]_<<ringVars, result>>
  BY <1>3, ParseUnchanged DEF ReadAll
<1>4. CASE PollDevice
  <2>1. \E got : uart_read(i, got)
    BY <1>4 DEF PollDevice
  <2> QED
    BY <1>4, <2>1, ParseUnchanged, ReadsGet DEF PollDevice, Next
<1>5. CASE EndRound
  BY <1>5, ParseUnchanged DEF EndRound
<1>6. CASE TimePasses
  BY <1>6, ParseUnchanged DEF TimePasses
<1>7. CASE DccControl
  BY <1>7, ParseUnchanged DEF DccControl, Keeps, Next
<1>8. CASE DccData
  BY <1>8, ParseUnchanged DEF DccData, Keeps
<1>9. CASE UNCHANGED vars
  BY <1>9, ParseUnchanged DEF vars
<1> QED
  BY <1>1, <1>2, <1>3, <1>4, <1>5, <1>6, <1>7, <1>8, <1>9 DEF PathNext, Reader

(***************************************************************************)
(* However recv cuts what a client sends, telnet_input offers the ring the *)
(* characters that were typed.                                             *)
(***************************************************************************)
THEOREM TypedAlwaysOffered == PathSpec => []OffersTyped
<1>1. PathInit => ParseInv
  BY ParseInit DEF PathInit
<1>2. ParseInv /\ [PathNext]_vars => ParseInv'
  BY PathStep
<1>3. ParseInv => OffersTyped
  <2> SUFFICES ASSUME ParseInv, clear, chunk = <<>> PROVE offered = Typed(sent)
    BY DEF OffersTyped
  <2>1. sent \in Seq(Char) /\ offered \in Seq(Char) /\ state \in {"DATA", "IAC", "OPTION"}
    BY DEF ParseInv, ParseTypes
  <2>2. CASE connected
    <3>1. PICK n \in Nat : n = Behind(state)
      BY <2>1 DEF Behind
    <3>2. Owes(<<>>, sent, offered, state)
      BY <2>2 DEF ParseInv
    <3>3. n <= Len(sent) /\ (state # "DATA" => FirstOf(sent, n) = IAC) /\ Promise(sent, offered, n)
      BY <3>1, <3>2, EmptySeq DEF Owes
    <3>4. AtCut(sent, n)
      BY <2>1, <3>1, <3>3 DEF AtCut, Behind
    <3>5. n \in 0 .. Len(sent)
      BY <2>1, <3>1, <3>3, LenProperties
    <3> QED
      BY <2>1, <3>3, <3>4, <3>5, PromiseKept
  <2>3. CASE ~connected
    <3>1. sent = <<>> /\ offered = <<>>
      BY <2>3 DEF ParseInv
    <3>2. AtCut(<<>>, 0) /\ Promise(<<>>, <<>>, 0) /\ 0 \in 0 .. Len(<<>>)
      BY PromiseNothing DEF AtCut
    <3> QED
      BY <2>1, <3>1, <3>2, PromiseKept
  <2> QED
    BY <2>2, <2>3
<1> QED
  BY <1>1, <1>2, <1>3, PTL DEF PathSpec

(***************************************************************************)
(* The ring between telnet_input and the readers is the bounded queue.     *)
(***************************************************************************)
THEOREM PathRingIsAFifo == PathSpec => ImplementsFifo
<1>1. PathInit => ParseInv /\ Init
  BY ParseInit DEF PathInit, InputInit, Init
<1>2. ParseInv /\ [PathNext]_vars => ParseInv' /\ [Next]_<<ringVars, result>>
  BY PathStep
<1>3. PathSpec => Spec
  BY <1>1, <1>2, PTL DEF PathSpec, Spec
<1> QED
  BY <1>3, RingIsAFifo

-------------------------------------------------------------------------------
\* What the ring accepted reaches the program.

\* The character of the converter is one, and there is none without it.
DccOK ==
  /\ dcc \in [on : BOOLEAN, full : BOOLEAN, char : Char \cup {NoChar}]
  /\ dcc.full => dcc.on /\ dcc.char \in Char

PathInv == RingTypeOK /\ ParseInv /\ DccOK /\ ReachesProgram

LEMMA ContentsTyped ==
  ASSUME RingTypeOK
  PROVE  Contents \in Seq(Char) /\ Len(Contents) = cnt
BY DEF Contents, RingTypeOK

LEMMA WaitingTyped ==
  ASSUME DccOK
  PROVE  Waiting \in Seq(Char) /\ (~dcc.full => Waiting = <<>>) /\ (~dcc.on => Waiting = <<>>)
BY DEF DccOK, Waiting

LEMMA EmptyDcc ==
  /\ Empty \in [on : BOOLEAN, full : BOOLEAN, char : Char \cup {NoChar}]
  /\ Off \in [on : BOOLEAN, full : BOOLEAN, char : Char \cup {NoChar}]
  /\ Empty.full = FALSE /\ Off.full = FALSE
BY DEF Empty, Off

\* What keeps the ring, the converter and the debt keeps the property.
LEMMA DebtKept ==
  ASSUME DccOK, ReachesProgram, UNCHANGED ringVars, dcc' = dcc, UNCHANGED Delivered
  PROVE  DccOK' /\ ReachesProgram'
<1>1. Contents' = Contents
  BY DEF ringVars, Contents
<1>2. Waiting' = Waiting
  BY DEF Waiting
<1> QED
  BY <1>1, <1>2 DEF DccOK, ReachesProgram, Delivered

LEMMA TelnetDebt ==
  ASSUME PathInv, TelnetThread
  PROVE  DccOK' /\ ReachesProgram'
<1>1. /\ cnt \in 0 .. BUF_SIZE /\ dcc' = dcc /\ inOrder' = inOrder
      /\ owed' = IF cnt' > cnt THEN Append(owed, offered'[Len(offered')]) ELSE owed
  BY DEF PathInv, RingTypeOK, TelnetThread, readVars
<1>2. CASE UNCHANGED <<ringVars, result>>
  <2>1. owed' = owed
    BY <1>1, <1>2 DEF ringVars
  <2> QED
    BY <1>1, <1>2, <2>1, DebtKept DEF PathInv, Delivered
<1>3. ASSUME NEW c \in Char, Offers(c) PROVE DccOK' /\ ReachesProgram'
  <2>1. CASE cnt < BUF_SIZE
    <3>1. Contents' = Append(Contents, c)
      BY <1>3, <2>1, PutStep DEF PathInv, Offers
    <3>2. cnt' > cnt
      BY <1>1, <1>3, <2>1, RingConstants DEF Offers, putch
    <3>3. offered' = Append(offered, c) /\ offered \in Seq(Char)
      BY <1>3 DEF Offers, PathInv, ParseInv, ParseTypes
    <3>4. offered'[Len(offered')] = c
      BY <3>3, AppendProperties
    <3>5. owed' = Append(Waiting \o Contents, c)
      BY <1>1, <3>2, <3>4 DEF PathInv, ReachesProgram
    <3>6. Waiting' = Waiting
      BY <1>1 DEF Waiting
    <3>7. Append(Waiting \o Contents, c) = Waiting \o Append(Contents, c)
      <4>1. Waiting \in Seq(Char) /\ Contents \in Seq(Char) /\ <<c>> \in Seq(Char)
        BY ContentsTyped, WaitingTyped DEF PathInv
      <4>2. PICK a \in Seq(Char), b \in Seq(Char) : a = Waiting /\ b = Contents
        BY <4>1
      <4>3. a \o b \in Seq(Char)
        BY ConcatProperties
      <4>4. Append(a \o b, c) = (a \o b) \o <<c>> /\ Append(b, c) = b \o <<c>>
        BY <4>3, AppendIsConcat
      <4>5. (a \o b) \o <<c>> = a \o (b \o <<c>>)
        BY <4>1, ConcatAssociative
      <4> QED
        BY <4>2, <4>4, <4>5
    <3> QED
      BY <1>1, <3>1, <3>5, <3>6, <3>7 DEF PathInv, ReachesProgram, DccOK
  <2>2. CASE ~(cnt < BUF_SIZE)
    <3>1. UNCHANGED ringVars
      BY <1>1, <1>3, <2>2, RingConstants DEF Offers, putch
    <3>2. owed' = owed
      BY <1>1, <3>1 DEF ringVars
    <3> QED
      BY <1>1, <3>1, <3>2, DebtKept DEF PathInv, Delivered
  <2> QED
    BY <2>1, <2>2
<1> QED
  BY <1>2, <1>3, TelnetStep DEF PathInv, TelnetThread

\* A character read is the oldest of the debt.
LEMMA ReadDebt ==
  ASSUME PathInv, dcc' = dcc, NEW d, NEW got, uart_read(d, got)
  PROVE  DccOK' /\ ReachesProgram'
<1>1. CASE Silent
  BY <1>1, DebtKept DEF PathInv, Silent
<1>2. CASE cnt = 0 /\ getch /\ UNCHANGED Delivered
  BY <1>2, DebtKept DEF PathInv, getch
<1>3. CASE ~dcc.on /\ cnt # 0 /\ getch /\ Deliver(buf[bptr])
  <2>1. /\ Contents # <<>> /\ Contents' = Tail(Contents)
        /\ result' = <<"get", Head(Contents)>>
    BY <1>3, GetStep DEF PathInv
  <2>2. Head(Contents) = buf[bptr]
    BY <1>3, <2>1 DEF getch
  <2>3. Waiting = <<>> /\ Contents \in Seq(Char) /\ Waiting' = Waiting
    <3>1. Waiting' = Waiting
      BY DEF Waiting
    <3> QED
      BY <1>3, <3>1, ContentsTyped, WaitingTyped DEF PathInv
  <2>4. owed = Contents
    BY <2>3, ConcatEmptySeq DEF PathInv, ReachesProgram
  <2>5. inOrder' /\ owed' = Tail(Contents)
    BY <1>3, <2>1, <2>2, <2>4 DEF Deliver, PathInv, ReachesProgram
  <2>6. Tail(Contents) \in Seq(Char)
    BY <2>1, <2>3, HeadTailProperties
  <2>7. Waiting' \o Contents' = Tail(Contents)
    BY <2>1, <2>3, <2>6, ConcatEmptySeq
  <2> QED
    BY <2>5, <2>7 DEF PathInv, DccOK, ReachesProgram
<1> QED
  BY <1>1, <1>2, <1>3 DEF uart_read, telnet_read

LEMMA ControlDebt ==
  ASSUME PathInv, DccControl
  PROVE  DccOK' /\ ReachesProgram'
<1>1. UNCHANGED Delivered
  BY DEF DccControl
<1>2. CASE UNCHANGED <<ringVars, result, dcc>>
  BY <1>1, <1>2, DebtKept DEF PathInv
<1>3. CASE cnt = 0 /\ getch /\ UNCHANGED dcc
  BY <1>1, <1>3, DebtKept DEF PathInv, getch
<1>4. CASE ~dcc.full /\ cnt # 0 /\ getch
           /\ dcc' = [Empty EXCEPT !.full = TRUE, !.char = buf[bptr]]
  <2>1. /\ Contents # <<>> /\ Contents' = Tail(Contents)
        /\ result' = <<"get", Head(Contents)>>
    BY <1>4, GetStep DEF PathInv
  <2>2. Contents \in Seq(Char) /\ Waiting = <<>>
    BY <1>4, ContentsTyped, WaitingTyped DEF PathInv
  <2>3. PICK c \in Char : c = Head(Contents) /\ c = buf[bptr]
    <3>1. Head(Contents) \in Char
      BY <2>1, <2>2, HeadTailProperties
    <3> QED
      BY <1>4, <2>1, <3>1 DEF getch
  <2>4. dcc' = [on |-> TRUE, full |-> TRUE, char |-> c]
    BY <1>4, <2>3 DEF Empty, Off
  <2>5. DccOK' /\ Waiting' = <<c>>
    BY <2>4 DEF DccOK, Waiting
  <2>6. <<c>> \o Tail(Contents) = Contents
    <3>1. PICK s \in Seq(Char) : s = Contents
      BY <2>2
    <3>2. Len(s) \in Nat \ {0}
      BY <2>1, <3>1, EmptySeq
    <3>3. SubSeq(s, 1, Len(s)) = s /\ Tail(s) = SubSeq(s, 2, Len(s))
      BY <2>1, <3>1, SubSeqFull, TailIsSubSeq
    <3>4. SubSeq(s, 1, Len(s)) = <<s[1]>> \o SubSeq(s, 1 + 1, Len(s))
      BY <3>2, SubSeqRecursiveFirst
    <3>5. s[1] = c
      BY <2>3, <3>1, <3>2
    <3> QED
      BY <3>1, <3>3, <3>4, <3>5
  <2>7. owed = Contents /\ inOrder
    BY <2>2, ConcatEmptySeq DEF PathInv, ReachesProgram
  <2> QED
    BY <1>1, <2>1, <2>5, <2>6, <2>7 DEF ReachesProgram, Delivered
<1> QED
  BY <1>2, <1>3, <1>4 DEF DccControl

LEMMA DataDebt ==
  ASSUME PathInv, DccData
  PROVE  DccOK' /\ ReachesProgram'
<1>1. dcc' = Empty /\ UNCHANGED ringVars
  BY DEF DccData
<1>2. DccOK' /\ Waiting' = <<>> /\ Contents' = Contents
  <2>1. DccOK' /\ Waiting' = <<>>
    BY <1>1, EmptyDcc DEF DccOK, Waiting
  <2> QED
    BY <1>1, <2>1 DEF Contents, ringVars
<1>3. Contents \in Seq(Char)
  BY ContentsTyped DEF PathInv
<1>4. Waiting' \o Contents' = Contents
  BY <1>2, <1>3, ConcatEmptySeq
<1>5. CASE dcc.full
  <2>1. PICK c \in Char, s \in Seq(Char) : c = dcc.char /\ s = Contents
    BY <1>3, <1>5 DEF PathInv, DccOK
  <2>2. owed = <<c>> \o s /\ inOrder
    BY <1>5, <2>1 DEF PathInv, ReachesProgram, Waiting
  <2>3. owed # <<>> /\ Head(owed) = c /\ Tail(owed) = s
    <3>1. <<c>> \in Seq(Char) /\ Len(<<c>>) = 1 /\ <<c>>[1] = c
      OBVIOUS
    <3>2. Len(s) \in Nat
      BY LenProperties
    <3>3. PICK t \in Seq(Char) : t = <<c>> \o s
      BY <3>1, ConcatProperties
    <3>4. /\ Len(t) = 1 + Len(s) /\ t[1] = c
          /\ \A m \in 2 .. 1 + Len(s) : t[m] = s[m - 1]
      BY <3>1, <3>2, <3>3, ConcatProperties
    <3>5. t # <<>> /\ Head(t) = c
      BY <3>2, <3>4, EmptySeq
    <3>6. Tail(t) = s
      <4>1. /\ Tail(t) \in Seq(Char) /\ Len(Tail(t)) = Len(s)
            /\ \A m \in 1 .. Len(s) : Tail(t)[m] = t[m + 1]
        BY <3>2, <3>4, <3>5, HeadTailProperties
      <4>2. \A m \in 1 .. Len(s) : Tail(t)[m] = s[m]
        <5> SUFFICES ASSUME NEW m \in 1 .. Len(s) PROVE Tail(t)[m] = s[m]
          OBVIOUS
        <5>1. m + 1 \in 2 .. 1 + Len(s) /\ (m + 1) - 1 = m
          BY <3>2
        <5> QED
          BY <3>4, <4>1, <5>1
      <4> QED
        BY <4>1, <4>2, SeqEqual
    <3> QED
      BY <2>2, <3>3, <3>5, <3>6
  <2>4. inOrder' /\ owed' = s
    BY <1>5, <2>1, <2>2, <2>3 DEF DccData, Deliver
  <2> QED
    BY <1>2, <1>4, <2>1, <2>4 DEF ReachesProgram
<1>6. CASE ~dcc.full
  <2>1. owed = Contents /\ inOrder
    BY <1>3, <1>6, WaitingTyped, ConcatEmptySeq DEF PathInv, ReachesProgram
  <2>2. UNCHANGED Delivered
    BY <1>6 DEF DccData
  <2> QED
    BY <1>2, <1>4, <2>1, <2>2 DEF ReachesProgram, Delivered
<1> QED
  BY <1>5, <1>6

LEMMA PathDebt ==
  ASSUME PathInv, [PathNext]_vars
  PROVE  DccOK' /\ ReachesProgram'
<1>0. DccOK /\ ReachesProgram
  BY DEF PathInv
<1>1. CASE TelnetThread
  BY <1>1, TelnetDebt
<1>2. ASSUME NEW d \in Devices, ReadOne(d) PROVE DccOK' /\ ReachesProgram'
  BY <1>2, ReadDebt DEF ReadOne, readVars
<1>3. ASSUME NEW timeout, ReadAll(timeout) PROVE DccOK' /\ ReachesProgram'
  BY <1>0, <1>3, DebtKept DEF ReadAll
<1>4. CASE PollDevice
  <2>1. dcc' = dcc /\ \E got : uart_read(i, got)
    BY <1>4 DEF PollDevice
  <2> QED
    BY <2>1, ReadDebt
<1>5. CASE EndRound
  BY <1>0, <1>5, DebtKept DEF EndRound
<1>6. CASE TimePasses
  BY <1>0, <1>6, DebtKept DEF TimePasses
<1>7. CASE DccControl
  BY <1>7, ControlDebt
<1>8. CASE DccData
  BY <1>8, DataDebt
<1>9. CASE UNCHANGED vars
  BY <1>0, <1>9, DebtKept DEF vars, readVars, Delivered
<1> QED
  BY <1>1, <1>2, <1>3, <1>4, <1>5, <1>6, <1>7, <1>8, <1>9 DEF PathNext, Reader

(***************************************************************************)
(* The program reads what the ring accepted, each character once and in    *)
(* order, whichever of the readers it uses.                                *)
(***************************************************************************)
THEOREM TypedReachesProgram == PathSpec => []ReachesProgram
<1>1. PathInit => PathInv
  <2> SUFFICES ASSUME PathInit PROVE PathInv
    OBVIOUS
  <2>1. RingTypeOK /\ ParseInv
    BY ParseInit, RingConstants DEF PathInit, InputInit, RingInit, RingTypeOK, Cell
  <2>2. DccOK /\ Waiting = <<>>
    BY EmptyDcc DEF PathInit, DccOK, Waiting
  <2>3. Contents = <<>>
    BY DEF PathInit, InputInit, RingInit, Contents
  <2>4. ReachesProgram
    BY <2>2, <2>3, EmptySeq, ConcatEmptySeq DEF PathInit, ReachesProgram
  <2> QED
    BY <2>1, <2>2, <2>4 DEF PathInv
<1>2. PathInv /\ [PathNext]_vars => PathInv'
  BY PathStep, PathDebt, RingStep DEF PathInv
<1>3. PathInv => ReachesProgram
  BY DEF PathInv
<1> QED
  BY <1>1, <1>2, <1>3, PTL DEF PathSpec
================================================================================
